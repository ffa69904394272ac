------------------------- MODULE KeyExchangeProofs -------------------------
(***************************************************************************)
(* Theorems about KeyExchange, for every number of connections, rooms,     *)
(* joins and failures: the server in it is that of RoomServer, and a key   *)
(* reaches only those who were admitted somewhere.                         *)
(***************************************************************************)
EXTENDS KeyExchange, RoomServerProofs, SequenceTheorems

----------------------------------------------------------------------------
(* The server among its clients.                                           *)

(* A step of KeyExchange is a step of RoomServer, or leaves it alone.      *)
LEMMA ServerStep ==
    ASSUME [KNext]_kVars
    PROVE  [Next]_vars
  <1>1. CASE UNCHANGED kVars
    BY <1>1 DEF kVars
  <1>2. ASSUME NEW c \in User, Request(c) \/ Work(c) PROVE Next
    BY <1>2 DEF Next
  <1>3. ASSUME NEW c \in User, Goroutine(c) PROVE [Next]_vars
    <2>1. CASE Write(c) \/ Notify(c) \/ SendKey(c) \/ ListNames(c)
      BY <2>1 DEF Write, Notify, SendKey, ListNames
    <2>2. CASE Other(c)
      BY <1>2, <2>2 DEF Other, Request, Work
    <2>3. CASE KCreateMem(c) \/ KJoinMem(c) \/ KHandOver(c)
      BY <1>2, <2>3 DEF KCreateMem, KJoinMem, KHandOver, Work
    <2>4. ASSUME NEW r \in Room, NEW n \in RoomName, NEW p \in Password \cup {NoPass},
                 KCreate(c, r, n, p)
          PROVE  Next
      BY <1>2, <2>4 DEF KCreate, Request
    <2>5. ASSUME NEW r \in Room, NEW n \in RoomName, NEW p \in Password \cup {NoPass},
                 NEW h \in User \cup {NoUser}, KJoin(c, n, p, r, h)
          PROVE  Next
      BY <1>2, <2>5 DEF KJoin, Request
    <2> QED
      BY <1>3, <2>1, <2>2, <2>3, <2>4, <2>5 DEF Goroutine
  <1>4. ASSUME NEW c \in User, Listen(c) PROVE UNCHANGED vars
    BY <1>4 DEF Listen, DrawKey, AnswerRequest, InstallKey
  <1> QED
    BY <1>1, <1>3, <1>4 DEF KNext

(* So whatever RoomServer guarantees, it guarantees to its clients.        *)
THEOREM ServerAmongClients == KSpec => Spec
  <1>1. KInit => Init
    BY DEF KInit
  <1> QED
    BY <1>1, ServerStep, PTL DEF KSpec, Spec
----------------------------------------------------------------------------
(* The inductive invariant: a line that asks for somebody's key, or holds  *)
(* one, is about a user who has been admitted somewhere; and so is a line  *)
(* that makes its reader draw the key of a room.                           *)

Adm(u) == \E r \in Room : <<u, r>> \in admitted
Rightful(c, line) ==
    /\ line.type = "created" => Adm(c)
    /\ line.type \in {"req", "key"} => Adm(line.user)

LinesFor(c) == {line \in Line : Rightful(c, line)}
Answers == {m \in Command : m.line.type = "key" /\ Adm(m.line.user)}
Writes == {w \in [to : User, line : Line] : Rightful(w.to, w.line)}

ShapeInv ==
    /\ key \in [User -> Key \cup {NoRoom}]
    /\ DOMAIN inbox = User /\ DOMAIN outbox = User /\ DOMAIN pending = User
    /\ admitted \subseteq User \X Room
    /\ joins \in 0..MaxJoins /\ listings \in 0..MaxListings
LinesInv ==
    \A c \in User :
        /\ inbox[c] \in Seq(LinesFor(c))
        /\ outbox[c] \in Seq(Answers)
        /\ pending[c] \in Seq(Writes)
ArrivalsInv ==
    \A c \in User :
        /\ pc[c] \in {"created", "joined"} => Adm(c)
        /\ Adm(c) => user[c].name \in UserName

KInv == ShapeInv /\ LinesInv /\ ArrivalsInv /\ OthersKeyNeedsAdmission

(* The lines.                                                              *)
LEMMA SealedFacts ==
    ASSUME NEW k \in Key, NEW u \in User
    PROVE  /\ Sealed(k, u) \in Line
           /\ Sealed(k, u).type = "key" /\ Sealed(k, u).user = u
  <1>1. Sealed(k, u) \in {Sealed(k1, u1) : k1 \in Key, u1 \in User}
    OBVIOUS
  <1> QED
    BY <1>1 DEF Line, Sealed

LEMMA LineFacts ==
    /\ \A r \in Room : Created(r) \in Line /\ Created(r).type = "created"
    /\ \A u \in User : /\ ReqFrom(u) \in Line
                       /\ ReqFrom(u).type = "req" /\ ReqFrom(u).user = u
    /\ Tale \in Line /\ Tale.type = "tale"
    /\ Notice \in Line /\ Notice.type = "notice"
  <1>1. \A r \in Room : Created(r) \in Line /\ Created(r).type = "created"
    BY DEF Line, Created
  <1>2. \A u \in User : /\ ReqFrom(u) \in Line
                       /\ ReqFrom(u).type = "req" /\ ReqFrom(u).user = u
    BY DEF Line, ReqFrom
  <1>3. Tale \in Line /\ Tale.type = "tale"
    BY DEF Line, Tale
  <1>4. Notice \in Line /\ Notice.type = "notice"
    BY DEF Line, Notice
  <1> QED
    BY <1>1, <1>2, <1>3, <1>4

(* Whoever has been admitted stays so, and what is rightful stays rightful.*)
LEMMA RightsGrow ==
    ASSUME admitted \subseteq admitted'
    PROVE  /\ \A u : Adm(u) => Adm(u)'
           /\ \A c : Seq(LinesFor(c)) \subseteq Seq(LinesFor(c)')
           /\ Seq(Answers) \subseteq Seq(Answers')
           /\ Seq(Writes) \subseteq Seq(Writes')
  <1>1. \A u : Adm(u) => Adm(u)'
    BY DEF Adm
  <1>2. \A c : LinesFor(c) \subseteq LinesFor(c)'
    BY <1>1 DEF LinesFor, Rightful
  <1>3. Answers \subseteq Answers'
    BY <1>1 DEF Answers
  <1>4. Writes \subseteq Writes'
    BY <1>1 DEF Writes, Rightful
  <1> QED
    BY <1>1, <1>2, <1>3, <1>4, SeqMonotonic

(* Who has just been admitted has a name.                                  *)
LEMMA ArrivalsStep ==
    ASSUME IInv, ShapeInv, ArrivalsInv, [KNext]_kVars
    PROVE  admitted \subseteq admitted' /\ ArrivalsInv'
  <1>1. TypeOK /\ NamesInv
    BY DEF IInv
  <1>2. CASE UNCHANGED <<pc, user, admitted>>
    BY <1>2 DEF ArrivalsInv, Adm
  <1>3. ASSUME NEW c \in User, Request(c) \/ Work(c),
               admitted \subseteq admitted',
               \A u \in User \ {c} : Adm(u)' => Adm(u),
               pc'[c] \in {"created", "joined"} => Adm(c)',
               Adm(c)' => user'[c].name \in UserName
        PROVE  ArrivalsInv'
    <2>1. \A d \in User \ {c} : pc'[d] = pc[d] /\ user'[d] = user[d]
      BY <1>1, <1>3, NonInterference DEF MemoryKept
    <2>2. \A u : Adm(u) => Adm(u)'
      BY <1>3 DEF Adm
    <2> QED
      BY <1>3, <2>1, <2>2 DEF ArrivalsInv
  <1>4. ASSUME NEW c \in User, Other(c) PROVE UNCHANGED admitted /\ ArrivalsInv'
    <2>1. UNCHANGED admitted /\ (Request(c) \/ Work(c))
      BY <1>4 DEF Other, keyVars, Request, Work
    <2>2. pc'[c] \notin {"created", "joined"}
      BY <1>1, <1>4 DEF TypeOK, Other, Accept, GiveUp, HangUp, Leave, Heir, Register,
        OpenSession, Select, HandOver, LeaveTx, AfterLeave, LeaveMem, Teardown, Purge, Goto
    <2>3. user'[c].name = user[c].name \/ user'[c].name \in UserName
      BY <1>1, <1>4 DEF TypeOK, Local, Other, Accept, GiveUp, HangUp, Leave, Register,
        OpenSession, Select, HandOver, LeaveTx, LeaveMem, Teardown, Purge
    <2> QED
      BY <1>3, <2>1, <2>2, <2>3 DEF Adm, ArrivalsInv
  <1>5. ASSUME NEW c \in User, KCreateMem(c) \/ KJoinMem(c) \/ KHandOver(c)
        PROVE  UNCHANGED admitted /\ ArrivalsInv'
    <2>1. UNCHANGED admitted /\ (Request(c) \/ Work(c))
      BY <1>5 DEF KCreateMem, KJoinMem, KHandOver, Work
    <2>2. pc'[c] \notin {"created", "joined"}
      BY <1>1, <1>5 DEF TypeOK, KCreateMem, KJoinMem, KHandOver, CreateMem, JoinMem,
        HandOver, Goto
    <2>3. user'[c].name = user[c].name
      BY <1>1, <1>5 DEF TypeOK, Local, KCreateMem, KJoinMem, KHandOver, CreateMem, JoinMem,
        HandOver
    <2> QED
      BY <1>3, <2>1, <2>2, <2>3 DEF Adm, ArrivalsInv
  <1>6. ASSUME NEW c \in User, NEW r \in Room, pc[c] = "loop", Request(c), UNCHANGED user,
               admitted' = admitted \cup {<<c, r>>}
        PROVE  admitted \subseteq admitted' /\ ArrivalsInv'
    <2>1. user[c].name \in UserName
      BY <1>1, <1>6 DEF NamesInv, Registered, HasSession, TypeOK, StorageTypeOK, UserRow
    <2>2. Adm(c)' /\ \A u \in User \ {c} : Adm(u)' => Adm(u)
      BY <1>6 DEF Adm
    <2> QED
      BY <1>3, <1>6, <2>1, <2>2
  <1>7. ASSUME NEW c \in User, Goroutine(c)
        PROVE  admitted \subseteq admitted' /\ ArrivalsInv'
    <2>1. CASE Write(c) \/ Notify(c) \/ SendKey(c) \/ ListNames(c)
      BY <1>2, <2>1 DEF Write, Notify, SendKey, ListNames, vars
    <2>2. ASSUME NEW r \in Room, NEW n \in RoomName, NEW p \in Password \cup {NoPass},
                 KCreate(c, r, n, p)
          PROVE  admitted \subseteq admitted' /\ ArrivalsInv'
      BY <1>6, <2>2 DEF KCreate, Create, Goto, Request
    <2>3. ASSUME NEW r \in Room, NEW n \in RoomName, NEW p \in Password \cup {NoPass},
                 NEW h \in User \cup {NoUser}, KJoin(c, n, p, r, h)
          PROVE  admitted \subseteq admitted' /\ ArrivalsInv'
      BY <1>6, <2>3 DEF KJoin, Join, Goto, Request
    <2> QED
      BY <1>4, <1>5, <1>7, <2>1, <2>2, <2>3 DEF Goroutine
  <1> QED
    <2>1. CASE UNCHANGED kVars
      BY <1>2, <2>1 DEF kVars, keyVars, vars
    <2>2. ASSUME NEW c \in User, Listen(c) PROVE UNCHANGED <<pc, user, admitted>>
      BY <2>2 DEF Listen, DrawKey, AnswerRequest, InstallKey, vars
    <2> QED
      BY <1>2, <1>7, <2>1, <2>2 DEF KNext
----------------------------------------------------------------------------
(* Lines on their way.                                                     *)

(* What a queue becomes when its reader takes the head, or a writer adds.  *)
LEMMA QueueFacts ==
    ASSUME NEW S, NEW q \in Seq(S)
    PROVE  /\ q # << >> => /\ Head(q) \in S /\ Tail(q) \in Seq(S)
                           /\ q[1] \in S /\ Len(Tail(q)) <= Len(q)
           /\ \A x \in S : Append(q, x) \in Seq(S) /\ <<x>> \in Seq(S) /\ Len(<<x>>) = 1
  OBVIOUS

LEMMA AtMostOne ==
    ASSUME NEW S, NEW q, q = << >> \/ \E x \in S : q = <<x>>
    PROVE  q \in Seq(S)
  <1>1. CASE q = << >>
    BY <1>1
  <1>2. ASSUME NEW x \in S, q = <<x>> PROVE q \in Seq(S)
    BY <1>2
  <1> QED
    BY <1>1, <1>2

(* A notice to each session of a room, in any order.                       *)
LEMMA Notices ==
    ASSUME DOMAIN sess \subseteq User, NEW v, NEW order \in SetToSeqs(Notified(v)),
           NEW T, \A u \in User : [to |-> u, line |-> Tale] \in T
    PROVE  [i \in DOMAIN order |-> [to |-> order[i], line |-> Tale]] \in Seq(T)
  <1>1. IsFiniteSet(Notified(v)) /\ Notified(v) \subseteq User
    BY UserAssumption, FS_Subset DEF Notified
  <1>2. Cardinality(Notified(v)) \in Nat
    BY <1>1, FS_CardinalityType
  <1>3. order \in [1..Cardinality(Notified(v)) -> Notified(v)]
    BY DEF SetToSeqs
  <1>4. ASSUME NEW i \in DOMAIN order PROVE [to |-> order[i], line |-> Tale] \in T
    BY <1>1, <1>3
  <1>5. DOMAIN order = 1..Cardinality(Notified(v))
    BY <1>3
  <1>6. [i \in 1..Cardinality(Notified(v)) |-> [to |-> order[i], line |-> Tale]]
            \in Seq(T)
    BY <1>2, <1>4, <1>5
  <1> QED
    BY <1>5, <1>6

(* A step that changes only the queues of c, and rightfully, is rightful.  *)
LEMMA LinesKept ==
    ASSUME ShapeInv, LinesInv, admitted \subseteq admitted', NEW c \in User,
           \/ UNCHANGED inbox
           \/ \E d \in User : \E q \in Seq(LinesFor(d)) : inbox' = [inbox EXCEPT ![d] = q],
           \/ UNCHANGED outbox
           \/ \E q \in Seq(Answers) : outbox' = [outbox EXCEPT ![c] = q],
           \/ UNCHANGED pending
           \/ \E q \in Seq(Writes') : pending' = [pending EXCEPT ![c] = q]
    PROVE  LinesInv' /\ DOMAIN inbox' = User /\ DOMAIN outbox' = User /\ DOMAIN pending' = User
  <1>1. ASSUME NEW d \in User PROVE inbox'[d] \in Seq(LinesFor(d)')
    <2>1. inbox'[d] \in Seq(LinesFor(d))
      BY DEF ShapeInv, LinesInv
    <2> QED
      BY <2>1, RightsGrow
  <1>2. ASSUME NEW d \in User PROVE outbox'[d] \in Seq(Answers')
    <2>1. outbox'[d] \in Seq(Answers)
      BY DEF ShapeInv, LinesInv
    <2> QED
      BY <2>1, RightsGrow
  <1>3. ASSUME NEW d \in User PROVE pending'[d] \in Seq(Writes')
    <2>1. pending[d] \in Seq(Writes')
      BY RightsGrow DEF LinesInv
    <2> QED
      BY <2>1 DEF ShapeInv
  <1>4. DOMAIN inbox' = User /\ DOMAIN outbox' = User /\ DOMAIN pending' = User
    BY DEF ShapeInv
  <1> QED
    BY <1>1, <1>2, <1>3, <1>4 DEF LinesInv

(* Each step of a goroutine keeps the lines rightful.                      *)
LEMMA GoroutineLines ==
    ASSUME IInv, KInv, admitted \subseteq admitted', NEW c \in User, Goroutine(c)
    PROVE  LinesInv' /\ DOMAIN inbox' = User /\ DOMAIN outbox' = User /\ DOMAIN pending' = User
  <1> DEFINE Goal == LinesInv' /\ DOMAIN inbox' = User /\ DOMAIN outbox' = User
                              /\ DOMAIN pending' = User
  <1>a. ShapeInv /\ LinesInv /\ ArrivalsInv /\ TypeOK
    BY DEF KInv, IInv
  <1>b. Writes \subseteq Writes'
    BY DEF Writes, Rightful, Adm
  <1>1. CASE Write(c)
    <2> DEFINE w == pending[c][1]
    <2>1. w \in Writes /\ Tail(pending[c]) \in Seq(Writes)
      BY <1>a, <1>1, QueueFacts DEF Write, Busy, LinesInv
    <2>2. w.to \in User /\ w.line \in LinesFor(w.to)
      BY <2>1 DEF Writes, LinesFor
    <2>3. Append(inbox[w.to], w.line) \in Seq(LinesFor(w.to))
      BY <1>a, <2>2, QueueFacts DEF LinesInv
    <2>4. \/ UNCHANGED inbox
          \/ inbox' = [inbox EXCEPT ![w.to] = Append(inbox[w.to], w.line)]
      BY <1>a, <1>1, <2>2 DEF Write, ShapeInv
    <2>5. pending' = [pending EXCEPT ![c] = Tail(pending[c])] /\ UNCHANGED outbox
      BY <1>a, <1>1 DEF Write, ShapeInv
    <2>6. Tail(pending[c]) \in Seq(Writes')
      BY <1>b, <2>1, SeqMonotonic
    <2> HIDE DEF w
    <2> QED
      BY <1>a, <2>1, <2>2, <2>3, <2>4, <2>5, <2>6, LinesKept
  <1>2. CASE SendKey(c)
    <2>1. Head(outbox[c]) \in Answers /\ Tail(outbox[c]) \in Seq(Answers)
      BY <1>a, <1>2, QueueFacts DEF SendKey, LinesInv
    <2>2. UNCHANGED inbox /\ outbox' = [outbox EXCEPT ![c] = Tail(outbox[c])]
      BY <1>a, <1>2 DEF SendKey, ShapeInv
    <2>3. ASSUME NEW d \in User
          PROVE  <<[to |-> d, line |-> Head(outbox[c]).line]>> \in Seq(Writes')
      <3>1. [to |-> d, line |-> Head(outbox[c]).line] \in Writes
        BY <2>1 DEF Answers, Command, Writes, Rightful
      <3> QED
        BY <1>b, <3>1
    <2>4. \/ UNCHANGED pending
          \/ \E d \in User :
                pending' = [pending EXCEPT ![c] = <<[to |-> d, line |-> Head(outbox[c]).line]>>]
      BY <1>a, <1>2 DEF SendKey, WriteTo, TypeOK
    <2> QED
      BY <1>a, <2>1, <2>2, <2>3, <2>4, LinesKept
  <1>3. CASE ListNames(c)
    <2>1. /\ UNCHANGED <<inbox, outbox>>
          /\ pending' = [pending EXCEPT ![c] = <<[to |-> c, line |-> Tale]>>]
      BY <1>3 DEF ListNames, WriteTo
    <2>2. [to |-> c, line |-> Tale] \in Writes'
      BY LineFacts DEF Writes, Rightful
    <2>3. <<[to |-> c, line |-> Tale]>> \in Seq(Writes')
      BY <2>2
    <2> QED
      BY <1>a, <2>1, <2>3, LinesKept
  <1>4. CASE KCreateMem(c)
    <2>1. /\ UNCHANGED <<inbox, outbox>>
          /\ pending' = [pending EXCEPT ![c] = <<[to |-> c, line |-> Created(job[c].room)]>>]
      BY <1>4 DEF KCreateMem, WriteTo
    <2>2. pc[c] = "created"
      BY <1>4 DEF KCreateMem, CreateMem, Goto
    <2>3. job[c].room \in Room
      BY <1>a, <2>2 DEF IInv, RoutingInv, TypeOK, StorageTypeOK
    <2>4. [to |-> c, line |-> Created(job[c].room)] \in Writes
      BY <1>a, <2>2, <2>3, LineFacts DEF Writes, Rightful, ArrivalsInv
    <2>5. \A x \in Writes' : <<x>> \in Seq(Writes')
      OBVIOUS
    <2> QED
      BY <1>a, <1>b, <2>1, <2>4, <2>5, LinesKept
  <1>5. CASE KJoinMem(c)
    <2>1. /\ UNCHANGED <<inbox, outbox>>
          /\ pending' = [pending EXCEPT ![c] = Asked(c) \o Told(c)]
      BY <1>5 DEF KJoinMem
    <2>2. pc[c] = "joined"
      BY <1>5 DEF KJoinMem, JoinMem, Goto
    <2>3. \/ Asked(c) = << >>
          \/ \E w \in Writes : Asked(c) = <<w>>
      <3>1. ASSUME job[c].peer \in DOMAIN sess
            PROVE  [to |-> job[c].peer, line |-> ReqFrom(c)] \in Writes
        BY <1>a, <2>2, <3>1, LineFacts DEF Writes, Rightful, ArrivalsInv, TypeOK
      <3> QED
        BY <3>1 DEF Asked
    <2>4. \/ Told(c) = << >>
          \/ \E w \in Writes : Told(c) = <<w>>
      <3>1. [to |-> c, line |-> Tale] \in Writes
        BY LineFacts DEF Writes, Rightful
      <3> QED
        BY <3>1 DEF Told
    <2>5. Asked(c) \in Seq(Writes) /\ Told(c) \in Seq(Writes)
      BY <2>3, <2>4, AtMostOne
    <2>6. Asked(c) \o Told(c) \in Seq(Writes')
      BY <1>b, <2>5, ConcatProperties, SeqMonotonic
    <2> QED
      BY <1>a, <2>1, <2>6, LinesKept
  <1>6. CASE KHandOver(c)
    <2>1. UNCHANGED <<inbox, outbox>>
      BY <1>6 DEF KHandOver
    <2>2. \/ UNCHANGED pending
          \/ \E v \in User : pending' = [pending EXCEPT ![c] = <<[to |-> v, line |-> Notice]>>]
      BY <1>a, <1>6 DEF KHandOver, WriteTo, TypeOK
    <2>3. ASSUME NEW v \in User PROVE <<[to |-> v, line |-> Notice]>> \in Seq(Writes')
      <3>1. [to |-> v, line |-> Notice] \in Writes'
        BY LineFacts DEF Writes, Rightful
      <3> QED
        BY <3>1
    <2> QED
      BY <1>a, <2>1, <2>2, <2>3, LinesKept
  <1>7. CASE Notify(c)
    <2> DEFINE v == pending[c][1].to
    <2>1. PICK order \in SetToSeqs(Notified(v)) :
             pending' = [pending EXCEPT ![c] = Tail(pending[c])
                            \o [i \in DOMAIN order |-> [to |-> order[i], line |-> Tale]]]
      BY <1>a, <1>7 DEF Notify, ShapeInv
    <2>2. \A u \in User : [to |-> u, line |-> Tale] \in Writes'
      BY LineFacts DEF Writes, Rightful
    <2> HIDE DEF v
    <2>3. [i \in DOMAIN order |-> [to |-> order[i], line |-> Tale]] \in Seq(Writes')
      BY <1>a, <2>2, Notices DEF TypeOK
    <2>4. UNCHANGED <<inbox, outbox>>
      BY <1>7 DEF Notify
    <2>5. Tail(pending[c]) \in Seq(Writes')
      <3>1. Tail(pending[c]) \in Seq(Writes)
        BY <1>a, <1>7, QueueFacts DEF Notify, Notifies, Busy, LinesInv
      <3> QED
        BY <1>b, <3>1, SeqMonotonic
    <2> DEFINE q == [i \in DOMAIN order |-> [to |-> order[i], line |-> Tale]]
    <2> HIDE DEF q
    <2>6. Tail(pending[c]) \o q \in Seq(Writes')
      BY <2>3, <2>5, ConcatProperties DEF q
    <2> QED
      BY <1>a, <2>1, <2>4, <2>6, LinesKept DEF q
  <1>8. CASE UNCHANGED <<inbox, outbox, pending>>
    BY <1>a, <1>8, LinesKept
  <1> QED
    BY <1>1, <1>2, <1>3, <1>4, <1>5, <1>6, <1>7, <1>8 DEF Goroutine, Other, KCreate, KJoin, keyVars

(* A client takes what it reads from its own queue, and answers only about *)
(* those who were admitted.                                                *)
LEMMA ListenLines ==
    ASSUME IInv, KInv, UNCHANGED admitted, NEW c \in User, Listen(c)
    PROVE  LinesInv' /\ DOMAIN inbox' = User /\ DOMAIN outbox' = User /\ DOMAIN pending' = User
  <1>a. ShapeInv /\ LinesInv /\ ArrivalsInv /\ UNCHANGED pending
    BY DEF KInv, Listen, DrawKey, AnswerRequest, InstallKey
  <1>1. ASSUME NEW line, Read(c, line)
        PROVE  /\ line \in LinesFor(c)
               /\ \E q \in Seq(LinesFor(c)) : inbox' = [inbox EXCEPT ![c] = q]
    <2>1. inbox[c] \in Seq(LinesFor(c)) /\ inbox[c] # << >>
      BY <1>a, <1>1 DEF LinesInv, Read
    <2>2. Head(inbox[c]) \in LinesFor(c) /\ Tail(inbox[c]) \in Seq(LinesFor(c))
      BY <2>1, QueueFacts
    <2> QED
      BY <1>a, <1>1, <2>2 DEF Read, ShapeInv
  <1>2. CASE DrawKey(c) \/ InstallKey(c)
    <2>1. UNCHANGED outbox /\ \E line : Read(c, line)
      BY <1>2 DEF DrawKey, InstallKey
    <2> QED
      BY <1>a, <1>1, <2>1, LinesKept
  <1>3. CASE AnswerRequest(c)
    <2>1. PICK u \in User : Read(c, ReqFrom(u)) /\ outbox' = [outbox EXCEPT ![c] = Answer(c, u)]
      BY <1>3 DEF AnswerRequest
    <2>2. Adm(u)
      BY <1>1, <2>1, LineFacts DEF LinesFor, Rightful
    <2>3. user[u].name \in UserName
      BY <1>a, <2>2 DEF ArrivalsInv
    <2>4. outbox[c] \in Seq(Answers)
      BY <1>a DEF LinesInv
    <2>5. Answer(c, u) \in Seq(Answers)
      <3>1. CASE key[c] = NoRoom
        BY <2>4, <3>1 DEF Answer
      <3>2. CASE key[c] # NoRoom
        <4>1. key[c] \in Key
          BY <1>a, <3>2 DEF ShapeInv
        <4>2. [target |-> user[u].name, line |-> Sealed(key[c], u)] \in Answers
          BY <2>2, <2>3, <4>1, SealedFacts DEF Answers, Command
        <4> QED
          BY <2>4, <3>2, <4>2, QueueFacts DEF Answer
      <3> QED
        BY <3>1, <3>2
    <2> QED
      BY <1>a, <1>1, <2>1, <2>5, LinesKept
  <1> QED
    BY <1>2, <1>3 DEF Listen
----------------------------------------------------------------------------
(* The invariant, step by step.                                            *)

(* A client that comes to hold somebody else's key has been admitted.      *)
LEMMA KeyStep ==
    ASSUME KInv, UNCHANGED admitted, NEW c \in User, Listen(c)
    PROVE  OthersKeyNeedsAdmission' /\ key' \in [User -> Key \cup {NoRoom}]
  <1>a. ShapeInv /\ LinesInv /\ OthersKeyNeedsAdmission
    BY DEF KInv
  <1>1. ASSUME NEW line, Read(c, line) PROVE Rightful(c, line)
    <2>1. inbox[c] \in Seq(LinesFor(c)) /\ inbox[c] # << >>
      BY <1>a, <1>1 DEF LinesInv, Read
    <2>2. Head(inbox[c]) \in LinesFor(c)
      BY <2>1, QueueFacts
    <2> QED
      BY <1>1, <2>2 DEF Read, LinesFor
  <1>2. ASSUME NEW k \in Key, key' = [key EXCEPT ![c] = k], k # c => Adm(c)
        PROVE  OthersKeyNeedsAdmission' /\ key' \in [User -> Key \cup {NoRoom}]
    BY <1>a, <1>2 DEF ShapeInv, OthersKeyNeedsAdmission, Adm
  <1>3. CASE UNCHANGED key
    BY <1>a, <1>3 DEF ShapeInv, OthersKeyNeedsAdmission
  <1>4. CASE DrawKey(c)
    <2>1. ASSUME NEW r \in Room, Read(c, Created(r)), key' = [key EXCEPT ![c] = r]
          PROVE  OthersKeyNeedsAdmission' /\ key' \in [User -> Key \cup {NoRoom}]
      <3>1. Adm(c)
        BY <1>1, <2>1, LineFacts DEF Rightful
      <3> QED
        BY <1>2, <2>1, <3>1 DEF Key
    <2> QED
      BY <1>2, <1>4, <2>1 DEF DrawKey, Key
  <1>5. CASE InstallKey(c)
    <2>1. PICK k \in Key, u \in User :
             /\ Read(c, Sealed(k, u))
             /\ key' = IF Opens(c, u) THEN [key EXCEPT ![c] = k] ELSE key
      BY <1>5 DEF InstallKey
    <2>2. Rightful(c, Sealed(k, u))
      BY <1>1, <2>1
    <2>3. Opens(c, u) => Adm(c)
      BY <2>2, SealedFacts DEF Rightful, Opens
    <2> QED
      BY <1>2, <1>3, <2>1, <2>3
  <1> QED
    BY <1>3, <1>4, <1>5 DEF Listen, AnswerRequest

LEMMA KeyInductive ==
    ASSUME IInv, KInv, [KNext]_kVars PROVE KInv'
  <1>a. ShapeInv /\ LinesInv /\ ArrivalsInv /\ OthersKeyNeedsAdmission
    BY DEF KInv
  <1>b. admitted \subseteq admitted' /\ ArrivalsInv'
    BY <1>a, ArrivalsStep
  <1>c. UNCHANGED key => OthersKeyNeedsAdmission'
    BY <1>a, <1>b DEF OthersKeyNeedsAdmission
  <1>1. CASE UNCHANGED keyVars
    <2>1. LinesInv'
      BY <1>1, <1>a DEF LinesInv, LinesFor, Answers, Writes, Rightful, Adm, keyVars
    <2> QED
      BY <1>1, <1>a, <1>b, <1>c, <2>1 DEF KInv, ShapeInv, keyVars
  <1>2. ASSUME NEW c \in User, Goroutine(c) PROVE KInv'
    <2>1. LinesInv' /\ DOMAIN inbox' = User /\ DOMAIN outbox' = User /\ DOMAIN pending' = User
      BY <1>2, <1>b, GoroutineLines
    <2>2. UNCHANGED key /\ admitted' \subseteq User \X Room
      BY <1>2, <1>a DEF Goroutine, Other, keyVars, KCreateMem, KJoinMem, KHandOver, SendKey,
        ListNames, Write, Notify, KCreate, KJoin, ShapeInv
    <2>3. joins' \in 0..MaxJoins /\ listings' \in 0..MaxListings
      BY <1>2, <1>a, JoinsAssumption DEF Goroutine, Other, keyVars, KCreateMem, KJoinMem,
        KHandOver, SendKey, ListNames, Write, Notify, KCreate, KJoin, ShapeInv
    <2> QED
      BY <1>a, <1>b, <1>c, <2>1, <2>2, <2>3 DEF KInv, ShapeInv
  <1>3. ASSUME NEW c \in User, Listen(c) PROVE KInv'
    <2>1. UNCHANGED <<admitted, joins, listings>>
      BY <1>3 DEF Listen, DrawKey, AnswerRequest, InstallKey
    <2> QED
      BY <1>3, <1>a, <1>b, <2>1, ListenLines, KeyStep DEF KInv, ShapeInv
  <1> QED
    BY <1>1, <1>2, <1>3 DEF KNext, kVars

LEMMA KeyInit == ASSUME KInit PROVE KInv
  <1>1. ShapeInv
    BY JoinsAssumption DEF KInit, ShapeInv
  <1>2. LinesInv
    BY DEF KInit, LinesInv
  <1>3. ArrivalsInv
    BY DEF KInit, Init, ArrivalsInv, Adm
  <1>4. OthersKeyNeedsAdmission
    BY DEF KInit, OthersKeyNeedsAdmission
  <1> QED
    BY <1>1, <1>2, <1>3, <1>4 DEF KInv

(* The invariant of the server holds among its clients, and theirs too.    *)
THEOREM KeyInvariant == KSpec => [](IInv /\ KInv)
  <1>1. KInit => IInv /\ KInv
    BY KeyInit, InitInv DEF KInit
  <1>2. IInv /\ KInv /\ [KNext]_kVars => (IInv /\ KInv)'
    BY KeyInductive, ServerStep, NextInv
  <1> QED
    BY <1>1, <1>2, PTL DEF KSpec

(* Every variable of the clients and of the sockets keeps its shape.       *)
THEOREM KTypeCorrect == KSpec => []KTypeOK
  <1>1. IInv /\ KInv => KTypeOK
    <2> SUFFICES ASSUME IInv, KInv PROVE KTypeOK
      OBVIOUS
    <2>1. TypeOK /\ ShapeInv /\ LinesInv
      BY DEF IInv, KInv
    <2>2. ASSUME NEW c \in User
          PROVE  /\ \A i \in DOMAIN inbox[c] : inbox[c][i] \in Line
                 /\ \A i \in DOMAIN outbox[c] : outbox[c][i] \in Command
                 /\ \A i \in DOMAIN pending[c] : pending[c][i] \in [to : User, line : Line]
      <3>1. inbox[c] \in Seq(LinesFor(c)) /\ outbox[c] \in Seq(Answers)
        BY <2>1 DEF LinesInv
      <3>2. \A i \in DOMAIN inbox[c] : inbox[c][i] \in LinesFor(c)
        BY <3>1
      <3>3. \A i \in DOMAIN outbox[c] : outbox[c][i] \in Answers
        BY <3>1
      <3>4. \A i \in DOMAIN pending[c] : pending[c][i] \in Writes
        BY <2>1 DEF LinesInv
      <3> QED
        BY <3>2, <3>3, <3>4 DEF LinesFor, Answers, Writes
    <2> QED
      BY <2>1, <2>2 DEF KTypeOK, ShapeInv
  <1> QED
    BY <1>1, KeyInvariant, PTL

(* Nobody who was never admitted to any room holds a key another client    *)
(* drew: neither the relay of answers by name (commands.go:249) nor the    *)
(* keys drawn by mistake (client.go:171) hand one out.                     *)
THEOREM OthersKeysStayIn == KSpec => []OthersKeyNeedsAdmission
  <1>1. KInv => OthersKeyNeedsAdmission
    BY DEF KInv
  <1> QED
    BY <1>1, KeyInvariant, PTL
=============================================================================
