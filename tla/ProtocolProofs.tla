--------------------------- MODULE ProtocolProofs ---------------------------
(***************************************************************************)
(* Theorems about Protocol, for lines of every length over every alphabet: *)
(* commands and texts stay apart, rooms are made as they were typed, and   *)
(* texts and keys arrive exactly when the names let them through.          *)
(*                                                                         *)
(* The invariant LineInv says which lines can be where: a typed line has   *)
(* one of two forms on each stretch of its way, and the line that asks for *)
(* a key exactly one. What the last reader does with each form is then a   *)
(* matter of the parsers alone, and of the lemmas of StringProofs.         *)
(***************************************************************************)
EXTENDS StringProofs

----------------------------------------------------------------------------
(* The invariant.                                                          *)

Typed == TrimSpace(typed)
IsTyped == Typed # << >>

(* What the client that sends makes of the text.                           *)
Sent == IF keyed /\ ~IsCommand(Typed) THEN EncryptForChat ELSE {Typed}

(* The answer to a key request, on its way to the server.                  *)
Answer(l) == typed = << >> /\ l = SendKey(to) /\ keyed /\ ~Contains(to, Colon)

Shown(l) == \E m \in Sent : l = ChatLine(from, m) /\ ~IsCommand(m)
Relayed(l) == \E d \in Strings : l = From(from, d) /\ EndsSolid(d)
KeyRelayed(l) ==
    l = From(from, One(SealedKey)) /\ keyed /\ ~Contains(to, Colon) /\ ~Contains(to, Space)

LineTypes ==
    /\ typed \in Strings /\ from \in Strings /\ to \in Strings
    /\ keyed \in BOOLEAN /\ roomed \in BOOLEAN
    /\ at \in {"terminal", "client", "server", "command", "socket", "end"}

LineInv ==
    /\ LineTypes
    /\ at # "end" => result.did = "nothing"
    /\ at = "terminal" => line = typed
    /\ at = "client" => IsTyped /\ line = Typed
    /\ at = "server" => (IsTyped /\ line \in Sent) \/ Answer(line)
    /\ at = "command" => IsCommand(line) /\ ((IsTyped /\ line \in Sent) \/ Answer(line))
    /\ at = "socket" =>
          \/ IsTyped /\ ~IsCommand(Typed) /\ Shown(line)
          \/ IsTyped /\ IsCommand(Typed) /\ Relayed(line)
          \/ typed = << >> /\ (line = ReqFrom(to) \/ line = UserJoined(to) \/ KeyRelayed(line))

----------------------------------------------------------------------------
(* The lines and what they are made of.                                    *)

LEMMA LiteralPieces ==
    /\ Space \in Piece /\ Colon \in Piece /\ Slash \in Piece
    /\ Opening \in Piece /\ Closing \in Piece
    /\ CHAT_MSG \in Piece /\ KEY_DELIVERY \in Piece /\ USER_JOINED \in Piece
    /\ REQ_FROM \in Piece /\ FROM \in Piece
    /\ CreateWord \in Piece /\ JoinWord \in Piece /\ QuitWord \in Piece /\ SendKeyWord \in Piece
    /\ NameFlag \in Piece /\ PassFlag \in Piece /\ PublicFlag \in Piece /\ PrivateFlag \in Piece
    /\ PublicKey \in Piece /\ SealedKey \in Piece /\ HasJoined \in Piece /\ Base64 \in Piece
  BY DEF Piece, Literal, Space, Colon, Slash, Opening, Closing, CHAT_MSG, KEY_DELIVERY,
         USER_JOINED, REQ_FROM, FROM, CreateWord, JoinWord, QuitWord, SendKeyWord, NameFlag, PassFlag,
         PublicFlag, PrivateFlag, PublicKey, SealedKey, HasJoined, Base64

LEMMA SpacePiece == Space \in Piece
  BY LiteralPieces

(* None of them is the space between words.                                *)
LEMMA SpaceSolid ==
    /\ Colon # Space /\ Slash # Space /\ Opening # Space /\ Closing # Space
    /\ CHAT_MSG # Space /\ KEY_DELIVERY # Space /\ USER_JOINED # Space
    /\ CreateWord # Space /\ QuitWord # Space /\ SendKeyWord # Space
    /\ NameFlag # Space /\ PassFlag # Space /\ PublicFlag # Space /\ PrivateFlag # Space
    /\ PublicKey # Space /\ SealedKey # Space /\ HasJoined # Space /\ Base64 # Space
  BY DEF Space, Colon, Slash, Opening, Closing, CHAT_MSG, KEY_DELIVERY,
         USER_JOINED, CreateWord, QuitWord, SendKeyWord, NameFlag, PassFlag,
         PublicFlag, PrivateFlag, PublicKey, SealedKey, HasJoined, Base64

LEMMA ChatLineIs ==
    \A n, m : n \in Strings /\ m \in Strings =>
        \E r : /\ r \in Strings
               /\ ChatLine(n, m) = Line(CHAT_MSG, Colon, r)
               /\ EndsSolid(m) => EndsSolid(r)
               /\ \A h : h \in {CREATED, PROMOTED} =>
                     (Contains(ChatLine(n, m), h) <=> Contains(n, h) \/ Contains(m, h))
  <1>1. \A n, m : ChatLine(n, m)
                  = Join(Join(Join(Three(CHAT_MSG, Colon, Opening), n), Three(Closing, Colon, Space)), m)
    BY Zenon DEF ChatLine, Join, Three,
                 CHAT_MSG, Colon, Opening, Closing, Space
  <1>2. \A h : h \in {CREATED, PROMOTED} => h \notin {CHAT_MSG, Colon, Opening, Closing, Colon, Space}
    BY DEF CREATED, PROMOTED, CHAT_MSG, Colon, Opening, Closing, Space
  <1> QED
    BY <1>1, <1>2, LabelledShape, LiteralPieces

LEMMA ReqFromIs ==
    \A n : n \in Strings =>
        LET r == Join(One(REQ_FROM), Join(One(Colon), Join(n, Join(One(Colon), One(PublicKey)))))
        IN  ReqFrom(n) = Line(KEY_DELIVERY, Colon, r) /\ r \in Strings /\ EndsSolid(r)
  <1>1. \A n : ReqFrom(n) = Join(Join(Four(KEY_DELIVERY, Colon, REQ_FROM, Colon), n),
                                 Two(Colon, PublicKey))
    BY Zenon DEF ReqFrom, Join, Two, Four,
                 KEY_DELIVERY, Colon, REQ_FROM, PublicKey
  <1>2. One(PublicKey) \in Strings /\ EndsSolid(One(PublicKey))
    BY LiteralPieces, SpaceSolid, JoinTypes, JoinEnds
  <1> QED
    BY <1>1, <1>2, RequestShape, DeliveryShape, LiteralPieces

LEMMA FromIs ==
    \A n, d : n \in Strings /\ d \in Strings =>
        LET r == Join(One(FROM), Join(One(Colon), Join(n, Join(One(Colon), d))))
        IN  /\ From(n, d) = Line(KEY_DELIVERY, Colon, r) /\ r \in Strings
            /\ EndsSolid(d) => EndsSolid(r)
  <1>1. \A n, d : From(n, d) = Join(Join(Join(Four(KEY_DELIVERY, Colon, FROM, Colon), n),
                                         One(Colon)), d)
    BY Zenon DEF From, Join, One, Four,
                 KEY_DELIVERY, Colon, FROM
  <1> QED
    BY <1>1, DeliveryShape, LiteralPieces

LEMMA SendKeyIs ==
    \A n : n \in Strings =>
        /\ SendKey(n) = Spaced(Two(Slash, SendKeyWord), Spaced(n, One(SealedKey)))
        /\ \E r : /\ r \in Strings /\ EndsSolid(r)
                  /\ SendKey(n) = Line(Slash, SendKeyWord, r)
  <1>1. \A n : SendKey(n) = Join(Join(Three(Slash, SendKeyWord, Space), n), Two(Space, SealedKey))
    BY Zenon DEF SendKey, Join, Two, Three,
                 Slash, SendKeyWord, Space, SealedKey
  <1>2. One(SealedKey) \in Strings /\ EndsSolid(One(SealedKey))
    BY LiteralPieces, SpaceSolid, JoinTypes, JoinEnds
  <1>3. \A n : n \in Strings =>
            /\ Spaced(n, One(SealedKey)) \in Strings
            /\ EndsSolid(Spaced(n, One(SealedKey)))
    BY <1>2, SpacedIsString, SpacePiece
  <1> QED
    BY <1>1, <1>3, AnswerShape, SpacedLine, LiteralPieces, SpacePiece

LEMMA UserJoinedIs ==
    \A n : n \in Strings =>
        LET t == Two(Space, HasJoined)
            r == Join(n, t)
        IN  /\ UserJoined(n) = Line(USER_JOINED, Colon, r)
            /\ t \in Strings /\ r \in Strings /\ EndsSolid(r)
            /\ \A h : Contains(t, h) <=> h \in {Space, HasJoined}
  <1>1. \A n : UserJoined(n) = Join(Join(Two(USER_JOINED, Colon), n),
                                    Two(Space, HasJoined))
    BY Zenon DEF UserJoined, Join, Two,
                 USER_JOINED, Colon, Space, HasJoined
  <1> QED
    BY <1>1, AnnouncedShape, LiteralPieces, SpaceSolid

LEMMA CreatePublicIs ==
    \A n : n \in Strings =>
        /\ CreatePublic(n) = Spaced(Two(Slash, CreateWord), Spaced(One(NameFlag), Spaced(n, One(PublicFlag))))
        /\ \E r : r \in Strings /\ EndsSolid(r) /\ CreatePublic(n) = Line(Slash, CreateWord, r)
  <1>1. \A n : CreatePublic(n) = Join(Join(Two(Slash, CreateWord), Join(Three(Space, NameFlag, Space), n)),
                                      Two(Space, PublicFlag))
    BY Zenon DEF CreatePublic, Command, Option, Join, Two, Three,
                 Slash, CreateWord, Space, NameFlag, PublicFlag
  <1>2. Two(Space, PublicFlag) = Join(One(Space), One(PublicFlag))
    BY PiecesJoin, LiteralPieces, SpacePiece
  <1>3. /\ Two(Slash, CreateWord) \in Strings /\ One(NameFlag) \in Strings
        /\ One(PublicFlag) \in Strings /\ EndsSolid(One(PublicFlag))
    BY LiteralPieces, SpaceSolid, JoinTypes, JoinEnds, SeveralTypes
  <1>4. \A n : n \in Strings =>
            /\ Spaced(One(NameFlag), Spaced(n, One(PublicFlag))) \in Strings
            /\ EndsSolid(Spaced(One(NameFlag), Spaced(n, One(PublicFlag))))
    BY <1>3, SpacedIsString, SpacePiece
  <1> QED
    BY <1>1, <1>2, <1>3, <1>4, OptionShape, SpacedLine, LiteralPieces, SpacePiece

LEMMA CreatePrivateIs ==
    \A n, p : n \in Strings /\ p \in Strings =>
        /\ CreatePrivate(n, p)
           = Spaced(Two(Slash, CreateWord),
                    Spaced(One(NameFlag), Spaced(n, Spaced(One(PassFlag), Spaced(p, One(PrivateFlag))))))
        /\ \E r : r \in Strings /\ EndsSolid(r) /\ CreatePrivate(n, p) = Line(Slash, CreateWord, r)
  <1> SUFFICES ASSUME NEW n \in Strings, NEW p \in Strings
               PROVE  /\ CreatePrivate(n, p)
                         = Spaced(Two(Slash, CreateWord),
                               Spaced(One(NameFlag), Spaced(n, Spaced(One(PassFlag), Spaced(p, One(PrivateFlag))))))
                      /\ \E r : /\ r \in Strings /\ EndsSolid(r)
                                /\ CreatePrivate(n, p) = Line(Slash, CreateWord, r)
    OBVIOUS
  <1>1. CreatePrivate(n, p)
        = Join(Join(Join(Two(Slash, CreateWord), Join(Three(Space, NameFlag, Space), n)),
                    Join(Three(Space, PassFlag, Space), p)), Two(Space, PrivateFlag))
    BY Zenon DEF CreatePrivate, Command, Option, Join, Two, Three,
                 Slash, CreateWord, Space, NameFlag, PassFlag, PrivateFlag
  <1>2. PICK w, d, t, o : /\ w = Two(Slash, CreateWord) /\ d = One(PrivateFlag)
                          /\ t = Join(One(Space), d) /\ o = Join(Three(Space, NameFlag, Space), n)
    OBVIOUS
  <1>3. Two(Space, PrivateFlag) = t
    BY <1>2, PiecesJoin, LiteralPieces, SpacePiece
  <1>4. /\ w \in Strings /\ One(NameFlag) \in Strings /\ One(PassFlag) \in Strings
        /\ d \in Strings /\ EndsSolid(d) /\ o \in Strings
    BY <1>2, LiteralPieces, SpacePiece, SpaceSolid, JoinTypes, JoinEnds, SeveralTypes
  <1>5. PICK u : u = Spaced(One(PassFlag), Spaced(p, d))
    OBVIOUS
  <1>6. u \in Strings /\ EndsSolid(u)
    BY <1>4, <1>5, SpacedIsString, SpacePiece
  <1>7. PICK z : z = Join(w, o)
    OBVIOUS
  <1>8. z \in Strings
    BY <1>4, <1>7, JoinTypes
  <1>9. Join(Join(z, Join(Three(Space, PassFlag, Space), p)), t) = Spaced(z, u)
    BY <1>2, <1>4, <1>5, <1>8, OptionShape, LiteralPieces, SpacePiece
  <1>10. Spaced(z, u) = Join(z, Join(One(Space), u))
    BY LineIs
  <1>11. Join(z, Join(One(Space), u)) = Spaced(w, Spaced(One(NameFlag), Spaced(n, u)))
    BY <1>2, <1>4, <1>6, <1>7, OptionShape, LiteralPieces, SpacePiece
  <1>12. PICK v : v = Spaced(One(NameFlag), Spaced(n, u))
    OBVIOUS
  <1>13. v \in Strings /\ EndsSolid(v)
    BY <1>4, <1>6, <1>12, SpacedIsString, SpacePiece
  <1>14. CreatePrivate(n, p) = Spaced(w, v)
    BY <1>1, <1>2, <1>3, <1>7, <1>9, <1>10, <1>11, <1>12, Zenon
  <1>15. \E r : r \in Strings /\ EndsSolid(r) /\ Spaced(w, v) = Line(Slash, CreateWord, r)
    BY <1>2, <1>13, SpacedLine, LiteralPieces, SpacePiece
  <1> QED
    BY <1>2, <1>5, <1>12, <1>14, <1>15, Zenon

----------------------------------------------------------------------------
(* The parsers, by the names of the pieces they look for.                  *)

LEMMA ParserForms ==
    /\ \A s : IsCommand(s) <=> HasPrefix(s, One(Slash))
    /\ \A s : KeyParts(s) = CutTwice(s, One(Colon))
    /\ \A w : Command(w) = Two(Slash, w)
    /\ Label = Two(Colon, Space)
    /\ EncryptForChat = {One(Base64), Two(Slash, Base64)}
  BY Zenon DEF IsCommand, KeyParts, Command, Label, EncryptForChat, One, Two,
               Slash, Colon, Space, Base64

LEMMA EventOf ==
    /\ \A s : HasPrefix(s, Two(KEY_DELIVERY, Colon)) => ParseRawLine(s) = "KEY_DELIVERY"
    /\ \A s : HasPrefix(s, Two(USER_JOINED, Colon)) /\ ~HasPrefix(s, Two(KEY_DELIVERY, Colon))
          => ParseRawLine(s) = "USER_JOINED"
    /\ \A s : ~HasPrefix(s, Two(USER_JOINED, Colon)) /\ ~HasPrefix(s, Two(KEY_DELIVERY, Colon))
          => IF Contains(s, CREATED) THEN ParseRawLine(s) = "SYSTEM_INFO"
             ELSE IF Contains(s, PROMOTED) THEN ParseRawLine(s) = "HOST_PROMOTED"
             ELSE ParseRawLine(s) = "CHAT_MSG"
  BY Zenon DEF ParseRawLine, Two, KEY_DELIVERY, USER_JOINED, Colon, CREATED, PROMOTED

(* What the reader does, by the event it takes the line for.               *)
LEMMA ReadBy ==
    ASSUME Read, TrimSpace(line) = line
    PROVE  /\ ParseRawLine(line) = "KEY_DELIVERY" => HandleKeyDelivery(line)
           /\ ParseRawLine(line) = "USER_JOINED" => HandleUserJoined(line)
           /\ ParseRawLine(line) = "SYSTEM_INFO" => Ends("drew a key", << >>)
           /\ ParseRawLine(line) = "HOST_PROMOTED" => Ends("became host", << >>)
           /\ ParseRawLine(line) = "CHAT_MSG" => ProcessIncomingChat(line)
  <1>1. CASE ParseRawLine(line) = "KEY_DELIVERY"
    BY <1>1 DEF Read
  <1>2. CASE ParseRawLine(line) = "USER_JOINED"
    BY <1>2 DEF Read
  <1>3. CASE ParseRawLine(line) = "SYSTEM_INFO"
    BY <1>3 DEF Read, Ends
  <1>4. CASE ParseRawLine(line) = "HOST_PROMOTED"
    BY <1>4 DEF Read, Ends
  <1>5. CASE ParseRawLine(line) = "CHAT_MSG"
    BY <1>5 DEF Read
  <1> QED
    BY <1>1, <1>2, <1>3, <1>4, <1>5

LEMMA EndsIs ==
    ASSUME NEW d, NEW w, Ends(d, w)
    PROVE  at' = "end" /\ result'.did = d /\ UNCHANGED <<inputs, line>>
  BY DEF Ends

LEMMA RequestForm ==
    ASSUME NEW t, NEW k, ProcessKeyRequest(t, k)
    PROVE  /\ keyed /\ k = One(PublicKey) => Goes(SendKey(t), "server")
           /\ ~(keyed /\ k = One(PublicKey)) => Ends("ignored", << >>)
  BY Zenon DEF ProcessKeyRequest, One, PublicKey

LEMMA DeliveryForm ==
    ASSUME NEW m, NEW x, NEW y, NEW z, HandleKeyDelivery(m),
           CutTwice(SubSeq(m, 3, Len(m)), One(Colon)) = Three(x, y, z)
    PROVE  /\ x = One(REQ_FROM) => ProcessKeyRequest(y, TrimSpace(z))
           /\ x # One(REQ_FROM) /\ TrimSpace(z) = One(SealedKey) => Ends("installed", << >>)
           /\ x # One(REQ_FROM) /\ TrimSpace(z) # One(SealedKey) => Ends("ignored", << >>)
  <1>1. PICK p, q, k, e : /\ p = Three(x, y, z) /\ q = One(REQ_FROM) /\ k = One(SealedKey)
                          /\ e = TrimSpace(z)
    OBVIOUS
  <1>2. Len(p) = 3 /\ p[1] = x /\ p[2] = y /\ p[3] = z /\ ~(Len(p) < 3)
    BY <1>1, TupleFacts
  <1>3. (CASE Len(p) < 3               -> Ends("ignored", << >>)
           [] Len(p) = 3 /\ p[1] = q -> ProcessKeyRequest(p[2], TrimSpace(p[3]))
           [] OTHER -> Ends(IF TrimSpace(p[3]) = k THEN "installed" ELSE "ignored", << >>))
    BY <1>1, ParserForms, Zenon DEF HandleKeyDelivery, One, REQ_FROM, SealedKey
  <1>4. ASSUME x = q PROVE ProcessKeyRequest(y, TrimSpace(z))
    BY <1>2, <1>3, <1>4
  <1>5. ASSUME x # q PROVE Ends(IF TrimSpace(z) = k THEN "installed" ELSE "ignored", << >>)
    BY <1>2, <1>3, <1>5
  <1> QED
    BY <1>1, <1>4, <1>5, Zenon

LEMMA JoinedForm ==
    ASSUME NEW m, HandleUserJoined(m)
    PROVE  /\ \A x, y : CutTwice(m, One(Colon)) = Two(x, y) => Ends("ignored", << >>)
           /\ \A x, y, z : CutTwice(m, One(Colon)) = Three(x, y, z)
                 => ProcessKeyRequest(y, TrimSpace(z))
  <1>1. PICK p : p = CutTwice(m, One(Colon))
    OBVIOUS
  <1>2. IF Len(p) = 3 THEN ProcessKeyRequest(p[2], TrimSpace(p[3])) ELSE Ends("ignored", << >>)
    BY <1>1, Zenon DEF HandleUserJoined, One, Colon
  <1>3. ASSUME NEW x, NEW y, p = Two(x, y) PROVE Ends("ignored", << >>)
    <2>1. Len(p) = 2
      BY <1>3, TupleFacts
    <2> QED
      BY <1>2, <2>1
  <1>4. ASSUME NEW x, NEW y, NEW z, p = Three(x, y, z) PROVE ProcessKeyRequest(y, TrimSpace(z))
    <2>1. Len(p) = 3 /\ p[2] = y /\ p[3] = z
      BY <1>4, TupleFacts
    <2> QED
      BY <1>2, <2>1
  <1> QED
    BY <1>1, <1>3, <1>4, Zenon

(* A line that says somebody joined asks nobody for a key.                 *)
LEMMA ReadJoined ==
    ASSUME to \in Strings, line = UserJoined(to), Read
    PROVE  at' = "end" /\ result'.did = "ignored" /\ UNCHANGED <<inputs, line>>
  <1>1. PICK t, r : /\ t = Two(Space, HasJoined) /\ r = Join(to, t)
                    /\ line = Line(USER_JOINED, Colon, r)
                    /\ t \in Strings /\ r \in Strings /\ EndsSolid(r)
                    /\ \A h : Contains(t, h) <=> h \in {Space, HasJoined}
    BY UserJoinedIs
  <1>2. TrimSpace(line) = line
    BY <1>1, LineReads, LiteralPieces, SpaceSolid
  <1>3. HasPrefix(line, Two(USER_JOINED, Colon)) /\ ~HasPrefix(line, Two(KEY_DELIVERY, Colon))
    <2>1. USER_JOINED # KEY_DELIVERY
      BY DEF USER_JOINED, KEY_DELIVERY
    <2> QED
      BY <1>1, <2>1, LineReads, LiteralPieces
  <1>4. HandleUserJoined(line)
    BY <1>2, <1>3, EventOf, ReadBy
  <1>5. One(USER_JOINED) \in Strings /\ ~Contains(One(USER_JOINED), Colon) /\ ~Contains(t, Colon)
    <2>1. USER_JOINED # Colon /\ HasJoined # Colon /\ Space # Colon
      BY DEF USER_JOINED, Colon, HasJoined, Space
    <2> QED
      BY <1>1, <2>1, JoinTypes, JoinContains, LiteralPieces
  <1>6. line = Join(One(USER_JOINED), Join(One(Colon), Join(to, t)))
    BY <1>1, LineIs
  <1>7. \/ CutTwice(line, One(Colon)) = Two(One(USER_JOINED), Join(to, t))
        \/ \E x, y : /\ x \in Strings /\ y \in Strings
                     /\ CutTwice(line, One(Colon)) = Three(One(USER_JOINED), x, y)
                     /\ \A h : Contains(t, h) => Contains(y, h)
    BY <1>1, <1>5, <1>6, CutAnnounced, LiteralPieces
  <1>8. CASE CutTwice(line, One(Colon)) = Two(One(USER_JOINED), Join(to, t))
    <2>1. Ends("ignored", << >>)
      BY <1>4, <1>8, JoinedForm
    <2> QED
      BY <2>1, EndsIs
  <1>9. ASSUME NEW x, NEW y, x \in Strings, y \in Strings,
               CutTwice(line, One(Colon)) = Three(One(USER_JOINED), x, y),
               \A h : Contains(t, h) => Contains(y, h)
        PROVE  at' = "end" /\ result'.did = "ignored" /\ UNCHANGED <<inputs, line>>
    <2>1. ProcessKeyRequest(x, TrimSpace(y))
      BY <1>4, <1>9, JoinedForm
    <2>2. TrimSpace(y) # One(PublicKey)
      <3>1. Contains(TrimSpace(y), HasJoined)
        BY <1>1, <1>9, TrimSpaceContains, SpaceSolid
      <3>2. HasJoined # PublicKey
        BY DEF HasJoined, PublicKey
      <3> QED
        BY <3>1, <3>2, JoinContains, LiteralPieces
    <2>3. Ends("ignored", << >>)
      BY <2>1, <2>2, RequestForm
    <2> QED
      BY <2>3, EndsIs
  <1> QED
    BY <1>7, <1>8, <1>9, Zenon

(* A delivery on the socket, cut at its colons.                            *)
LEMMA DeliveryCut ==
    \A q, n, d, r : /\ q \in {REQ_FROM, FROM} /\ n \in Strings /\ d \in Strings /\ EndsSolid(d)
                    /\ r = Join(One(q), Join(One(Colon), Join(n, Join(One(Colon), d))))
                    /\ line = Line(KEY_DELIVERY, Colon, r) /\ Read
        => \E x, y : /\ y \in Strings
                     /\ ~Contains(n, Colon) => x = n /\ y = d
                     /\ Contains(n, Colon) => Contains(y, Colon)
                     /\ HandleKeyDelivery(line)
                     /\ CutTwice(SubSeq(line, 3, Len(line)), One(Colon)) = Three(One(q), x, y)
  <1> SUFFICES ASSUME NEW q \in {REQ_FROM, FROM}, NEW n \in Strings, NEW d \in Strings, EndsSolid(d),
                      NEW r, r = Join(One(q), Join(One(Colon), Join(n, Join(One(Colon), d)))),
                      line = Line(KEY_DELIVERY, Colon, r), Read
               PROVE  \E x, y :
                     /\ y \in Strings
                     /\ ~Contains(n, Colon) => x = n /\ y = d
                     /\ Contains(n, Colon) => Contains(y, Colon)
                     /\ HandleKeyDelivery(line)
                     /\ CutTwice(SubSeq(line, 3, Len(line)), One(Colon)) = Three(One(q), x, y)
    OBVIOUS
  <1>1. q \in Piece /\ q # Colon /\ Colon \in Piece
    <2>1. REQ_FROM # Colon /\ FROM # Colon
      BY DEF REQ_FROM, FROM, Colon
    <2> QED
      BY <2>1, LiteralPieces
  <1>2. r \in Strings /\ EndsSolid(r)
    BY <1>1, JoinTypes, JoinEnds
  <1>3. /\ TrimSpace(line) = line /\ SubSeq(line, 3, Len(line)) = r
        /\ HasPrefix(line, Two(KEY_DELIVERY, Colon))
    BY <1>2, LineReads, LiteralPieces, SpaceSolid
  <1>4. HandleKeyDelivery(line)
    BY <1>3, EventOf, ReadBy
  <1>5. One(q) \in Strings /\ ~Contains(One(q), Colon)
    BY <1>1, JoinTypes, JoinContains
  <1>6. PICK x, y : /\ y \in Strings
                    /\ CutTwice(r, One(Colon)) = Three(One(q), x, y)
                    /\ ~Contains(n, Colon) => x = n /\ y = d
                    /\ Contains(n, Colon) => Contains(y, Colon)
    BY <1>1, <1>5, CutDelivery
  <1> QED
    BY <1>3, <1>4, <1>6

(* Who is asked for a key answers if it has one, and if it finds the name. *)
LEMMA ReadRequest ==
    ASSUME to \in Strings, line = ReqFrom(to), Read
    PROVE  IF keyed /\ ~Contains(to, Colon) THEN Goes(SendKey(to), "server")
                                            ELSE Ends("ignored", << >>)
  <1>1. PICK r : /\ r = Join(One(REQ_FROM), Join(One(Colon), Join(to, Join(One(Colon), One(PublicKey)))))
                 /\ line = Line(KEY_DELIVERY, Colon, r)
    BY ReqFromIs
  <1>2. One(PublicKey) \in Strings /\ EndsSolid(One(PublicKey)) /\ TrimSpace(One(PublicKey)) = One(PublicKey)
    BY LiteralPieces, SpaceSolid, JoinTypes, JoinEnds, TupleFacts, Beginnings
  <1>3. PICK x, y : /\ y \in Strings
                    /\ ~Contains(to, Colon) => x = to /\ y = One(PublicKey)
                    /\ Contains(to, Colon) => Contains(y, Colon)
                    /\ HandleKeyDelivery(line)
                    /\ CutTwice(SubSeq(line, 3, Len(line)), One(Colon)) = Three(One(REQ_FROM), x, y)
    BY <1>1, <1>2, DeliveryCut
  <1>4. ProcessKeyRequest(x, TrimSpace(y))
    BY <1>3, DeliveryForm
  <1>5. CASE ~Contains(to, Colon)
    BY <1>2, <1>3, <1>4, <1>5, RequestForm
  <1>6. CASE Contains(to, Colon)
    <2>1. Contains(TrimSpace(y), Colon)
      BY <1>3, <1>6, TrimSpaceContains, SpaceSolid
    <2>2. TrimSpace(y) # One(PublicKey)
      <3>1. Colon # PublicKey
        BY DEF Colon, PublicKey
      <3> QED
        BY <2>1, <3>1, JoinContains, LiteralPieces
    <2> QED
      BY <1>4, <1>6, <2>2, RequestForm
  <1> QED
    BY <1>5, <1>6

(* A key that is delivered is installed if it is found behind the name.    *)
LEMMA ReadDelivery ==
    \A d : /\ from \in Strings /\ d \in Strings /\ EndsSolid(d) /\ line = From(from, d) /\ Read
        => /\ Ends("installed", << >>) \/ Ends("ignored", << >>)
           /\ d = One(SealedKey) => IF Contains(from, Colon) THEN Ends("ignored", << >>)
                                                             ELSE Ends("installed", << >>)
  <1> SUFFICES ASSUME from \in Strings, NEW d \in Strings, EndsSolid(d), line = From(from, d), Read
               PROVE  /\ Ends("installed", << >>) \/ Ends("ignored", << >>)
                      /\ d = One(SealedKey) => IF Contains(from, Colon) THEN Ends("ignored", << >>)
                                                                        ELSE Ends("installed", << >>)
    OBVIOUS
  <1>1. PICK r : /\ r = Join(One(FROM), Join(One(Colon), Join(from, Join(One(Colon), d))))
                 /\ line = Line(KEY_DELIVERY, Colon, r)
    BY FromIs
  <1>2. PICK x, y : /\ y \in Strings
                    /\ ~Contains(from, Colon) => x = from /\ y = d
                    /\ Contains(from, Colon) => Contains(y, Colon)
                    /\ HandleKeyDelivery(line)
                    /\ CutTwice(SubSeq(line, 3, Len(line)), One(Colon)) = Three(One(FROM), x, y)
    BY <1>1, DeliveryCut
  <1>3. One(FROM) # One(REQ_FROM)
    <2>1. FROM # REQ_FROM
      BY DEF FROM, REQ_FROM
    <2> QED
      BY <2>1, TupleFacts
  <1>4. IF TrimSpace(y) = One(SealedKey) THEN Ends("installed", << >>) ELSE Ends("ignored", << >>)
    BY <1>2, <1>3, DeliveryForm
  <1>5. ASSUME d = One(SealedKey)
        PROVE  TrimSpace(y) = One(SealedKey) <=> ~Contains(from, Colon)
    <2>1. CASE ~Contains(from, Colon)
      <3>1. TrimSpace(One(SealedKey)) = One(SealedKey)
        BY LiteralPieces, SpaceSolid, JoinTypes, JoinEnds, TupleFacts, Beginnings
      <3> QED
        BY <1>2, <1>5, <2>1, <3>1
    <2>2. CASE Contains(from, Colon)
      <3>1. Contains(TrimSpace(y), Colon)
        BY <1>2, <2>2, TrimSpaceContains, SpaceSolid
      <3>2. Colon # SealedKey
        BY DEF Colon, SealedKey
      <3> QED
        BY <2>2, <3>1, <3>2, JoinContains, LiteralPieces
    <2> QED
      BY <2>1, <2>2
  <1> QED
    BY <1>4, <1>5

(* A text on the socket, cut at the label.                                 *)
Author(n) == <<"CHAT_MSG", ":", "[">> \o n \o <<"]">>

LEMMA ChatLineCut ==
    \A n, m : n \in Strings /\ m \in Strings =>
        \E x, y : /\ Cut(ChatLine(n, m), Label) = Two(x, y)
                  /\ Len(Cut(n, Label)) = 1 => x = Author(n) /\ y = m
                  /\ Len(Cut(n, Label)) # 1 => x # Author(n)
  <1>1. \A n, m : ChatLine(n, m)
                  = Join(Join(Join(Three(CHAT_MSG, Colon, Opening), n), Three(Closing, Colon, Space)), m)
    BY Zenon DEF ChatLine, Join, Three, CHAT_MSG, Colon, Opening, Closing, Space
  <1>2. \A n : Author(n) = Join(Join(Three(CHAT_MSG, Colon, Opening), n), One(Closing))
    BY Zenon DEF Author, Join, One, Three, CHAT_MSG, Colon, Opening, Closing
  <1>3. PICK p : p = Three(CHAT_MSG, Colon, Opening)
    OBVIOUS
  <1>4. p \in Strings /\ p # << >> /\ Len(p) = 3 /\ p[3] = Opening
    BY <1>3, SeveralTypes, TupleFacts, LiteralPieces, NotEmpty
  <1>5. /\ CHAT_MSG # Colon /\ Opening # Colon /\ Opening # Space /\ Closing # Space
        /\ Colon # Space
    BY DEF CHAT_MSG, Colon, Opening, Closing, Space
  <1>6. p[Len(p)] # Colon /\ ~HasPair(p, Colon, Space)
    <2>1. ~Contains(p, Space)
      <3>1. CHAT_MSG # Space
        BY DEF CHAT_MSG, Space
      <3> QED
        BY <1>3, <1>5, <3>1, TupleContains, LiteralPieces
    <2>2. ~HasPair(p, Colon, Space)
      BY <1>4, <2>1, PairNeedsBoth
    <2> QED
      BY <1>4, <1>5, <2>2
  <1>7. ASSUME NEW n \in Strings, NEW m \in Strings
        PROVE \E x, y :
               /\ Cut(Join(Join(Join(p, n), Three(Closing, Colon, Space)), m), Two(Colon, Space)) = Two(x, y)
               /\ ~HasPair(n, Colon, Space) => x = Join(Join(p, n), One(Closing)) /\ y = m
               /\ HasPair(n, Colon, Space) => x # Join(Join(p, n), One(Closing))
    <2>1. p \in Strings /\ p # << >> /\ Closing \in Piece /\ Colon \in Piece /\ Space \in Piece
      BY <1>4, LiteralPieces
    <2>2. Colon # Space /\ Closing # Space /\ p[Len(p)] # Colon /\ ~HasPair(p, Colon, Space)
      BY <1>5, <1>6
    <2> QED
      BY <2>1, <2>2, CutAtLabel
  <1>8. \A n : n \in Strings => (Len(Cut(n, Label)) = 1 <=> ~HasPair(n, Colon, Space))
    BY <1>5, PairAlone, LiteralPieces, ParserForms
  <1>9. Label = Two(Colon, Space)
    BY ParserForms
  <1> QED
    BY <1>1, <1>2, <1>3, <1>7, <1>8, <1>9

LEMMA IncomingForm ==
    ASSUME NEW m, NEW x, NEW y, ProcessIncomingChat(m), Cut(m, Label) = Two(x, y)
    PROVE  IF keyed /\ TrimSpace(y) \in EncryptForChat THEN Ends("decrypted", Two(x, TrimSpace(typed)))
                                                       ELSE Ends("printed", One(m))
  <1>1. PICK p : p = Two(x, y)
    OBVIOUS
  <1>2. Len(p) = 2 /\ p[1] = x /\ p[2] = y
    BY <1>1, TupleFacts
  <1>3. IF keyed /\ Len(p) = 2 /\ TrimSpace(p[2]) \in EncryptForChat
        THEN Ends("decrypted", Two(p[1], TrimSpace(typed)))
        ELSE Ends("printed", One(m))
    BY <1>1, Zenon DEF ProcessIncomingChat, One, Two
  <1> QED
    BY <1>2, <1>3

(* A text that is cast is read as one, or it is taken for something else   *)
(* that does no harm; what is encrypted is opened under the right name if  *)
(* the name lets it.                                                       *)
LEMMA ReadChat ==
    \A m : /\ from \in Strings /\ m \in Strings /\ EndsSolid(m) /\ line = ChatLine(from, m) /\ Read
        => /\ \E d, w : Ends(d, w) /\ d \in {"drew a key", "became host", "decrypted", "printed"}
           /\ keyed /\ m \in EncryptForChat =>
                 IF Contains(from, CREATED) \/ Contains(from, PROMOTED)
                 THEN Ends("drew a key", << >>) \/ Ends("became host", << >>)
                 ELSE \/ Len(Cut(from, Label)) = 1 /\ Ends("decrypted", Two(Author(from), TrimSpace(typed)))
                      \/ /\ Len(Cut(from, Label)) # 1
                         /\ \/ Ends("printed", One(line))
                            \/ \E x : x # Author(from) /\ Ends("decrypted", Two(x, TrimSpace(typed)))
  <1> SUFFICES ASSUME from \in Strings, NEW m \in Strings, EndsSolid(m), line = ChatLine(from, m), Read
      PROVE /\ \E d, w : Ends(d, w) /\ d \in {"drew a key", "became host", "decrypted", "printed"}
            /\ keyed /\ m \in EncryptForChat =>
                 IF Contains(from, CREATED) \/ Contains(from, PROMOTED)
                 THEN Ends("drew a key", << >>) \/ Ends("became host", << >>)
                 ELSE \/ Len(Cut(from, Label)) = 1 /\ Ends("decrypted", Two(Author(from), TrimSpace(typed)))
                      \/ /\ Len(Cut(from, Label)) # 1
                         /\ \/ Ends("printed", One(line))
                            \/ \E x : x # Author(from) /\ Ends("decrypted", Two(x, TrimSpace(typed)))
    OBVIOUS
  <1>1. PICK r : /\ r \in Strings /\ line = Line(CHAT_MSG, Colon, r) /\ EndsSolid(r)
                 /\ \A h : h \in {CREATED, PROMOTED} =>
                       (Contains(line, h) <=> Contains(from, h) \/ Contains(m, h))
    BY ChatLineIs
  <1>2. /\ TrimSpace(line) = line
        /\ ~HasPrefix(line, Two(USER_JOINED, Colon)) /\ ~HasPrefix(line, Two(KEY_DELIVERY, Colon))
    <2>1. CHAT_MSG # USER_JOINED /\ CHAT_MSG # KEY_DELIVERY
      BY DEF CHAT_MSG, USER_JOINED, KEY_DELIVERY
    <2> QED
      BY <1>1, <2>1, LineReads, LiteralPieces, SpaceSolid
  <1>3. IF Contains(line, CREATED) THEN Ends("drew a key", << >>)
        ELSE IF Contains(line, PROMOTED) THEN Ends("became host", << >>)
        ELSE ProcessIncomingChat(line)
    BY <1>2, EventOf, ReadBy
  <1>4. PICK x, y : /\ Cut(line, Label) = Two(x, y)
                    /\ Len(Cut(from, Label)) = 1 => x = Author(from) /\ y = m
                    /\ Len(Cut(from, Label)) # 1 => x # Author(from)
    BY ChatLineCut
  <1>5. ProcessIncomingChat(line) =>
            IF keyed /\ TrimSpace(y) \in EncryptForChat
            THEN Ends("decrypted", Two(x, TrimSpace(typed)))
            ELSE Ends("printed", One(line))
    BY <1>4, IncomingForm
  <1>6. \E d, w : Ends(d, w) /\ d \in {"drew a key", "became host", "decrypted", "printed"}
    BY <1>3, <1>5
  <1>7. ASSUME keyed, m \in EncryptForChat
        PROVE  /\ TrimSpace(m) = m
               /\ Contains(line, CREATED) <=> Contains(from, CREATED)
               /\ Contains(line, PROMOTED) <=> Contains(from, PROMOTED)
    <2>1. /\ Base64 # CREATED /\ Base64 # PROMOTED /\ Slash # CREATED /\ Slash # PROMOTED
      BY DEF Base64, Slash, CREATED, PROMOTED
    <2>2. /\ ~Contains(One(Base64), CREATED) /\ ~Contains(One(Base64), PROMOTED)
          /\ ~Contains(Two(Slash, Base64), CREATED) /\ ~Contains(Two(Slash, Base64), PROMOTED)
      BY <2>1, JoinContains, TupleContains, LiteralPieces
    <2>3. m[1] # Space /\ m # << >>
      BY <1>7, ParserForms, TupleFacts, SpaceSolid DEF EndsSolid
    <2> QED
      BY <1>1, <1>7, <2>2, <2>3, ParserForms, Beginnings
  <1>8. ASSUME keyed, m \in EncryptForChat, ~Contains(from, CREATED), ~Contains(from, PROMOTED)
        PROVE  \/ Len(Cut(from, Label)) = 1 /\ Ends("decrypted", Two(Author(from), TrimSpace(typed)))
               \/ /\ Len(Cut(from, Label)) # 1
                  /\ \/ Ends("printed", One(line))
                     \/ \E z : z # Author(from) /\ Ends("decrypted", Two(z, TrimSpace(typed)))
    BY <1>3, <1>4, <1>5, <1>7, <1>8
  <1> QED
    BY <1>3, <1>6, <1>7, <1>8

----------------------------------------------------------------------------
(* The server's commands.                                                  *)

LEMMA BareIs ==
    \A w : Two(Slash, w) \in Bare => w \in {"users", "rooms", "leave-room", "help", "quit"}
  <1>1. \A w : Command(w) = Two(Slash, w)
    BY Zenon DEF Command, Two, Slash
  <1> QED
    BY <1>1, TupleFacts DEF Bare

LEMMA CommandForm ==
    ASSUME HandleInternalCommand
    PROVE  /\ FirstWord(line) = Two(Slash, CreateWord) => Create(line)
           /\ FirstWord(line) = Two(Slash, JoinWord) => JoinRoom(line)
           /\ FirstWord(line) = Two(Slash, SendKeyWord) => Relay(line)
           /\ \/ FirstWord(line) = Two(Slash, CreateWord)
              \/ FirstWord(line) = Two(Slash, JoinWord)
              \/ FirstWord(line) = Two(Slash, SendKeyWord)
              \/ FirstWord(line) \in Bare /\ \E w : Ends("ran", w)
              \/ Ends("unknown", << >>)
  <1>1. PICK c : c = FirstWord(line)
    OBVIOUS
  <1>2. /\ Command("create") = Two(Slash, CreateWord)
        /\ Command("sendKey") = Two(Slash, SendKeyWord)
        /\ Command("join") = Two(Slash, JoinWord)
    BY Zenon DEF Command, Two, Slash, CreateWord, SendKeyWord, JoinWord
  <1>3. (CASE c = Command("create")  -> Create(line)
           [] c = Command("join")    -> JoinRoom(line)
           [] c = Command("sendKey") -> Relay(line)
           [] c \in Bare             -> Ends("ran", <<c>>)
           [] OTHER                  -> Ends("unknown", << >>))
    BY <1>1, Zenon DEF HandleInternalCommand, FirstWord
  <1>4. /\ Two(Slash, CreateWord) # Two(Slash, SendKeyWord)
        /\ Two(Slash, CreateWord) # Two(Slash, JoinWord)
        /\ Two(Slash, SendKeyWord) # Two(Slash, JoinWord)
        /\ \A w \in {CreateWord, JoinWord, SendKeyWord} : Two(Slash, w) \notin Bare
    <2>1. CreateWord # SendKeyWord /\ CreateWord # JoinWord /\ SendKeyWord # JoinWord
      BY DEF CreateWord, SendKeyWord, JoinWord
    <2>2. \A w \in {CreateWord, JoinWord, SendKeyWord} : Two(Slash, w) \notin Bare
      BY BareIs DEF CreateWord, SendKeyWord, JoinWord
    <2> QED
      BY <2>1, <2>2, TupleFacts
  <1>5. CASE c = Two(Slash, CreateWord)
    BY <1>1, <1>2, <1>3, <1>4, <1>5
  <1>6. CASE c = Two(Slash, SendKeyWord)
    BY <1>1, <1>2, <1>3, <1>4, <1>6
  <1>7. CASE c = Two(Slash, JoinWord)
    BY <1>1, <1>2, <1>3, <1>4, <1>7
  <1>8. CASE c \in Bare
    <2>1. c \notin {Two(Slash, CreateWord), Two(Slash, JoinWord), Two(Slash, SendKeyWord)}
      BY <1>4, <1>8
    <2>2. Ends("ran", <<c>>)
      BY <1>2, <1>3, <1>8, <2>1
    <2> QED
      BY <1>1, <1>8, <2>1, <2>2, Zenon
  <1>9. CASE /\ c \notin {Two(Slash, CreateWord), Two(Slash, JoinWord), Two(Slash, SendKeyWord)}
             /\ c \notin Bare
    BY <1>1, <1>2, <1>3, <1>9
  <1> QED
    BY <1>5, <1>6, <1>7, <1>8, <1>9

LEMMA RelayForm ==
    ASSUME NEW m, Relay(m), NEW p, p = CutTwice(m, One(Space))
    PROVE  IF Len(p) = 3 /\ p[2] = to THEN Goes(From(from, p[3]), "socket") ELSE Ends("ignored", << >>)
  BY Zenon DEF Relay, One, Space

LEMMA CreateEnds ==
    ASSUME NEW m, Create(m)
    PROVE  Ends("refused", << >>) \/ \E w : Ends("created", w)
  BY Zenon DEF Create

LEMMA JoinEndsIn ==
    ASSUME NEW m, JoinRoom(m)
    PROVE  Ends("refused", << >>) \/ \E w : Ends("joined", w)
  BY Zenon DEF JoinRoom

(* An answer to a key request is relayed unless a name with a space in it  *)
(* is cut short.                                                           *)
LEMMA RelayAnswer ==
    ASSUME to \in Strings, line = SendKey(to), HandleInternalCommand
    PROVE  IF Contains(to, Space) THEN Ends("ignored", << >>)
                                  ELSE Goes(From(from, One(SealedKey)), "socket")
  <1>1. PICK w, d, r : /\ w = Two(Slash, SendKeyWord) /\ d = One(SealedKey) /\ r = Spaced(to, d)
                       /\ line = Spaced(w, r)
    BY SendKeyIs
  <1>2. /\ w \in Strings /\ d \in Strings /\ r \in Strings
    BY <1>1, SeveralTypes, JoinTypes, SpacedIsString, LiteralPieces
  <1>3. w # << >> /\ ~Contains(w, Space)
    BY <1>1, <1>2, TupleContains, TupleFacts, NotEmpty, LiteralPieces, SpaceSolid
  <1>4. FirstWord(line) = w
    BY <1>1, <1>2, <1>3, WordReads
  <1>5. Relay(line)
    BY <1>1, <1>4, CommandForm
  <1>6. line = Join(w, Join(One(Space), Join(to, Join(One(Space), d))))
    BY <1>1, LineIs
  <1>7. PICK x, y : /\ CutTwice(line, One(Space)) = Three(w, x, y)
                    /\ ~Contains(to, Space) => x = to /\ y = d
                    /\ Contains(to, Space) => x # to
    BY <1>2, <1>3, <1>6, CutDelivery, LiteralPieces
  <1>8. PICK p : p = Three(w, x, y)
    OBVIOUS
  <1>9. Len(p) = 3 /\ p[2] = x /\ p[3] = y
    BY <1>8, TupleFacts
  <1>10. IF Len(p) = 3 /\ p[2] = to THEN Goes(From(from, p[3]), "socket") ELSE Ends("ignored", << >>)
    BY <1>5, <1>7, <1>8, RelayForm
  <1> QED
    BY <1>1, <1>7, <1>9, <1>10

(* A text that was encrypted is no command the server knows.               *)
LEMMA EncryptedUnknown ==
    ASSUME line = Two(Slash, Base64), HandleInternalCommand
    PROVE  Ends("unknown", << >>)
  <1>1. line \in Strings /\ line # << >> /\ ~Contains(line, Space)
    BY TupleContains, TupleFacts, SeveralTypes, NotEmpty, LiteralPieces, SpaceSolid
  <1>2. FirstWord(line) = Two(Slash, Base64)
    BY <1>1, WordReads
  <1>3. /\ Two(Slash, Base64) # Two(Slash, CreateWord)
        /\ Two(Slash, Base64) # Two(Slash, SendKeyWord)
        /\ Two(Slash, Base64) # Two(Slash, JoinWord)
        /\ Two(Slash, Base64) \notin Bare
    <2>1. Base64 # CreateWord /\ Base64 # SendKeyWord /\ Base64 # JoinWord
      BY DEF Base64, CreateWord, SendKeyWord, JoinWord
    <2>2. Two(Slash, Base64) \notin Bare
      BY BareIs DEF Base64
    <2> QED
      BY <2>1, <2>2, TupleFacts
  <1> QED
    BY <1>2, <1>3, CommandForm

(* What a typed command may come to.                                       *)
LEMMA CommandDone ==
    ASSUME line \in Strings, EndsSolid(line), HandleInternalCommand
    PROVE  \/ \E d : d \in Strings /\ EndsSolid(d) /\ Goes(From(from, d), "socket")
           \/ \E d, w : Ends(d, w) /\ d \in {"created", "joined", "refused", "ran", "unknown", "ignored"}
  <1>1. CASE FirstWord(line) = Two(Slash, CreateWord)
    <2>1. Ends("refused", << >>) \/ \E w : Ends("created", w)
      BY <1>1, CommandForm, CreateEnds
    <2> QED
      BY <2>1, Zenon
  <1>2. CASE FirstWord(line) = Two(Slash, SendKeyWord)
    <2>1. PICK p : p = CutTwice(line, One(Space))
      OBVIOUS
    <2>2. IF Len(p) = 3 /\ p[2] = to THEN Goes(From(from, p[3]), "socket") ELSE Ends("ignored", << >>)
      BY <1>2, <2>1, CommandForm, RelayForm
    <2>3. Len(p) = 3 => p[3] \in Strings /\ EndsSolid(p[3])
      <3>1. \/ Len(p) # 3
            \/ \E a, x, y : p = Three(a, x, y) /\ y \in Strings /\ EndsSolid(y)
        BY <2>1, ThirdPart, LiteralPieces
      <3> QED
        BY <3>1, TupleFacts
    <2>4. CASE Len(p) = 3 /\ p[2] = to
      BY <2>2, <2>3, <2>4, Zenon
    <2>5. CASE ~(Len(p) = 3 /\ p[2] = to)
      BY <2>2, <2>5, Zenon
    <2> QED
      BY <2>4, <2>5
  <1>3. CASE \E w : Ends("ran", w)
    BY <1>3, Zenon
  <1>4. CASE Ends("unknown", << >>)
    BY <1>4, Zenon
  <1>5. CASE FirstWord(line) = Two(Slash, JoinWord)
    <2>1. Ends("refused", << >>) \/ \E w : Ends("joined", w)
      BY <1>5, CommandForm, JoinEndsIn
    <2> QED
      BY <2>1, Zenon
  <1> QED
    BY <1>1, <1>2, <1>3, <1>4, <1>5, CommandForm

----------------------------------------------------------------------------
(* Rooms are made as they are typed.                                       *)

LEMMA CreateForm ==
    ASSUME NEW m, Create(m)
    PROVE  \/ Ends("refused", << >>)
           \/ /\ Contains(m, PrivateFlag) <=> ~Contains(m, PublicFlag)
              /\ Contains(m, PrivateFlag) => \E l \in LongPiece : Contains(ExtractFlag(m, PassFlag), l)
              /\ Ends("created", Two(ExtractFlag(m, NameFlag),
                                     IF Contains(m, PrivateFlag) THEN ExtractFlag(m, PassFlag) ELSE << >>))
  <1>1. PICK n, p, a, b :
            /\ n = ExtractFlag(m, NameFlag) /\ p = ExtractFlag(m, PassFlag)
            /\ a = Contains(m, PrivateFlag) /\ b = Contains(m, PublicFlag)
    OBVIOUS
  <1>2. IF (a = b) \/ n = << >> \/ (a /\ ~ \E l \in LongPiece : Contains(p, l))
        THEN Ends("refused", << >>)
        ELSE Ends("created", Two(n, IF a THEN p ELSE << >>))
    BY <1>1, Zenon DEF Create, Two, NameFlag, PassFlag, PrivateFlag, PublicFlag
  <1>3. a \in BOOLEAN /\ b \in BOOLEAN
    BY <1>1, Zenon DEF Contains
  <1> QED
    BY <1>1, <1>2, <1>3, Zenon

LEMMA WordIs ==
    \A n : n \in Word => n \in Strings /\ n # << >> /\ ~Contains(n, Space)
  <1> SUFFICES ASSUME NEW n \in Word PROVE n \in Strings /\ n # << >> /\ ~Contains(n, Space)
    OBVIOUS
  <1>1. PICK k \in 0..MaxWord : n \in [1..k -> WordPiece]
    BY LengthsAssumption, SeqOfIs DEF Word
  <1>2. n \in Seq(WordPiece) /\ n # << >> /\ Len(n) = k /\ k \in Nat
    BY <1>1 DEF Word
  <1>3. n \in Strings
    BY <1>2 DEF Strings, Piece
  <1>4. \A i \in 1..Len(n) : n[i] # Space
    BY <1>1, <1>2, PiecesAssumption DEF Space
  <1> QED
    BY <1>2, <1>3, <1>4, StringFacts DEF Contains

(* The words of a command that describes a room.                           *)
LEMMA CommandWords ==
    LET w == Two(Slash, CreateWord)
    IN  /\ w \in Strings /\ w # << >> /\ ~Contains(w, Space)
        /\ w # One(NameFlag) /\ w # One(PassFlag)
        /\ One(NameFlag) # One(PassFlag)
        /\ \A f : f \in {NameFlag, PassFlag, PublicFlag, PrivateFlag} =>
              /\ f \in Piece /\ f # Space
              /\ One(f) \in Strings /\ One(f) # << >> /\ ~Contains(One(f), Space)
  <1>1. /\ Two(Slash, CreateWord) \in Strings /\ Two(Slash, CreateWord) # << >>
        /\ ~Contains(Two(Slash, CreateWord), Space)
    BY TupleContains, TupleFacts, SeveralTypes, NotEmpty, LiteralPieces, SpaceSolid
  <1>2. Two(Slash, CreateWord) # One(NameFlag) /\ Two(Slash, CreateWord) # One(PassFlag)
    <2>1. /\ Len(Two(Slash, CreateWord)) = 2
          /\ Len(One(NameFlag)) = 1 /\ Len(One(PassFlag)) = 1
      BY TupleFacts
    <2> QED
      BY <2>1
  <1>3. One(NameFlag) # One(PassFlag)
    <2>1. NameFlag # PassFlag
      BY DEF NameFlag, PassFlag
    <2> QED
      BY <2>1, TupleFacts
  <1>4. \A f : f \in {NameFlag, PassFlag, PublicFlag, PrivateFlag} =>
              /\ f \in Piece /\ f # Space
              /\ One(f) \in Strings /\ One(f) # << >> /\ ~Contains(One(f), Space)
    BY LiteralPieces, SpaceSolid, JoinTypes, JoinEnds, JoinContains
  <1> QED
    BY <1>1, <1>2, <1>3, <1>4

LEMMA PublicAsWritten ==
    \A n : n \in Word /\ line = CreatePublic(n) /\ HandleInternalCommand
        => Ends("refused", << >>) \/ Ends("created", Two(n, << >>))
  <1> SUFFICES ASSUME NEW n \in Word, line = CreatePublic(n), HandleInternalCommand
               PROVE  Ends("refused", << >>) \/ Ends("created", Two(n, << >>))
    OBVIOUS
  <1>1. PICK w, f, g, r, q :
            /\ w = Two(Slash, CreateWord) /\ f = One(NameFlag) /\ g = One(PublicFlag)
            /\ r = Spaced(n, g) /\ q = Spaced(f, r)
    OBVIOUS
  <1>2. n \in Strings /\ n # << >> /\ ~Contains(n, Space)
    BY WordIs
  <1>3. line = Spaced(w, q)
    BY <1>1, <1>2, CreatePublicIs
  <1>4. w \in Strings /\ w # << >> /\ ~Contains(w, Space) /\ w # One(NameFlag)
    BY <1>1, CommandWords
  <1>5. f \in Strings /\ g \in Strings /\ Contains(g, PublicFlag)
    BY <1>1, CommandWords, JoinContains
  <1>6. r \in Strings /\ q \in Strings
    BY <1>1, <1>2, <1>5, SpacedIsString, SpacePiece
  <1>7. FirstWord(line) = w
    BY <1>3, <1>4, <1>6, WordReads
  <1>8. Create(line)
    BY <1>1, <1>7, CommandForm
  <1>9. ExtractFlag(line, NameFlag) = n
    <2>1. ExtractFlag(line, NameFlag) = ExtractFlag(q, NameFlag)
      BY <1>3, <1>4, <1>6, WordReads
    <2>2. FirstWord(r) = n /\ Fields(r) # {}
      BY <1>1, <1>2, <1>5, WordReads
    <2>3. ExtractFlag(q, NameFlag) = FirstWord(r)
      BY <1>1, <1>6, <2>2, CommandWords, WordReads
    <2> QED
      BY <2>1, <2>2, <2>3
  <1>10. Contains(line, PublicFlag)
    BY <1>1, <1>2, <1>3, <1>4, <1>5, <1>6, SpacedContains, SpacePiece
  <1> QED
    BY <1>8, <1>9, <1>10, CreateForm

LEMMA PrivateAsWritten ==
    \A n, p : n \in Word /\ p \in Word /\ line = CreatePrivate(n, p) /\ HandleInternalCommand
        => Ends("refused", << >>) \/ Ends("created", Two(n, p))
  <1> SUFFICES ASSUME NEW n \in Word, NEW p \in Word, line = CreatePrivate(n, p), HandleInternalCommand
               PROVE  Ends("refused", << >>) \/ Ends("created", Two(n, p))
    OBVIOUS
  <1>1. PICK w, f, o, g, t, u, r, q :
            /\ w = Two(Slash, CreateWord) /\ f = One(NameFlag) /\ o = One(PassFlag)
            /\ g = One(PrivateFlag) /\ t = Spaced(p, g) /\ u = Spaced(o, t)
            /\ r = Spaced(n, u) /\ q = Spaced(f, r)
    OBVIOUS
  <1>2. /\ n \in Strings /\ n # << >> /\ ~Contains(n, Space)
        /\ p \in Strings /\ p # << >> /\ ~Contains(p, Space)
    BY WordIs
  <1>3. line = Spaced(w, q)
    BY <1>1, <1>2, CreatePrivateIs
  <1>4. /\ w \in Strings /\ w # << >> /\ ~Contains(w, Space)
        /\ w # One(NameFlag) /\ w # One(PassFlag)
    BY <1>1, CommandWords
  <1>5. /\ f \in Strings /\ f # << >> /\ ~Contains(f, Space)
        /\ o \in Strings /\ o # << >> /\ ~Contains(o, Space) /\ f # o
        /\ g \in Strings /\ Contains(g, PrivateFlag)
    BY <1>1, CommandWords, JoinContains
  <1>6. t \in Strings /\ u \in Strings /\ r \in Strings /\ q \in Strings
    BY <1>1, <1>2, <1>5, SpacedIsString, SpacePiece
  <1>7. FirstWord(line) = w
    BY <1>3, <1>4, <1>6, WordReads
  <1>8. Create(line)
    BY <1>1, <1>7, CommandForm
  <1>9. ExtractFlag(line, NameFlag) = n
    <2>1. ExtractFlag(line, NameFlag) = ExtractFlag(q, NameFlag)
      BY <1>3, <1>4, <1>6, WordReads
    <2>2. FirstWord(r) = n /\ Fields(r) # {}
      BY <1>1, <1>2, <1>6, WordReads
    <2>3. ExtractFlag(q, NameFlag) = FirstWord(r)
      BY <1>1, <1>6, <2>2, CommandWords, WordReads
    <2> QED
      BY <2>1, <2>2, <2>3
  <1>10. Contains(line, PrivateFlag)
    <2>1. Contains(t, PrivateFlag)
      BY <1>1, <1>2, <1>5, SpacedContains, SpacePiece
    <2>2. Contains(u, PrivateFlag)
      BY <1>1, <1>5, <1>6, <2>1, SpacedContains, SpacePiece
    <2>3. Contains(r, PrivateFlag)
      BY <1>1, <1>2, <1>6, <2>2, SpacedContains, SpacePiece
    <2>4. Contains(q, PrivateFlag)
      BY <1>1, <1>5, <1>6, <2>3, SpacedContains, SpacePiece
    <2> QED
      BY <1>3, <1>4, <1>6, <2>4, SpacedContains, SpacePiece
  <1>11. ExtractFlag(line, PassFlag) = ExtractFlag(r, PassFlag)
    <2>1. ExtractFlag(line, PassFlag) = ExtractFlag(q, PassFlag)
      BY <1>3, <1>4, <1>6, WordReads
    <2>2. ExtractFlag(q, PassFlag) = ExtractFlag(r, PassFlag)
      BY <1>1, <1>5, <1>6, WordReads
    <2> QED
      BY <2>1, <2>2
  <1>12. Fields(u) # {} /\ FirstWord(u) = o /\ Fields(t) # {} /\ FirstWord(t) = p
    BY <1>1, <1>2, <1>5, <1>6, WordReads
  <1>13. CASE n = o
    <2>1. ExtractFlag(r, PassFlag) = o
      BY <1>1, <1>6, <1>12, <1>13, CommandWords, WordReads
    <2>2. \A l \in LongPiece : ~Contains(o, l)
      <3>1. PassFlag \notin LongPiece
        BY PiecesAssumption DEF PassFlag
      <3> QED
        BY <1>1, <3>1, CommandWords, JoinContains
    <2> QED
      BY <1>8, <1>10, <1>11, <2>1, <2>2, CreateForm
  <1>14. CASE n # o
    <2>1. ExtractFlag(r, PassFlag) = ExtractFlag(u, PassFlag)
      BY <1>1, <1>2, <1>6, <1>14, WordReads
    <2>2. ExtractFlag(u, PassFlag) = p
      BY <1>1, <1>6, <1>12, CommandWords, WordReads
    <2> QED
      BY <1>8, <1>9, <1>10, <1>11, <2>1, <2>2, CreateForm
  <1> QED
    BY <1>13, <1>14

----------------------------------------------------------------------------
(* How the lines begin, and that nothing of them is trimmed.               *)

LEMMA Begins ==
    /\ \A n, m : n \in Strings /\ m \in Strings =>
          /\ ChatLine(n, m) \in Strings
          /\ \A c : c \in Piece => (HasPrefix(ChatLine(n, m), One(c)) <=> c = CHAT_MSG)
    /\ \A n : n \in Strings =>
          /\ ReqFrom(n) \in Strings
          /\ \A c : c \in Piece => (HasPrefix(ReqFrom(n), One(c)) <=> c = KEY_DELIVERY)
    /\ \A n, d : n \in Strings /\ d \in Strings =>
          /\ From(n, d) \in Strings
          /\ \A c : c \in Piece => (HasPrefix(From(n, d), One(c)) <=> c = KEY_DELIVERY)
    /\ \A n : n \in Strings =>
          /\ UserJoined(n) \in Strings
          /\ \A c : c \in Piece => (HasPrefix(UserJoined(n), One(c)) <=> c = USER_JOINED)
    /\ \A n : n \in Strings =>
          /\ SendKey(n) \in Strings /\ EndsSolid(SendKey(n)) /\ TrimSpace(SendKey(n)) = SendKey(n)
          /\ \A c : c \in Piece => (HasPrefix(SendKey(n), One(c)) <=> c = Slash)
  <1>1. ASSUME NEW n \in Strings, NEW m \in Strings
        PROVE  /\ ChatLine(n, m) \in Strings
               /\ \A c : c \in Piece => (HasPrefix(ChatLine(n, m), One(c)) <=> c = CHAT_MSG)
    <2>1. PICK r : r \in Strings /\ ChatLine(n, m) = Line(CHAT_MSG, Colon, r)
      BY ChatLineIs
    <2> QED
      BY <2>1, LineReads, LiteralPieces
  <1>2. ASSUME NEW n \in Strings
        PROVE  /\ ReqFrom(n) \in Strings
               /\ \A c : c \in Piece => (HasPrefix(ReqFrom(n), One(c)) <=> c = KEY_DELIVERY)
    <2>1. PICK r : r \in Strings /\ ReqFrom(n) = Line(KEY_DELIVERY, Colon, r)
      BY ReqFromIs
    <2> QED
      BY <2>1, LineReads, LiteralPieces
  <1>3. ASSUME NEW n \in Strings, NEW d \in Strings
        PROVE  /\ From(n, d) \in Strings
               /\ \A c : c \in Piece => (HasPrefix(From(n, d), One(c)) <=> c = KEY_DELIVERY)
    <2>1. PICK r : r \in Strings /\ From(n, d) = Line(KEY_DELIVERY, Colon, r)
      BY FromIs
    <2> QED
      BY <2>1, LineReads, LiteralPieces
  <1>4. ASSUME NEW n \in Strings
        PROVE  /\ UserJoined(n) \in Strings
               /\ \A c : c \in Piece => (HasPrefix(UserJoined(n), One(c)) <=> c = USER_JOINED)
    <2>1. PICK r : r \in Strings /\ UserJoined(n) = Line(USER_JOINED, Colon, r)
      BY UserJoinedIs
    <2> QED
      BY <2>1, LineReads, LiteralPieces
  <1>5. ASSUME NEW n \in Strings
        PROVE  /\ SendKey(n) \in Strings /\ EndsSolid(SendKey(n)) /\ TrimSpace(SendKey(n)) = SendKey(n)
               /\ \A c : c \in Piece => (HasPrefix(SendKey(n), One(c)) <=> c = Slash)
    <2>1. PICK r : r \in Strings /\ EndsSolid(r) /\ SendKey(n) = Line(Slash, SendKeyWord, r)
      BY SendKeyIs
    <2>2. EndsSolid(SendKey(n))
      BY <2>1, LineIs, JoinTypes, JoinEnds, LiteralPieces
    <2> QED
      BY <2>1, <2>2, LineReads, LiteralPieces, SpaceSolid
  <1> QED
    BY <1>1, <1>2, <1>3, <1>4, <1>5

LEMMA JoinIsString ==
    \A n, p : n \in Strings /\ p \in Strings => JoinPrivate(n, p) \in Strings
  <1>1. \A n, p : JoinPrivate(n, p)
            = Join(Join(Two(Slash, JoinWord), Join(Three(Space, NameFlag, Space), n)),
                   Join(Three(Space, PassFlag, Space), p))
    BY Zenon DEF JoinPrivate, Command, Option, Join, Two, Three,
                 Slash, JoinWord, Space, NameFlag, PassFlag
  <1>2. /\ Two(Slash, JoinWord) \in Strings
        /\ Three(Space, NameFlag, Space) \in Strings /\ Three(Space, PassFlag, Space) \in Strings
    BY LiteralPieces, SeveralTypes
  <1> QED
    BY <1>1, <1>2, JoinTypes

LEMMA CommandsBegin ==
    /\ \A n : n \in Strings =>
          /\ CreatePublic(n) \in Strings /\ TrimSpace(CreatePublic(n)) = CreatePublic(n)
          /\ IsCommand(CreatePublic(n))
    /\ \A n, p : n \in Strings /\ p \in Strings =>
          /\ CreatePrivate(n, p) \in Strings /\ TrimSpace(CreatePrivate(n, p)) = CreatePrivate(n, p)
          /\ IsCommand(CreatePrivate(n, p))
  <1>1. ASSUME NEW n \in Strings
        PROVE  /\ CreatePublic(n) \in Strings /\ TrimSpace(CreatePublic(n)) = CreatePublic(n)
               /\ IsCommand(CreatePublic(n))
    <2>1. PICK r : r \in Strings /\ EndsSolid(r) /\ CreatePublic(n) = Line(Slash, CreateWord, r)
      BY CreatePublicIs
    <2> QED
      BY <2>1, LineReads, LiteralPieces, SpaceSolid, ParserForms
  <1>2. ASSUME NEW n \in Strings, NEW p \in Strings
        PROVE  /\ CreatePrivate(n, p) \in Strings /\ TrimSpace(CreatePrivate(n, p)) = CreatePrivate(n, p)
               /\ IsCommand(CreatePrivate(n, p))
    <2>1. PICK r : r \in Strings /\ EndsSolid(r) /\ CreatePrivate(n, p) = Line(Slash, CreateWord, r)
      BY CreatePrivateIs
    <2> QED
      BY <2>1, LineReads, LiteralPieces, SpaceSolid, ParserForms
  <1> QED
    BY <1>1, <1>2

(* What the properties look for, by the names of the pieces.               *)
LEMMA PropertyForms ==
    /\ Cast <=> HasPrefix(line, One(CHAT_MSG))
    /\ MeantAsCommand <=> IsCommand(Typed)
    /\ AskedForKey <=> typed = << >> /\ (HasPrefix(line, One(KEY_DELIVERY)) \/ IsCommand(line))
  BY Zenon DEF Cast, MeantAsCommand, AskedForKey, IsCommand, Typed, One, CHAT_MSG, KEY_DELIVERY

(* What was typed, trimmed, and what is sent of it.                        *)
LEMMA TypedIs ==
    ASSUME typed \in Strings
    PROVE  /\ Typed \in Strings /\ TrimSpace(Typed) = Typed
           /\ IsTyped => Typed[1] # Space /\ EndsSolid(Typed)
           /\ typed = << >> => ~IsTyped
           /\ ~IsTyped => ~IsCommand(Typed)
           /\ HasPrefix(typed, One(CHAT_MSG)) => HasPrefix(Typed, One(CHAT_MSG))
  <1>1. Typed \in Strings /\ TrimSpace(Typed) = Typed
    BY Beginnings DEF Typed
  <1>2. IsTyped => Typed[1] # Space /\ EndsSolid(Typed)
    BY Beginnings DEF Typed, IsTyped
  <1>3. typed = << >> => ~IsTyped
    BY DEF Typed, IsTyped, TrimSpace
  <1>4. ~IsTyped => ~IsCommand(Typed)
    BY <1>1, Beginnings, ParserForms, LiteralPieces DEF IsTyped
  <1>5. HasPrefix(typed, One(CHAT_MSG)) => HasPrefix(Typed, One(CHAT_MSG))
    BY TrimSpaceBegins, LiteralPieces, SpaceSolid DEF Typed
  <1> QED
    BY <1>1, <1>2, <1>3, <1>4, <1>5

LEMMA SentIs ==
    ASSUME typed \in Strings, IsTyped, NEW s \in Sent
    PROVE  /\ s \in Strings /\ s # << >> /\ EndsSolid(s) /\ TrimSpace(s) = s
           /\ s = Typed \/ (s \in EncryptForChat /\ keyed /\ ~IsCommand(Typed))
           /\ keyed /\ ~IsCommand(Typed) => s \in EncryptForChat
           /\ s \in EncryptForChat => ~HasPrefix(s, One(CHAT_MSG))
  <1>1. /\ s = Typed \/ (s \in EncryptForChat /\ keyed /\ ~IsCommand(Typed))
        /\ keyed /\ ~IsCommand(Typed) => s \in EncryptForChat
    BY DEF Sent
  <1>2. ASSUME s \in EncryptForChat
        PROVE  s \in Strings /\ s # << >> /\ EndsSolid(s) /\ s[1] # Space /\ s[1] # CHAT_MSG
    <2>1. Base64 # CHAT_MSG /\ Slash # CHAT_MSG
      BY DEF Base64, Slash, CHAT_MSG
    <2>2. CASE s = One(Base64)
      BY <2>1, <2>2, JoinTypes, JoinEnds, TupleFacts, LiteralPieces, SpaceSolid
    <2>3. CASE s = Two(Slash, Base64)
      <3>1. s \in Strings /\ Len(s) = 2 /\ s[1] = Slash /\ s[2] = Base64
        BY <2>3, SeveralTypes, TupleFacts, LiteralPieces
      <3>2. s # << >> /\ EndsSolid(s)
        BY <3>1, NotEmpty, SpaceSolid DEF EndsSolid
      <3> QED
        BY <2>1, <3>1, <3>2, SpaceSolid
    <2> QED
      BY <1>2, <2>2, <2>3, ParserForms
  <1>3. s \in EncryptForChat => TrimSpace(s) = s /\ ~HasPrefix(s, One(CHAT_MSG))
    BY <1>2, Beginnings, LiteralPieces
  <1> QED
    BY <1>1, <1>2, <1>3, TypedIs DEF IsTyped

----------------------------------------------------------------------------
(* The steps.                                                              *)

LEMMA NamesAreStrings ==
    /\ \A s : s \in SeqOf(TextPiece, MaxText) => s \in Strings
    /\ \A s : s \in Name => s \in Strings
    /\ << >> \in Strings
  <1>1. \A S : S \subseteq Piece => \A s \in Seq(S) : s \in Strings
    BY DEF Strings
  <1>2. TextPiece \subseteq Piece /\ NamePiece \subseteq Piece
    BY DEF Piece
  <1>3. \A s \in SeqOf(TextPiece, MaxText) : s \in Seq(TextPiece)
    BY LengthsAssumption, SeqOfIs
  <1>4. \A s \in Name : s \in Seq(NamePiece)
    BY LengthsAssumption, SeqOfIs DEF Name
  <1>5. << >> \in Strings
    BY DEF Strings
  <1> QED
    BY <1>1, <1>2, <1>3, <1>4, <1>5

LEMMA LineInit == ASSUME PInit PROVE LineInv
  <1>1. from \in Strings /\ keyed \in BOOLEAN
    BY NamesAreStrings DEF PInit
  <1>2. result.did = "nothing"
    BY DEF PInit
  <1>3. CASE \E s \in SeqOf(TextPiece, MaxText) : Typing(s) /\ roomed \in BOOLEAN /\ to = << >>
    BY <1>1, <1>2, <1>3, NamesAreStrings DEF Typing, LineInv, LineTypes
  <1>4. CASE /\ from = << >> /\ to = << >> /\ ~keyed /\ roomed = FALSE
             /\ \E n \in Word :
                   \/ Typing(CreatePublic(n))
                   \/ \E p \in Word : Typing(CreatePrivate(n, p)) \/ Typing(JoinPrivate(n, p))
    <2>1. \E s \in Strings : Typing(s)
      BY <1>4, CommandsBegin, JoinIsString, WordIs
    <2> QED
      BY <1>1, <1>2, <1>4, <2>1, NamesAreStrings DEF Typing, LineInv, LineTypes
  <1>5. CASE to \in Name /\ Arriving(ReqFrom(to))
    BY <1>1, <1>2, <1>5, NamesAreStrings DEF Arriving, LineInv, LineTypes
  <1>6. CASE to \in Name /\ Arriving(UserJoined(to))
    BY <1>1, <1>2, <1>6, NamesAreStrings DEF Arriving, LineInv, LineTypes
  <1> QED
    BY <1>3, <1>4, <1>5, <1>6 DEF PInit

LEMMA TerminalStep ==
    ASSUME LineInv, Terminal
    PROVE  /\ line = typed
           /\ \/ ~IsTyped /\ Ends("ignored", << >>)
              \/ IsCommand(Typed) /\ \E w : Ends("ran", w)
              \/ IsTyped /\ Goes(Typed, "client")
  <1>1. line = typed /\ typed \in Strings
    BY DEF LineInv, LineTypes, Terminal
  <1>2. PICK t : t = Typed
    OBVIOUS
  <1>3. t = TrimSpace(line)
    BY <1>1, <1>2 DEF Typed
  <1>4. Command("quit") = Two(Slash, QuitWord)
    BY Zenon DEF Command, Two, Slash, QuitWord
  <1>5. (CASE t = << >>                  -> Ends("ignored", << >>)
           [] t = Two(Slash, QuitWord) -> Ends("ran", <<t>>)
           [] OTHER                    -> Goes(t, "client"))
    BY <1>3, <1>4, Zenon DEF Terminal
  <1>6. CASE t = << >>
    <2>1. t # Two(Slash, QuitWord)
      BY <1>6 DEF Two
    <2> QED
      BY <1>1, <1>2, <1>5, <1>6, <2>1 DEF IsTyped
  <1>7. CASE t = Two(Slash, QuitWord)
    <2>1. t # << >>
      BY <1>7 DEF Two
    <2>2. Ends("ran", <<t>>)
      BY <1>5, <1>7, <2>1
    <2>3. IsCommand(t)
      BY <1>7, SeveralTypes, TupleFacts, LiteralPieces, <2>1, Beginnings, ParserForms
    <2> QED
      BY <1>1, <1>2, <2>2, <2>3, Zenon
  <1>8. CASE t # << >> /\ t # Two(Slash, QuitWord)
    BY <1>1, <1>2, <1>5, <1>8 DEF IsTyped
  <1> QED
    BY <1>6, <1>7, <1>8

LEMMA SendStep ==
    ASSUME LineInv, SendMessage
    PROVE  IsTyped /\ \E s \in Sent : Goes(s, "server")
  <1>1. IsTyped /\ line = Typed
    BY DEF LineInv, SendMessage
  <1>2. \E s \in IF Encrypts(line) THEN EncryptForChat ELSE {line} : Goes(s, "server")
    BY Zenon DEF SendMessage
  <1>3. Sent = IF Encrypts(line) THEN EncryptForChat ELSE {line}
    BY <1>1, Zenon DEF Sent, Encrypts
  <1> QED
    BY <1>1, <1>2, <1>3, Zenon

LEMMA LoopStep ==
    ASSUME LineInv, Loop
    PROVE  /\ (IsTyped /\ line \in Sent) \/ Answer(line)
           /\ \/ IsCommand(line) /\ Goes(line, "command")
              \/ ~IsCommand(line) /\ Goes(ChatLine(from, line), "socket")
              \/ ~IsCommand(line) /\ Ends("refused", << >>)
  <1>1. (IsTyped /\ line \in Sent) \/ Answer(line)
    BY DEF LineInv, Loop
  <1>2. TrimSpace(line) = line
    BY <1>1, SentIs, Begins DEF LineInv, LineTypes, Answer
  <1>3. CASE IsCommand(line)
    BY <1>1, <1>2, <1>3 DEF Loop
  <1>4. CASE ~IsCommand(line) /\ roomed
    BY <1>1, <1>2, <1>4 DEF Loop
  <1>5. CASE ~IsCommand(line) /\ ~roomed
    BY <1>1, <1>2, <1>5 DEF Loop
  <1> QED
    BY <1>3, <1>4, <1>5

LEMMA CommandStep ==
    ASSUME LineInv, HandleInternalCommand
    PROVE  /\ IsCommand(line)
           /\ \/ /\ Answer(line)
                 /\ IF Contains(to, Space) THEN Ends("ignored", << >>)
                                           ELSE Goes(From(from, One(SealedKey)), "socket")
              \/ /\ IsTyped /\ IsCommand(Typed) /\ line = Typed
                 /\ \/ \E d : d \in Strings /\ EndsSolid(d) /\ Goes(From(from, d), "socket")
                    \/ \E d, w : Ends(d, w) /\ d \in {"created", "joined", "refused", "ran", "unknown", "ignored"}
              \/ IsTyped /\ Ends("unknown", << >>)
  <1>1. /\ (IsTyped /\ line \in Sent) \/ Answer(line)
        /\ to \in Strings /\ typed \in Strings
    BY DEF LineInv, LineTypes, HandleInternalCommand
  <1>2. IsCommand(line)
    BY DEF LineInv, HandleInternalCommand
  <1>3. CASE Answer(line)
    <2>1. line = SendKey(to)
      BY <1>3 DEF Answer
    <2> QED
      BY <1>1, <1>2, <1>3, <2>1, RelayAnswer
  <1>4. CASE IsTyped /\ line = Typed
    <2>1. line \in Strings /\ EndsSolid(line)
      BY <1>1, <1>4, TypedIs
    <2> QED
      BY <1>2, <1>4, <2>1, CommandDone
  <1>5. CASE IsTyped /\ line \in EncryptForChat
    <2>1. ~IsCommand(One(Base64))
      <3>1. Base64 # Slash
        BY DEF Base64, Slash
      <3> QED
        BY <3>1, ParserForms, JoinTypes, JoinEnds, TupleFacts, LiteralPieces, Beginnings
    <2>2. line = Two(Slash, Base64)
      BY <1>2, <1>5, <2>1, ParserForms
    <2> QED
      BY <1>2, <1>5, <2>2, EncryptedUnknown
  <1> QED
    BY <1>1, <1>3, <1>4, <1>5, SentIs

LEMMA ReadStep ==
    ASSUME LineInv, Read
    PROVE  \/ /\ IsTyped /\ ~IsCommand(Typed)
              /\ \E m \in Sent : /\ line = ChatLine(from, m) /\ m \in Strings
                                 /\ \E d, w : Ends(d, w) /\ d \in {"drew a key", "became host", "decrypted", "printed"}
           \/ /\ IsTyped /\ IsCommand(Typed) /\ \E d \in Strings : line = From(from, d)
              /\ Ends("installed", << >>) \/ Ends("ignored", << >>)
           \/ /\ typed = << >> /\ line = ReqFrom(to)
              /\ IF keyed /\ ~Contains(to, Colon) THEN Goes(SendKey(to), "server")
                                                  ELSE Ends("ignored", << >>)
           \/ /\ typed = << >> /\ line = UserJoined(to)
              /\ at' = "end" /\ result'.did = "ignored" /\ UNCHANGED <<inputs, line>>
           \/ /\ typed = << >> /\ KeyRelayed(line)
              /\ IF Contains(from, Colon) THEN Ends("ignored", << >>) ELSE Ends("installed", << >>)
  <1>1. /\ typed \in Strings /\ from \in Strings /\ to \in Strings
        /\ \/ IsTyped /\ ~IsCommand(Typed) /\ Shown(line)
           \/ IsTyped /\ IsCommand(Typed) /\ Relayed(line)
           \/ typed = << >> /\ (line = ReqFrom(to) \/ line = UserJoined(to) \/ KeyRelayed(line))
    BY DEF LineInv, LineTypes, Read
  <1>2. CASE IsTyped /\ ~IsCommand(Typed) /\ Shown(line)
    <2>1. PICK m \in Sent : line = ChatLine(from, m)
      BY <1>2 DEF Shown
    <2>2. m \in Strings /\ EndsSolid(m)
      BY <1>1, <1>2, SentIs
    <2>3. \E d, w : Ends(d, w) /\ d \in {"drew a key", "became host", "decrypted", "printed"}
      BY <1>1, <2>1, <2>2, ReadChat
    <2> QED
      BY <1>2, <2>1, <2>2, <2>3, Zenon
  <1>3. CASE IsTyped /\ IsCommand(Typed) /\ Relayed(line)
    <2>1. PICK d : d \in Strings /\ line = From(from, d) /\ EndsSolid(d)
      BY <1>3 DEF Relayed
    <2> QED
      BY <1>1, <1>3, <2>1, ReadDelivery
  <1>4. CASE typed = << >> /\ line = ReqFrom(to)
    BY <1>1, <1>4, ReadRequest
  <1>5. CASE typed = << >> /\ line = UserJoined(to)
    BY <1>1, <1>5, ReadJoined
  <1>6. CASE typed = << >> /\ KeyRelayed(line)
    <2>1. PICK d : d = One(SealedKey)
      OBVIOUS
    <2>2. d \in Strings /\ EndsSolid(d) /\ line = From(from, d)
      BY <1>6, <2>1, JoinTypes, JoinEnds, LiteralPieces, SpaceSolid DEF KeyRelayed
    <2> QED
      BY <1>1, <1>6, <2>1, <2>2, ReadDelivery
  <1> QED
    BY <1>1, <1>2, <1>3, <1>4, <1>5, <1>6

LEMMA AnswerIsCommand ==
    ASSUME LineTypes, NEW l, Answer(l)
    PROVE  l = SendKey(to) /\ IsCommand(l) /\ l \in Strings /\ ~IsTyped /\ typed = << >>
  BY Begins, ParserForms, TypedIs, LiteralPieces DEF LineTypes, Answer

(* A step passes the line on, or it is the last.                           *)
LEMMA GoesKeeps ==
    ASSUME LineTypes, result.did = "nothing", NEW l, NEW place, Goes(l, place),
           \/ place = "client" /\ IsTyped /\ l = Typed
           \/ place = "server" /\ ((IsTyped /\ l \in Sent) \/ Answer(l))
           \/ place = "command" /\ IsCommand(l) /\ ((IsTyped /\ l \in Sent) \/ Answer(l))
           \/ /\ place = "socket"
              /\ \/ IsTyped /\ ~IsCommand(Typed) /\ Shown(l)
                 \/ IsTyped /\ IsCommand(Typed) /\ Relayed(l)
                 \/ typed = << >> /\ KeyRelayed(l)
    PROVE  LineInv' /\ at' # "end" /\ UNCHANGED <<inputs, result>>
  <1>1. /\ line' = l /\ at' = place /\ typed' = typed /\ from' = from /\ to' = to
        /\ keyed' = keyed /\ roomed' = roomed /\ result' = result
    BY DEF Goes, inputs
  <1>2. LineTypes' /\ at' # "end"
    BY <1>1 DEF LineTypes
  <1>3. Typed' = Typed /\ IsTyped' = IsTyped /\ Sent' = Sent
    BY <1>1, Zenon DEF Typed, IsTyped, Sent, IsCommand
  <1>4. /\ Answer(line)' <=> Answer(l)
        /\ Shown(line)' <=> Shown(l)
        /\ Relayed(line)' <=> Relayed(l)
        /\ KeyRelayed(line)' <=> KeyRelayed(l)
    BY <1>1, <1>3, Zenon DEF Answer, Shown, Relayed, KeyRelayed
  <1>5. IsCommand(Typed)' <=> IsCommand(Typed)
    BY <1>1, <1>3, Zenon DEF IsCommand
  <1>6. IsCommand(line)' <=> IsCommand(l)
    BY <1>1, Zenon DEF IsCommand
  <1> QED
    BY <1>1, <1>2, <1>3, <1>4, <1>5, <1>6 DEF LineInv, inputs

(* The step that ends the way of a line, and what it can say.              *)
Ended(did) == at' = "end" /\ result'.did = did /\ UNCHANGED <<inputs, line>>

LEMMA LineStep ==
    ASSUME LineInv, PNext
    PROVE  \/ LineInv' /\ at' # "end" /\ UNCHANGED <<inputs, result>>
           \/ \E d : /\ Ended(d)
                     /\ d \in {"ran", "created", "joined"} => IsCommand(Typed)
                     /\ d = "created" => HandleInternalCommand /\ line = Typed
  <1>0. \A d, w : Ends(d, w) => Ended(d)
    BY Zenon, EndsIs DEF Ended
  <1>1. LineTypes /\ (at # "end" => result.did = "nothing")
    BY DEF LineInv
  <1>2. CASE Terminal
    <2>1. result.did = "nothing"
      BY <1>1, <1>2 DEF Terminal
    <2>2. CASE ~IsTyped /\ Ends("ignored", << >>)
      BY <1>0, <2>2
    <2>3. CASE IsCommand(Typed) /\ \E w : Ends("ran", w)
      BY <1>0, <2>3
    <2>4. CASE IsTyped /\ Goes(Typed, "client")
      BY <1>1, <2>1, <2>4, GoesKeeps
    <2> QED
      BY <1>2, <2>2, <2>3, <2>4, TerminalStep
  <1>3. CASE SendMessage
    <2>1. result.did = "nothing"
      BY <1>1, <1>3 DEF SendMessage
    <2>2. PICK s \in Sent : IsTyped /\ Goes(s, "server")
      BY <1>3, SendStep
    <2> QED
      BY <1>1, <2>1, <2>2, GoesKeeps
  <1>4. CASE Loop
    <2>1. result.did = "nothing"
      BY <1>1, <1>4 DEF Loop
    <2>2. (IsTyped /\ line \in Sent) \/ Answer(line)
      BY <1>4, LoopStep
    <2>3. CASE IsCommand(line) /\ Goes(line, "command")
      BY <1>1, <2>1, <2>2, <2>3, GoesKeeps
    <2>4. CASE ~IsCommand(line) /\ Goes(ChatLine(from, line), "socket")
      <3>1. IsTyped /\ line \in Sent /\ ~IsCommand(Typed)
        BY <1>1, <2>2, <2>4, AnswerIsCommand, SentIs DEF LineTypes
      <3>2. Shown(ChatLine(from, line))
        BY <2>4, <3>1, Zenon DEF Shown
      <3> QED
        BY <1>1, <2>1, <2>4, <3>1, <3>2, GoesKeeps
    <2>5. CASE ~IsCommand(line) /\ Ends("refused", << >>)
      BY <1>0, <2>5
    <2> QED
      BY <1>4, <2>3, <2>4, <2>5, LoopStep
  <1>5. CASE HandleInternalCommand
    <2>1. result.did = "nothing"
      BY <1>1, <1>5 DEF HandleInternalCommand
    <2>2. CASE /\ Answer(line)
               /\ IF Contains(to, Space) THEN Ends("ignored", << >>)
                                         ELSE Goes(From(from, One(SealedKey)), "socket")
      <3>1. CASE Contains(to, Space)
        BY <1>0, <2>2, <3>1
      <3>2. CASE ~Contains(to, Space)
        <4>1. KeyRelayed(From(from, One(SealedKey))) /\ typed = << >>
          BY <2>2, <3>2, Zenon DEF KeyRelayed, Answer
        <4> QED
          BY <1>1, <2>1, <2>2, <3>2, <4>1, GoesKeeps
      <3> QED
        BY <3>1, <3>2
    <2>3. CASE /\ IsTyped /\ IsCommand(Typed) /\ line = Typed
               /\ \E d : d \in Strings /\ EndsSolid(d) /\ Goes(From(from, d), "socket")
      <3>1. PICK d : d \in Strings /\ EndsSolid(d) /\ Goes(From(from, d), "socket")
        BY <2>3
      <3>2. Relayed(From(from, d))
        BY <3>1, Zenon DEF Relayed
      <3> QED
        BY <1>1, <2>1, <2>3, <3>1, <3>2, GoesKeeps
    <2>4. CASE /\ IsTyped /\ IsCommand(Typed) /\ line = Typed
               /\ \E d, w : Ends(d, w) /\ d \in {"created", "joined", "refused", "ran", "unknown", "ignored"}
      BY <1>0, <1>5, <2>4
    <2>5. CASE IsTyped /\ Ends("unknown", << >>)
      BY <1>0, <2>5
    <2> QED
      BY <1>5, <2>2, <2>3, <2>4, <2>5, CommandStep
  <1>6. CASE Read
    <2>1. result.did = "nothing"
      BY <1>1, <1>6 DEF Read
    <2>2. CASE \E d, w : Ends(d, w) /\ d \in {"drew a key", "became host", "decrypted", "printed"}
      BY <1>0, <2>2
    <2>3. CASE Ends("installed", << >>) \/ Ends("ignored", << >>)
      BY <1>0, <2>3
    <2>4. CASE /\ typed = << >> /\ line = ReqFrom(to)
               /\ IF keyed /\ ~Contains(to, Colon) THEN Goes(SendKey(to), "server")
                                                   ELSE Ends("ignored", << >>)
      <3>1. CASE keyed /\ ~Contains(to, Colon)
        <4>1. Answer(SendKey(to))
          BY <2>4, <3>1, Zenon DEF Answer
        <4> QED
          BY <1>1, <2>1, <2>4, <3>1, <4>1, GoesKeeps
      <3>2. CASE ~(keyed /\ ~Contains(to, Colon))
        BY <1>0, <2>4, <3>2
      <3> QED
        BY <3>1, <3>2
    <2>5. CASE at' = "end" /\ result'.did = "ignored" /\ UNCHANGED <<inputs, line>>
      <3>1. Ended("ignored")
        BY <2>5, Zenon DEF Ended
      <3> QED
        BY <3>1
    <2> QED
      BY <1>6, <2>2, <2>3, <2>4, <2>5, ReadStep
  <1> QED
    BY <1>2, <1>3, <1>4, <1>5, <1>6 DEF PNext

LEMMA EndedIs ==
    ASSUME LineInv, NEW d, Ended(d)
    PROVE  /\ LineInv' /\ result'.did = d
           /\ typed' = typed /\ from' = from /\ to' = to /\ keyed' = keyed /\ roomed' = roomed
           /\ line' = line /\ at' = "end"
  BY DEF LineInv, LineTypes, Ended, inputs

(* A line that stutters is where it was.                                   *)
LEMMA Stutters ==
    ASSUME UNCHANGED pVars
    PROVE  UNCHANGED <<typed, from, to, keyed, roomed, at, line, result>>
  BY DEF pVars, inputs

LEMMA LineInvKept == LineInv /\ [PNext]_pVars => LineInv'
  <1> SUFFICES ASSUME LineInv, [PNext]_pVars PROVE LineInv'
    OBVIOUS
  <1>1. CASE PNext
    BY <1>1, LineStep, EndedIs
  <1>2. CASE UNCHANGED pVars
    <2>1. UNCHANGED <<typed, from, to, keyed, roomed, at, line, result>>
      BY <1>2, Stutters
    <2>2. /\ Typed' = Typed /\ IsTyped' = IsTyped /\ Sent' = Sent
          /\ Answer(line)' <=> Answer(line)
          /\ Shown(line)' <=> Shown(line)
          /\ Relayed(line)' <=> Relayed(line)
          /\ KeyRelayed(line)' <=> KeyRelayed(line)
      BY <2>1, Zenon DEF Typed, IsTyped, Sent, IsCommand, Answer, Shown, Relayed, KeyRelayed
    <2> QED
      BY <2>1, <2>2 DEF LineInv, LineTypes, IsCommand
  <1> QED
    BY <1>1, <1>2

(* Every line that is under way has one of the forms its place allows: the *)
(* text, or what was encrypted of it, from the client to the room; the     *)
(* command and what the server relays for it; the key request, its answer  *)
(* and the key (client.go:125-150, handler.go:107-131, client.go:160-260). *)
THEOREM LinesInvariant == PSpec => []LineInv
  <1> QED
    BY LineInit, LineInvKept, PTL DEF PSpec

----------------------------------------------------------------------------
(* The properties.                                                         *)

(* Before its end, no line that would be shown was meant as a command.     *)
LEMMA CastIsText ==
    ASSUME LineInv, at # "end", Cast PROVE ~IsCommand(Typed)
  <1>1. /\ typed \in Strings /\ from \in Strings /\ to \in Strings
        /\ at \in {"terminal", "client", "server", "command", "socket", "end"}
    BY DEF LineInv, LineTypes
  <1>2. HasPrefix(line, One(CHAT_MSG))
    BY PropertyForms
  <1>3. Slash # CHAT_MSG /\ KEY_DELIVERY # CHAT_MSG /\ USER_JOINED # CHAT_MSG
    BY DEF Slash, CHAT_MSG, KEY_DELIVERY, USER_JOINED
  <1>4. \A s : s \in Strings /\ IsCommand(s) => ~HasPrefix(s, One(CHAT_MSG))
    BY <1>3, ParserForms, Beginnings, LiteralPieces
  <1>5. ~HasPrefix(SendKey(to), One(CHAT_MSG))
    BY <1>1, <1>3, Begins, LiteralPieces
  <1>6. CASE at = "terminal"
    BY <1>1, <1>2, <1>4, <1>6, TypedIs DEF LineInv
  <1>7. CASE at = "client"
    BY <1>1, <1>2, <1>4, <1>7, TypedIs DEF LineInv
  <1>8. CASE at \in {"server", "command"}
    <2>1. (IsTyped /\ line \in Sent) \/ Answer(line)
      BY <1>8 DEF LineInv
    <2>2. ~Answer(line)
      BY <1>2, <1>5 DEF Answer
    <2> QED
      BY <1>1, <1>2, <1>4, <2>1, <2>2, SentIs, TypedIs
  <1>9. CASE at = "socket"
    <2>1. \/ IsTyped /\ ~IsCommand(Typed) /\ Shown(line)
          \/ IsTyped /\ IsCommand(Typed) /\ Relayed(line)
          \/ typed = << >> /\ (line = ReqFrom(to) \/ line = UserJoined(to) \/ KeyRelayed(line))
      BY <1>9 DEF LineInv
    <2>2. ~Relayed(line)
      BY <1>1, <1>2, <1>3, Begins, LiteralPieces DEF Relayed
    <2> QED
      BY <1>1, <2>1, <2>2, TypedIs
  <1> QED
    BY <1>1, <1>6, <1>7, <1>8, <1>9

(* CommandsAndTextsApart, where LineInv says nothing of it.                *)
ApartAtEnd == at = "end" => CommandsAndTextsApart

LEMMA ApartKept ==
    LineInv /\ ApartAtEnd /\ [PNext]_pVars => ApartAtEnd'
  <1> SUFFICES ASSUME LineInv, ApartAtEnd, [PNext]_pVars, at' = "end" PROVE CommandsAndTextsApart'
    BY DEF ApartAtEnd
  <1>1. ASSUME NEW d, Ended(d), d \in {"ran", "created", "joined"} => IsCommand(Typed), at # "end"
        PROVE  CommandsAndTextsApart'
    <2>1. result'.did = d /\ typed' = typed /\ line' = line
      BY <1>1, EndedIs
    <2>2. (Cast' <=> Cast) /\ (MeantAsCommand' <=> MeantAsCommand)
      BY <2>1 DEF Cast, MeantAsCommand
    <2> QED
      BY <1>1, <2>1, <2>2, PropertyForms, CastIsText DEF CommandsAndTextsApart
  <1>2. CASE PNext
    <2>1. at # "end"
      BY <1>2 DEF PNext, Terminal, SendMessage, Loop, HandleInternalCommand, Read
    <2> QED
      BY <1>1, <1>2, <2>1, LineStep
  <1>3. CASE UNCHANGED pVars
    BY <1>3, Stutters DEF ApartAtEnd, CommandsAndTextsApart, Cast, MeantAsCommand
  <1> QED
    BY <1>2, <1>3

(* What somebody types as a command, a room password included, is never    *)
(* cast to the room, and what is typed as a text never runs as a command   *)
(* (client.go:135, handler.go:120).                                        *)
THEOREM TextsApart == PSpec => []CommandsAndTextsApart
  <1>1. PInit => ApartAtEnd
    BY DEF PInit, Typing, Arriving, ApartAtEnd
  <1>2. LineInv /\ ApartAtEnd => CommandsAndTextsApart
    <2> SUFFICES ASSUME LineInv, at # "end" PROVE CommandsAndTextsApart
      BY DEF ApartAtEnd
    <2>1. result.did = "nothing"
      BY DEF LineInv
    <2> QED
      BY <2>1, CastIsText, PropertyForms DEF CommandsAndTextsApart
  <1> QED
    BY <1>1, <1>2, LinesInvariant, ApartKept, PTL DEF PSpec

LEMMA WrittenKept ==
    LineInv /\ CreatedAsWritten /\ [PNext]_pVars => CreatedAsWritten'
  <1> SUFFICES ASSUME LineInv, CreatedAsWritten, [PNext]_pVars PROVE CreatedAsWritten'
    OBVIOUS
  <1>1. CASE LineInv' /\ at' # "end"
    BY <1>1 DEF CreatedAsWritten, LineInv
  <1>2. ASSUME NEW d, Ended(d), d = "created" => HandleInternalCommand /\ line = Typed
        PROVE  CreatedAsWritten'
    <2> SUFFICES ASSUME d = "created", NEW n \in Word, NEW p \in Word
                 PROVE  /\ typed = CreatePublic(n) => result'.with = Two(n, << >>)
                        /\ typed = CreatePrivate(n, p) => result'.with = Two(n, p)
      BY <1>2, EndedIs DEF CreatedAsWritten, Two
    <2>1. HandleInternalCommand /\ line = Typed /\ result'.did = "created"
      BY <1>2, EndedIs
    <2>2. \A w : ~Ends("refused", w)
      BY <2>1 DEF Ends
    <2>3. \A w : Ends("created", w) => result'.with = w
      BY DEF Ends
    <2>4. ASSUME typed = CreatePublic(n) PROVE result'.with = Two(n, << >>)
      <3>1. line = CreatePublic(n)
        BY <2>1, <2>4, CommandsBegin, WordIs DEF Typed
      <3> QED
        BY <2>1, <2>2, <2>3, <3>1, PublicAsWritten
    <2>5. ASSUME typed = CreatePrivate(n, p) PROVE result'.with = Two(n, p)
      <3>1. line = CreatePrivate(n, p)
        BY <2>1, <2>5, CommandsBegin, WordIs DEF Typed
      <3> QED
        BY <2>1, <2>2, <2>3, <3>1, PrivateAsWritten
    <2> QED
      BY <2>4, <2>5
  <1>3. CASE PNext
    BY <1>1, <1>2, <1>3, LineStep
  <1>4. CASE UNCHANGED pVars
    BY <1>4, Stutters DEF CreatedAsWritten
  <1> QED
    BY <1>3, <1>4

(* A line of the documented forms of /create makes the room it describes,  *)
(* or none, whatever words stand for the name and the password             *)
(* (commands.go:45-62).                                                    *)
THEOREM RoomsAsWritten == PSpec => []CreatedAsWritten
  <1>1. PInit => CreatedAsWritten
    BY DEF PInit, CreatedAsWritten
  <1> QED
    BY <1>1, LinesInvariant, WrittenKept, PTL DEF PSpec

(* How the way of a line that is cast to somebody with the key ends.       *)
LEMMA CastEnds ==
    ASSUME LineInv, PNext, at' = "end", Cast, keyed
    PROVE  \E m : /\ m \in Strings /\ EndsSolid(m) /\ m \in EncryptForChat
                  /\ line = ChatLine(from, m) /\ Read
  <1>1. /\ typed \in Strings /\ from \in Strings /\ to \in Strings
    BY DEF LineInv, LineTypes
  <1>2. HasPrefix(line, One(CHAT_MSG))
    BY PropertyForms
  <1>3. at # "end"
    BY DEF PNext, Terminal, SendMessage, Loop, HandleInternalCommand, Read
  <1>4. ~IsCommand(Typed)
    BY <1>3, CastIsText
  <1>5. Slash # CHAT_MSG /\ KEY_DELIVERY # CHAT_MSG /\ USER_JOINED # CHAT_MSG
    BY DEF Slash, CHAT_MSG, KEY_DELIVERY, USER_JOINED
  <1>6. \A s : s \in Strings /\ IsCommand(s) => ~HasPrefix(s, One(CHAT_MSG))
    BY <1>5, ParserForms, Beginnings, LiteralPieces
  <1>7. ~IsCommand(line)
    <2>1. CASE at = "terminal" \/ at = "client"
      BY <1>1, <1>2, <1>6, <2>1, TypedIs DEF LineInv
    <2>2. CASE at \in {"server", "command"}
      <3>1. (IsTyped /\ line \in Sent) \/ Answer(line)
        BY <2>2 DEF LineInv
      <3>2. line \in Strings
        BY <1>1, <3>1, SentIs, AnswerIsCommand DEF LineInv
      <3> QED
        BY <1>2, <1>6, <3>2
    <2>3. CASE at = "socket"
      <3>1. \/ IsTyped /\ ~IsCommand(Typed) /\ Shown(line)
            \/ IsTyped /\ IsCommand(Typed) /\ Relayed(line)
            \/ typed = << >> /\ (line = ReqFrom(to) \/ line = UserJoined(to) \/ KeyRelayed(line))
        BY <2>3 DEF LineInv
      <3>2. line \in Strings
        BY <1>1, <3>1, SentIs, Begins, JoinTypes, LiteralPieces DEF Shown, Relayed, KeyRelayed
      <3> QED
        BY <1>2, <1>6, <3>2
    <2> QED
      BY <1>3, <2>1, <2>2, <2>3 DEF LineInv, LineTypes
  <1>8. CASE Terminal
    <2>1. line = typed /\ ~IsTyped
      BY <1>4, <1>8, TerminalStep DEF Goes
    <2>2. HasPrefix(Typed, One(CHAT_MSG)) /\ Typed = << >>
      BY <1>1, <1>2, <2>1, TypedIs DEF IsTyped
    <2> QED
      BY <1>1, <2>2, TypedIs, Beginnings, LiteralPieces
  <1>9. CASE SendMessage
    <2>1. \E s \in Sent : Goes(s, "server")
      BY <1>9, SendStep
    <2> QED
      BY <2>1 DEF Goes
  <1>10. CASE Loop
    <2>1. (IsTyped /\ line \in Sent) \/ Answer(line)
      BY <1>10, LoopStep
    <2>2. IsTyped /\ line \in Sent
      BY <1>7, <2>1, AnswerIsCommand DEF LineInv
    <2> QED
      BY <1>1, <1>2, <1>4, <2>2, SentIs
  <1>11. CASE HandleInternalCommand
    BY <1>7, <1>11, CommandStep
  <1>12. CASE Read
    <2>1. \/ IsTyped /\ ~IsCommand(Typed) /\ Shown(line)
          \/ typed = << >> /\ (line = ReqFrom(to) \/ line = UserJoined(to) \/ KeyRelayed(line))
      BY <1>4, <1>12 DEF LineInv, Read
    <2>2. /\ line # ReqFrom(to) /\ line # UserJoined(to)
          /\ ~KeyRelayed(line)
      BY <1>1, <1>2, <1>5, Begins, JoinTypes, LiteralPieces DEF KeyRelayed
    <2>3. PICK m \in Sent : IsTyped /\ line = ChatLine(from, m)
      BY <2>1, <2>2 DEF Shown
    <2>4. m \in Strings /\ EndsSolid(m) /\ m \in EncryptForChat
      BY <1>1, <1>4, <2>3, SentIs
    <2> QED
      BY <1>12, <2>3, <2>4
  <1> QED
    BY <1>8, <1>9, <1>10, <1>11, <1>12 DEF PNext

(* The two sides of ReadsAsTyped.                                          *)
Opened == result = [did |-> "decrypted", with |-> Two(Author(from), Typed)]
PlainAuthor == Len(Cut(from, Label)) = 1 /\ ~Contains(from, CREATED) /\ ~Contains(from, PROMOTED)

LEMMA ReadsKept ==
    LineInv /\ ReadsAsTyped /\ [PNext]_pVars => ReadsAsTyped'
  <1> SUFFICES ASSUME LineInv, ReadsAsTyped, [PNext]_pVars PROVE ReadsAsTyped'
    OBVIOUS
  <1>1. ASSUME PNext, at' = "end", Cast', keyed'
        PROVE  result' = [did |-> "decrypted", with |-> Two(Author(from), Typed)] <=> PlainAuthor
    <2>1. PICK d : Ended(d)
      BY <1>1, LineStep
    <2>2. Cast /\ keyed
      BY <1>1, <2>1, EndedIs DEF Cast
    <2>3. PICK m : /\ m \in Strings /\ EndsSolid(m) /\ m \in EncryptForChat
                   /\ line = ChatLine(from, m) /\ Read
      BY <1>1, <2>2, CastEnds
    <2>4. from \in Strings
      BY DEF LineInv, LineTypes
    <2>5. IF Contains(from, CREATED) \/ Contains(from, PROMOTED)
          THEN Ends("drew a key", << >>) \/ Ends("became host", << >>)
          ELSE \/ Len(Cut(from, Label)) = 1 /\ Ends("decrypted", Two(Author(from), TrimSpace(typed)))
               \/ /\ Len(Cut(from, Label)) # 1
                  /\ \/ Ends("printed", One(line))
                     \/ \E x : x # Author(from) /\ Ends("decrypted", Two(x, TrimSpace(typed)))
      BY <2>2, <2>3, <2>4, ReadChat
    <2>6. ASSUME NEW e, NEW w, Ends(e, w)
          PROVE  result'.did = e /\ result'.with = w /\ result' = [did |-> e, with |-> w]
      BY <2>6 DEF Ends
    <2>7. CASE Contains(from, CREATED) \/ Contains(from, PROMOTED)
      <3>1. Ends("drew a key", << >>) \/ Ends("became host", << >>)
        BY <2>5, <2>7
      <3>2. result'.did = "drew a key" \/ result'.did = "became host"
        BY <2>6, <3>1
      <3>3. result'.did # "decrypted"
        BY <3>2
      <3> QED
        BY <2>7, <3>3 DEF PlainAuthor
    <2>8. CASE /\ ~(Contains(from, CREATED) \/ Contains(from, PROMOTED))
               /\ Len(Cut(from, Label)) = 1 /\ Ends("decrypted", Two(Author(from), TrimSpace(typed)))
      BY <2>6, <2>8 DEF PlainAuthor, Typed
    <2>9. CASE /\ Len(Cut(from, Label)) # 1
               /\ \/ Ends("printed", One(line))
                  \/ \E x : x # Author(from) /\ Ends("decrypted", Two(x, TrimSpace(typed)))
      <3>1. result'.did = "printed" \/ \E x : x # Author(from) /\ result'.with = Two(x, TrimSpace(typed))
        BY <2>6, <2>9
      <3>2. \A x : Two(x, TrimSpace(typed)) = Two(Author(from), Typed) => x = Author(from)
        BY TupleFacts
      <3> QED
        BY <2>9, <3>1, <3>2 DEF PlainAuthor
    <2> QED
      BY <2>5, <2>7, <2>8, <2>9
  <1>2. CASE PNext /\ at' = "end" /\ Cast' /\ keyed'
    <2>1. PICK d : Ended(d)
      BY <1>2, LineStep
    <2>2. from' = from /\ typed' = typed
      BY <2>1, EndedIs
    <2>3. (Opened' <=> result' = [did |-> "decrypted", with |-> Two(Author(from), Typed)])
          /\ (PlainAuthor' <=> PlainAuthor)
      BY <2>2, Zenon DEF Opened, PlainAuthor, Typed
    <2>4. Opened' <=> PlainAuthor'
      BY <1>1, <1>2, <2>3
    <2> QED
      BY <2>4, Zenon DEF ReadsAsTyped, Opened, PlainAuthor, Author, Label, Typed, Two, CREATED, PROMOTED
  <1>3. CASE UNCHANGED pVars
    BY <1>3, Stutters DEF ReadsAsTyped, Cast
  <1>4. CASE ~(at' = "end" /\ Cast' /\ keyed')
    BY <1>4, Zenon DEF ReadsAsTyped
  <1> QED
    BY <1>2, <1>3, <1>4

(* An encrypted text that is cast is shown with its author and as it was   *)
(* typed, exactly when the name of the author holds neither a separator    *)
(* nor a word parseRawLine looks for (client.go:171-174, 205).             *)
THEOREM TextsReadAsTyped == PSpec => []ReadsAsTyped
  <1>1. PInit => ReadsAsTyped
    BY DEF PInit, Typing, Arriving, ReadsAsTyped
  <1> QED
    BY <1>1, LinesInvariant, ReadsKept, PTL DEF PSpec

(* What KeyReachesPlainNames asks of the names.                            *)
PlainNames ==
    keyed /\ ~Contains(from, Colon) /\ ~Contains(to, Colon) /\ ~Contains(to, Space)

(* How the way of a line that asks for a key, or brings one, ends.         *)
LEMMA AskedEnds ==
    ASSUME LineInv, PNext, at' = "end", AskedForKey
    PROVE  result'.did = "installed" <=> PlainNames
  <1>1. /\ typed \in Strings /\ from \in Strings /\ to \in Strings
        /\ typed = << >> /\ (HasPrefix(line, One(KEY_DELIVERY)) \/ IsCommand(line))
    BY PropertyForms DEF LineInv, LineTypes
  <1>2. ~IsTyped
    BY <1>1, TypedIs
  <1>3. \A d, w : Ends(d, w) => result'.did = d
    BY DEF Ends
  <1>4. CASE Terminal
    <2>1. line = << >>
      BY <1>1, <1>4, TerminalStep
    <2> QED
      BY <1>1, <2>1, NamesAreStrings, Beginnings, ParserForms, LiteralPieces
  <1>5. CASE SendMessage
    BY <1>2, <1>5, SendStep
  <1>6. CASE Loop
    <2>1. Answer(line)
      BY <1>2, <1>6, LoopStep
    <2>2. Goes(line, "command")
      BY <1>6, <2>1, LoopStep, AnswerIsCommand DEF LineInv
    <2> QED
      BY <2>2 DEF Goes
  <1>7. CASE HandleInternalCommand
    <2>1. IF Contains(to, Space) THEN Ends("ignored", << >>)
                                 ELSE Goes(From(from, One(SealedKey)), "socket")
      BY <1>2, <1>7, CommandStep
    <2>2. Contains(to, Space) /\ Ends("ignored", << >>)
      BY <2>1 DEF Goes
    <2> QED
      BY <1>3, <2>2 DEF PlainNames
  <1>8. CASE Read
    <2>1. \/ /\ line = ReqFrom(to)
             /\ IF keyed /\ ~Contains(to, Colon) THEN Goes(SendKey(to), "server")
                                                 ELSE Ends("ignored", << >>)
          \/ line = UserJoined(to)
          \/ /\ KeyRelayed(line)
             /\ IF Contains(from, Colon) THEN Ends("ignored", << >>) ELSE Ends("installed", << >>)
      BY <1>2, <1>8, ReadStep
    <2>2. line # UserJoined(to)
      <3>1. USER_JOINED # KEY_DELIVERY /\ USER_JOINED # Slash
        BY DEF USER_JOINED, KEY_DELIVERY, Slash
      <3> QED
        BY <1>1, <3>1, Begins, ParserForms, LiteralPieces
    <2>3. CASE IF keyed /\ ~Contains(to, Colon) THEN Goes(SendKey(to), "server")
                                                ELSE Ends("ignored", << >>)
      <3>1. ~(keyed /\ ~Contains(to, Colon)) /\ Ends("ignored", << >>)
        BY <2>3 DEF Goes
      <3> QED
        BY <1>3, <3>1 DEF PlainNames
    <2>4. CASE /\ KeyRelayed(line)
               /\ IF Contains(from, Colon) THEN Ends("ignored", << >>) ELSE Ends("installed", << >>)
      <3>1. keyed /\ ~Contains(to, Colon) /\ ~Contains(to, Space)
        BY <2>4 DEF KeyRelayed
      <3>2. CASE Contains(from, Colon)
        BY <1>3, <2>4, <3>1, <3>2 DEF PlainNames
      <3>3. CASE ~Contains(from, Colon)
        BY <1>3, <2>4, <3>1, <3>3 DEF PlainNames
      <3> QED
        BY <3>2, <3>3
    <2> QED
      BY <2>1, <2>2, <2>3, <2>4
  <1> QED
    BY <1>4, <1>5, <1>6, <1>7, <1>8 DEF PNext

LEMMA KeyReachesKept ==
    LineInv /\ KeyReachesPlainNames /\ [PNext]_pVars => KeyReachesPlainNames'
  <1> SUFFICES ASSUME LineInv, KeyReachesPlainNames, [PNext]_pVars PROVE KeyReachesPlainNames'
    OBVIOUS
  <1>1. CASE PNext /\ at' = "end" /\ AskedForKey'
    <2>1. PICK d : Ended(d)
      BY <1>1, LineStep
    <2>2. from' = from /\ to' = to /\ typed' = typed /\ line' = line /\ keyed' = keyed
      BY <2>1, EndedIs
    <2>3. AskedForKey
      BY <1>1, <2>2, Zenon DEF AskedForKey
    <2>4. result'.did = "installed" <=> PlainNames
      BY <1>1, <2>3, AskedEnds
    <2> QED
      BY <2>2, <2>4, Zenon DEF KeyReachesPlainNames, PlainNames, Colon, Space
  <1>2. CASE UNCHANGED pVars
    BY <1>2, Stutters DEF KeyReachesPlainNames, AskedForKey
  <1>3. CASE ~(at' = "end" /\ AskedForKey')
    BY <1>3, Zenon DEF KeyReachesPlainNames
  <1> QED
    BY <1>1, <1>2, <1>3

(* A key asked for arrives exactly when its holder has one, the name of    *)
(* the joiner holds no colon and no space, and that of the holder no       *)
(* colon (client.go:225, commands.go:240).                                 *)
THEOREM KeysReachPlainNames == PSpec => []KeyReachesPlainNames
  <1>1. PInit => KeyReachesPlainNames
    BY DEF PInit, Typing, Arriving, KeyReachesPlainNames
  <1> QED
    BY <1>1, LinesInvariant, KeyReachesKept, PTL DEF PSpec
=============================================================================
