---------------------------- MODULE StringProofs ----------------------------
(***************************************************************************)
(* Lemmas about the strings of Protocol, which are sequences of pieces,    *)
(* and about the functions of Go's package strings that its parsers call:  *)
(* what TrimSpace leaves, where SplitN cuts, which words Fields finds.     *)
(* ProtocolProofs rests on them.                                           *)
(*                                                                         *)
(* What is said of a string is said of joins: SplitN finds the parts of    *)
(* what was joined, if the separator is not in the first of them.          *)
(***************************************************************************)
EXTENDS Protocol, SequenceTheorems, WellFoundedInduction, TLAPS

(* A non-empty set of numbers has a least element: Min names it.           *)
LEMMA LeastElement ==
    ASSUME NEW S \in SUBSET Nat, S # {}
    PROVE  Min(S) \in S /\ \A x \in S : Min(S) <= x
  <1> DEFINE R == OpToRel(<, Nat)
  <1>1. ASSUME NEW x \in Nat, NEW y \in Nat, ~ (<<y, x>> \in R) PROVE x <= y
    BY <1>1 DEF OpToRel
  <1>2. IsWellFoundedOn(R, Nat)
    BY NatLessThanWellFounded
  <1> HIDE DEF R
  <1>3. \E x \in S : \A y \in S : ~ (<<y, x>> \in R)
    BY <1>2, WFMin
  <1>4. \E x \in S : \A y \in S : x <= y
    BY <1>1, <1>3
  <1> QED
    BY <1>4 DEF Min

(* And a greatest one, if it is bounded: Max names it.                     *)
LEMMA GreatestElement ==
    ASSUME NEW n \in Nat, NEW S \in SUBSET (0..n), S # {}
    PROVE  Max(S) \in S /\ \A x \in S : Max(S) >= x
  <1> DEFINE T == {n - x : x \in S}
  <1>1. T \in SUBSET Nat /\ T # {}
    <2>1. \A x \in S : n - x \in Nat
      OBVIOUS
    <2>2. \E x \in S : n - x \in T
      OBVIOUS
    <2> QED
      BY <2>1, <2>2
  <1>2. \A x \in S : n - x \in T
    OBVIOUS
  <1>3. \A y \in T : n - y \in S
    OBVIOUS
  <1>4. PICK m \in T : \A y \in T : m <= y
    <2> HIDE DEF T
    <2> QED
      BY <1>1, LeastElement
  <1> HIDE DEF T
  <1>5. n - m \in S /\ \A x \in S : n - m >= x
    BY <1>1, <1>2, <1>3, <1>4
  <1> QED
    BY <1>5 DEF Max

(* Sequences of pieces.                                                    *)
Literal == {"/", ":", " ", "[", "]", "-n", "-p", "--public", "--private", "create", "join",
            "quit", "sendKey", "base64", "public key", "sealed key", "has joined the room",
            "CHAT_MSG", "KEY_DELIVERY", "USER_JOINED", "REQ_FROM", "FROM"}
Piece == NamePiece \cup TextPiece \cup WordPiece \cup Literal
Strings == Seq(Piece)

(* The pieces by name: their characters do not matter, and as values of    *)
(* their own they keep out of the reasoning about places and parts.        *)
Space == " "
Colon == ":"
Slash == "/"
Opening == "["
Closing == "]"
CHAT_MSG == "CHAT_MSG"
KEY_DELIVERY == "KEY_DELIVERY"
USER_JOINED == "USER_JOINED"
REQ_FROM == "REQ_FROM"
FROM == "FROM"
CreateWord == "create"
JoinWord == "join"
QuitWord == "quit"
SendKeyWord == "sendKey"
NameFlag == "-n"
PassFlag == "-p"
PublicFlag == "--public"
PrivateFlag == "--private"
PublicKey == "public key"
SealedKey == "sealed key"
HasJoined == "has joined the room"
Base64 == "base64"
CREATED == "created"
PROMOTED == "PROMOTED"

LEMMA SeqOfIs ==
    ASSUME NEW S, NEW n \in Nat
    PROVE  /\ \A s : s \in SeqOf(S, n) <=> \E k \in 0..n : s \in [1..k -> S]
           /\ \A s \in SeqOf(S, n) : s \in Seq(S)
  BY DEF SeqOf

LEMMA Literals ==
    ASSUME NEW a \in Piece, NEW b \in Piece, NEW c \in Piece, NEW d \in Piece
    PROVE  /\ <<a>> \in Strings /\ Len(<<a>>) = 1 /\ <<a>>[1] = a
           /\ <<a, b>> \in Strings /\ Len(<<a, b>>) = 2 /\ <<a, b>>[1] = a /\ <<a, b>>[2] = b
           /\ <<a, b, c>> \in Strings /\ Len(<<a, b, c>>) = 3
           /\ <<a, b, c>>[1] = a /\ <<a, b, c>>[2] = b /\ <<a, b, c>>[3] = c
           /\ <<a, b, c, d>> \in Strings /\ Len(<<a, b, c, d>>) = 4
           /\ <<a, b, c, d>>[1] = a /\ <<a, b, c, d>>[2] = b
           /\ <<a, b, c, d>>[3] = c /\ <<a, b, c, d>>[4] = d
  BY DEF Strings

LEMMA StringFacts ==
    ASSUME NEW s \in Strings, NEW t \in Strings
    PROVE  /\ Len(s) \in Nat /\ DOMAIN s = 1..Len(s)
           /\ s \o t \in Strings /\ Len(s \o t) = Len(s) + Len(t)
           /\ \A i \in 1..Len(s) : (s \o t)[i] = s[i]
           /\ \A i \in 1..Len(t) : (s \o t)[Len(s) + i] = t[i]
  <1>1. Len(s) \in Nat /\ DOMAIN s = 1..Len(s) /\ Len(t) \in Nat
    BY LenProperties DEF Strings
  <1>2. /\ s \o t \in Strings /\ Len(s \o t) = Len(s) + Len(t)
        /\ \A i \in 1 .. Len(s) + Len(t) :
              (s \o t)[i] = IF i <= Len(s) THEN s[i] ELSE t[i - Len(s)]
    BY ConcatProperties DEF Strings
  <1>3. ASSUME NEW i \in 1..Len(t) PROVE (s \o t)[Len(s) + i] = t[i]
    <2>1. Len(s) + i \in 1..Len(s) + Len(t) /\ ~(Len(s) + i <= Len(s)) /\ (Len(s) + i) - Len(s) = i
      BY <1>1
    <2> QED
      BY <1>2, <2>1
  <1> QED
    BY <1>1, <1>2, <1>3

LEMMA SubString ==
    ASSUME NEW s \in Strings, NEW a \in Nat \ {0}, NEW b \in 0..Len(s)
    PROVE  /\ SubSeq(s, a, b) \in Strings
           /\ Len(SubSeq(s, a, b)) = IF a <= b THEN b - a + 1 ELSE 0
           /\ \A i \in 1..(b - a + 1) : SubSeq(s, a, b)[i] = s[a + i - 1]
  <1>1. \A i \in a..b : s[i] \in Piece
    BY StringFacts DEF Strings
  <1> QED
    BY <1>1, SubSeqProperties, StringFacts DEF Strings

LEMMA SameString ==
    ASSUME NEW s \in Strings, NEW t \in Strings, Len(s) = Len(t), \A i \in 1..Len(s) : s[i] = t[i]
    PROVE  s = t
  BY SeqEqual DEF Strings

LEMMA ShortStrings ==
    ASSUME NEW t \in Strings, NEW u \in Strings
    PROVE  /\ Len(t) = 1 /\ Len(u) = 1 /\ t[1] = u[1] => t = u
           /\ Len(t) = 2 /\ Len(u) = 2 /\ t[1] = u[1] /\ t[2] = u[2] => t = u
           /\ /\ Len(t) = 3 /\ Len(u) = 3
              /\ t[1] = u[1] /\ t[2] = u[2] /\ t[3] = u[3]
              => t = u
           /\ /\ Len(t) = 4 /\ Len(u) = 4
              /\ t[1] = u[1] /\ t[2] = u[2] /\ t[3] = u[3] /\ t[4] = u[4]
              => t = u
  <1>1. ASSUME Len(t) = 1, Len(u) = 1, t[1] = u[1] PROVE t = u
    <2>1. \A i \in 1..Len(t) : i = 1
      BY <1>1
    <2> QED
      BY <1>1, <2>1, SameString
  <1>2. ASSUME Len(t) = 2, Len(u) = 2, t[1] = u[1], t[2] = u[2] PROVE t = u
    <2>1. \A i \in 1..Len(t) : i = 1 \/ i = 2
      BY <1>2
    <2>2. \A i \in 1..Len(t) : t[i] = u[i]
      BY <1>2, <2>1
    <2> QED
      BY <1>2, <2>2, SameString
  <1>3. ASSUME Len(t) = 3, Len(u) = 3, t[1] = u[1], t[2] = u[2], t[3] = u[3] PROVE t = u
    <2>1. \A i \in 1..Len(t) : i = 1 \/ i = 2 \/ i = 3
      BY <1>3
    <2>2. \A i \in 1..Len(t) : t[i] = u[i]
      BY <1>3, <2>1
    <2> QED
      BY <1>3, <2>2, SameString
  <1>4. ASSUME Len(t) = 4, Len(u) = 4, t[1] = u[1], t[2] = u[2], t[3] = u[3], t[4] = u[4]
        PROVE  t = u
    <2>1. \A i \in 1..Len(t) : i = 1 \/ i = 2 \/ i = 3 \/ i = 4
      BY <1>4
    <2>2. \A i \in 1..Len(t) : t[i] = u[i]
      BY <1>4, <2>1
    <2> QED
      BY <1>4, <2>2, SameString
  <1> QED
    BY <1>1, <1>2, <1>3, <1>4

----------------------------------------------------------------------------
(* The functions of package strings.                                       *)

LEMMA PrefixOfOne ==
    ASSUME NEW s \in Strings, NEW c \in Piece
    PROVE  HasPrefix(s, <<c>>) <=> Len(s) >= 1 /\ s[1] = c
  <1>1. Len(s) \in Nat
    BY StringFacts
  <1>2. ASSUME Len(s) >= 1 PROVE SubSeq(s, 1, 1) = <<c>> <=> s[1] = c
    <2>1. /\ SubSeq(s, 1, 1) \in Strings /\ Len(SubSeq(s, 1, 1)) = 1
          /\ SubSeq(s, 1, 1)[1] = s[1]
      BY <1>1, <1>2, SubString
    <2>2. <<c>> \in Strings /\ Len(<<c>>) = 1 /\ <<c>>[1] = c
      BY Literals
    <2>3. PICK t, u : t = SubSeq(s, 1, 1) /\ u = <<c>>
      OBVIOUS
    <2>4. t = u <=> t[1] = u[1]
      BY <2>1, <2>2, <2>3, ShortStrings
    <2> QED
      BY <2>1, <2>2, <2>3, <2>4
  <1>3. HasPrefix(s, <<c>>) <=> 1 <= Len(s) /\ SubSeq(s, 1, 1) = <<c>>
    <2>1. Len(<<c>>) = 1 /\ SubSeq(<<c>>, 1, 1) = <<c>>
      BY Literals, SubSeqFull DEF Strings
    <2> QED
      BY <2>1, Zenon DEF HasPrefix, IsPrefix
  <1> QED
    BY <1>1, <1>2, <1>3

LEMMA PrefixOfTwo ==
    ASSUME NEW s \in Strings, NEW c \in Piece, NEW d \in Piece
    PROVE  HasPrefix(s, <<c, d>>) <=> Len(s) >= 2 /\ s[1] = c /\ s[2] = d
  <1>1. Len(s) \in Nat
    BY StringFacts
  <1>2. ASSUME Len(s) >= 2 PROVE SubSeq(s, 1, 2) = <<c, d>> <=> s[1] = c /\ s[2] = d
    <2>1. /\ SubSeq(s, 1, 2) \in Strings /\ Len(SubSeq(s, 1, 2)) = 2
          /\ SubSeq(s, 1, 2)[1] = s[1] /\ SubSeq(s, 1, 2)[2] = s[2]
      BY <1>1, <1>2, SubString
    <2>2. <<c, d>> \in Strings /\ Len(<<c, d>>) = 2 /\ <<c, d>>[1] = c /\ <<c, d>>[2] = d
      BY Literals
    <2>3. PICK t, u : t = SubSeq(s, 1, 2) /\ u = <<c, d>>
      OBVIOUS
    <2>4. t = u <=> t[1] = u[1] /\ t[2] = u[2]
      BY <2>1, <2>2, <2>3, ShortStrings
    <2> QED
      BY <2>1, <2>2, <2>3, <2>4
  <1>3. HasPrefix(s, <<c, d>>) <=> 2 <= Len(s) /\ SubSeq(s, 1, 2) = <<c, d>>
    <2>1. Len(<<c, d>>) = 2 /\ SubSeq(<<c, d>>, 1, 2) = <<c, d>>
      BY Literals, SubSeqFull DEF Strings
    <2> QED
      BY <2>1, Zenon DEF HasPrefix, IsPrefix
  <1> QED
    BY <1>1, <1>2, <1>3

(* TrimSpace leaves nothing, or what begins and ends with no space.        *)
Solid(s) == {i \in DOMAIN s : s[i] # Space}

LEMMA SolidFacts ==
    ASSUME NEW s \in Strings, Solid(s) # {}
    PROVE  /\ Min(Solid(s)) \in 1..Len(s) /\ s[Min(Solid(s))] # Space
           /\ Max(Solid(s)) \in 1..Len(s) /\ s[Max(Solid(s))] # Space
           /\ \A i \in 1..Len(s) : s[i] # Space => Min(Solid(s)) <= i /\ i <= Max(Solid(s))
  <1>1. Len(s) \in Nat /\ DOMAIN s = 1..Len(s)
    BY StringFacts
  <1>2. \A i : i \in Solid(s) <=> i \in 1..Len(s) /\ s[i] # Space
    BY <1>1 DEF Solid
  <1>3. Solid(s) \in SUBSET Nat /\ Solid(s) \in SUBSET (0..Len(s))
    BY <1>1, <1>2
  <1>4. /\ Min(Solid(s)) \in Solid(s) /\ Max(Solid(s)) \in Solid(s)
        /\ \A i \in Solid(s) : Min(Solid(s)) <= i /\ Max(Solid(s)) >= i
    BY <1>1, <1>3, LeastElement, GreatestElement
  <1> QED
    BY <1>1, <1>2, <1>4

LEMMA TrimSpaceFacts ==
    ASSUME NEW s \in Strings
    PROVE  /\ TrimSpace(s) \in Strings
           /\ TrimSpace(s) # << >> => /\ TrimSpace(s)[1] # Space
                                      /\ TrimSpace(s)[Len(TrimSpace(s))] # Space
                                      /\ Len(TrimSpace(s)) >= 1
  <1>1. Len(s) \in Nat
    BY StringFacts
  <1>2. CASE Solid(s) = {}
    <2>1. TrimSpace(s) = << >>
      BY <1>2 DEF TrimSpace, Solid, Space
    <2> QED
      BY <2>1 DEF Strings
  <1>3. CASE Solid(s) # {}
    <2>1. PICK a, b : a = Min(Solid(s)) /\ b = Max(Solid(s))
      OBVIOUS
    <2>2. a \in 1..Len(s) /\ b \in 1..Len(s) /\ a <= b /\ s[a] # Space /\ s[b] # Space
      BY <1>1, <1>3, <2>1, SolidFacts
    <2>3. TrimSpace(s) = SubSeq(s, a, b)
      BY <1>3, <2>1 DEF TrimSpace, Solid, Space
    <2>4. a \in Nat \ {0} /\ b \in 0..Len(s) /\ b - a + 1 \in Nat /\ b - a + 1 >= 1
      BY <1>1, <2>2
    <2>5. /\ SubSeq(s, a, b) \in Strings /\ Len(SubSeq(s, a, b)) = b - a + 1
          /\ \A i \in 1..(b - a + 1) : SubSeq(s, a, b)[i] = s[a + i - 1]
      BY <2>2, <2>4, SubString
    <2>6. SubSeq(s, a, b)[1] = s[a] /\ SubSeq(s, a, b)[b - a + 1] = s[b]
      <3>1. a + 1 - 1 = a /\ a + (b - a + 1) - 1 = b
            /\ 1 \in 1..(b - a + 1) /\ b - a + 1 \in 1..(b - a + 1)
        BY <1>1, <2>2
      <3> QED
        BY <2>5, <3>1
    <2> QED
      BY <2>2, <2>3, <2>4, <2>5, <2>6
  <1> QED
    BY <1>2, <1>3

LEMMA TrimSpaceKeeps ==
    ASSUME NEW s \in Strings, Len(s) >= 1, s[1] # Space, s[Len(s)] # Space
    PROVE  TrimSpace(s) = s
  <1>1. Len(s) \in Nat /\ DOMAIN s = 1..Len(s) /\ 1 \in 1..Len(s) /\ Len(s) \in 1..Len(s)
    BY StringFacts
  <1>2. Solid(s) # {}
    BY <1>1 DEF Solid
  <1>3. Min(Solid(s)) = 1 /\ Max(Solid(s)) = Len(s)
    <2>1. PICK a, b : a = Min(Solid(s)) /\ b = Max(Solid(s))
      OBVIOUS
    <2>2. a \in 1..Len(s) /\ b \in 1..Len(s) /\ a <= 1 /\ Len(s) <= b
      BY <1>1, <1>2, <2>1, SolidFacts
    <2> QED
      BY <1>1, <2>1, <2>2
  <1>4. TrimSpace(s) = SubSeq(s, 1, Len(s))
    BY <1>2, <1>3 DEF TrimSpace, Solid, Space
  <1> QED
    BY <1>4, SubSeqFull DEF Strings

LEMMA TrimSpaceTwice ==
    ASSUME NEW s \in Strings PROVE TrimSpace(TrimSpace(s)) = TrimSpace(s)
  <1>1. CASE TrimSpace(s) = << >>
    <2>1. TrimSpace(<< >>) = << >>
      BY DEF TrimSpace
    <2> QED
      BY <1>1, <2>1
  <1>2. CASE TrimSpace(s) # << >>
    BY <1>2, TrimSpaceFacts, TrimSpaceKeeps
  <1> QED
    BY <1>1, <1>2

(* SplitN finds no separator, or cuts at the first.                        *)
LEMMA CutFacts ==
    ASSUME NEW s \in Strings, NEW sep
    PROVE  /\ (\A i \in 1..Len(s) : ~IsPrefix(sep, SubSeq(s, i, Len(s)))) => Cut(s, sep) = <<s>>
           /\ \A p \in 1..Len(s) :
                 /\ IsPrefix(sep, SubSeq(s, p, Len(s)))
                 /\ \A i \in 1..(p - 1) : ~IsPrefix(sep, SubSeq(s, i, Len(s)))
                 => Cut(s, sep) = <<SubSeq(s, 1, p - 1), SubSeq(s, p + Len(sep), Len(s))>>
  <1> DEFINE places == {i \in DOMAIN s : IsPrefix(sep, SubSeq(s, i, Len(s)))}
  <1>1. Len(s) \in Nat /\ DOMAIN s = 1..Len(s) /\ places \in SUBSET Nat
    BY StringFacts
  <1>2. ASSUME \A i \in 1..Len(s) : ~IsPrefix(sep, SubSeq(s, i, Len(s)))
        PROVE  Cut(s, sep) = <<s>>
    <2>1. places = {}
      BY <1>1, <1>2
    <2> QED
      BY <2>1 DEF Cut
  <1>3. ASSUME NEW p \in 1..Len(s), IsPrefix(sep, SubSeq(s, p, Len(s))),
               \A i \in 1..(p - 1) : ~IsPrefix(sep, SubSeq(s, i, Len(s)))
        PROVE  Cut(s, sep) = <<SubSeq(s, 1, p - 1), SubSeq(s, p + Len(sep), Len(s))>>
    <2>1. p \in places /\ \A i \in places : i >= p
      BY <1>1, <1>3
    <2>2. Min(places) = p
      <3> HIDE DEF places
      <3>1. PICK a : a = Min(places)
        OBVIOUS
      <3>2. a \in Nat /\ a >= p /\ a <= p
        BY <1>1, <2>1, <3>1, LeastElement
      <3> QED
        BY <3>1, <3>2
    <2>3. Cut(s, sep) = <<SubSeq(s, 1, Min(places) - 1), SubSeq(s, Min(places) + Len(sep), Len(s))>>
      BY <2>1, Zenon DEF Cut
    <2> QED
      BY <2>2, <2>3
  <1> QED
    BY <1>2, <1>3

----------------------------------------------------------------------------
(* Joins.                                                                  *)

LEMMA Associative ==
    ASSUME NEW a \in Strings, NEW b \in Strings, NEW c \in Strings
    PROVE  (a \o b) \o c = a \o (b \o c)
  BY ConcatAssociative DEF Strings

(* The two parts of a join, taken out of it.                               *)
LEMMA PartsOfJoin ==
    ASSUME NEW a \in Strings, NEW b \in Strings
    PROVE  /\ SubSeq(a \o b, 1, Len(a)) = a
           /\ SubSeq(a \o b, Len(a) + 1, Len(a \o b)) = b
  <1>1. PICK n \in Nat, m \in Nat : n = Len(a) /\ m = Len(b)
    BY StringFacts
  <1>2. PICK s \in Strings : s = a \o b
    BY StringFacts
  <1>3. /\ Len(s) = n + m
        /\ \A i \in 1..n : s[i] = a[i]
        /\ \A i \in 1..m : s[n + i] = b[i]
    BY <1>1, <1>2, StringFacts
  <1>4. SubSeq(s, 1, n) = a
    <2>1. /\ SubSeq(s, 1, n) \in Strings
          /\ Len(SubSeq(s, 1, n)) = IF 1 <= n THEN n - 1 + 1 ELSE 0
          /\ \A i \in 1..(n - 1 + 1) : SubSeq(s, 1, n)[i] = s[1 + i - 1]
      BY <1>3, SubString
    <2>2. n - 1 + 1 = n /\ \A i \in 1..n : 1 + i - 1 = i
      OBVIOUS
    <2>3. Len(SubSeq(s, 1, n)) = n
      BY <2>1, <2>2
    <2>4. \A i \in 1..n : SubSeq(s, 1, n)[i] = a[i]
      BY <1>3, <2>1, <2>2
    <2> QED
      BY <1>1, <2>1, <2>3, <2>4, SameString
  <1>5. SubSeq(s, n + 1, n + m) = b
    <2>1. /\ SubSeq(s, n + 1, n + m) \in Strings
          /\ Len(SubSeq(s, n + 1, n + m)) = IF n + 1 <= n + m THEN (n + m) - (n + 1) + 1 ELSE 0
          /\ \A i \in 1..((n + m) - (n + 1) + 1) :
                SubSeq(s, n + 1, n + m)[i] = s[(n + 1) + i - 1]
      BY <1>3, SubString
    <2>2. (n + m) - (n + 1) + 1 = m /\ \A i \in 1..m : (n + 1) + i - 1 = n + i
      OBVIOUS
    <2>3. Len(SubSeq(s, n + 1, n + m)) = m
      BY <2>1, <2>2
    <2>4. \A i \in 1..m : SubSeq(s, n + 1, n + m)[i] = b[i]
      BY <1>3, <2>1, <2>2
    <2> QED
      BY <1>1, <2>1, <2>3, <2>4, SameString
  <1> QED
    BY <1>1, <1>2, <1>3, <1>4, <1>5

(* The rest of s from i on begins with c, or with c and d.                 *)
LEMMA BeginsWithOne ==
    ASSUME NEW s \in Strings, NEW i \in 1..Len(s), NEW c \in Piece
    PROVE  IsPrefix(<<c>>, SubSeq(s, i, Len(s))) <=> s[i] = c
  <1>1. PICK n \in Nat : n = Len(s)
    BY StringFacts
  <1>2. i \in Nat \ {0} /\ i <= n /\ n - i + 1 >= 1 /\ i + 1 - 1 = i /\ 1 \in 1..(n - i + 1) /\ n \in 0..n
    BY <1>1
  <1>3. PICK t : t = SubSeq(s, i, n)
    OBVIOUS
  <1>4. t \in Strings /\ Len(t) >= 1 /\ t[1] = s[i]
    BY <1>1, <1>2, <1>3, SubString
  <1>5. HasPrefix(t, <<c>>) <=> t[1] = c
    BY <1>4, PrefixOfOne
  <1> QED
    BY <1>1, <1>3, <1>4, <1>5 DEF HasPrefix

LEMMA BeginsWithTwo ==
    ASSUME NEW s \in Strings, NEW i \in 1..Len(s), NEW c \in Piece, NEW d \in Piece
    PROVE  IsPrefix(<<c, d>>, SubSeq(s, i, Len(s)))
           <=> i + 1 <= Len(s) /\ s[i] = c /\ s[i + 1] = d
  <1>1. PICK n \in Nat : n = Len(s)
    BY StringFacts
  <1>2. /\ i \in Nat \ {0} /\ i <= n /\ n \in 0..n /\ i + 1 - 1 = i /\ i + 2 - 1 = i + 1
        /\ 1 \in 1..(n - i + 1) /\ (n - i + 1 >= 2 <=> i + 1 <= n)
        /\ i + 1 <= n => 2 \in 1..(n - i + 1)
    BY <1>1
  <1>3. PICK t : t = SubSeq(s, i, n)
    OBVIOUS
  <1>4. t \in Strings /\ Len(t) = n - i + 1 /\ t[1] = s[i] /\ (i + 1 <= n => t[2] = s[i + 1])
    BY <1>1, <1>2, <1>3, SubString
  <1>5. HasPrefix(t, <<c, d>>) <=> Len(t) >= 2 /\ t[1] = c /\ t[2] = d
    BY <1>4, PrefixOfTwo
  <1> QED
    BY <1>1, <1>2, <1>3, <1>4, <1>5 DEF HasPrefix

----------------------------------------------------------------------------
(* Which pieces a string contains.                                         *)

LEMMA ContainsInJoin ==
    ASSUME NEW a \in Strings, NEW b \in Strings, NEW c
    PROVE  Contains(a \o b, c) <=> Contains(a, c) \/ Contains(b, c)
  <1>1. PICK n \in Nat, m \in Nat : n = Len(a) /\ m = Len(b)
    BY StringFacts
  <1>2. PICK s \in Strings : s = a \o b
    BY StringFacts
  <1>3. /\ Len(s) = n + m
        /\ \A i \in 1..n : s[i] = a[i]
        /\ \A i \in 1..m : s[n + i] = b[i]
    BY <1>1, <1>2, StringFacts
  <1>4. /\ \A i \in 1..(n + m) : i \in 1..n \/ (i - n \in 1..m /\ n + (i - n) = i)
        /\ \A i \in 1..n : i \in 1..(n + m)
        /\ \A i \in 1..m : n + i \in 1..(n + m)
    OBVIOUS
  <1>5. Contains(s, c) <=> \E i \in 1..(n + m) : s[i] = c
    BY <1>3 DEF Contains
  <1>6. Contains(a, c) <=> \E i \in 1..n : a[i] = c
    BY <1>1 DEF Contains
  <1>7. Contains(b, c) <=> \E i \in 1..m : b[i] = c
    BY <1>1 DEF Contains
  <1>8. ASSUME Contains(s, c) PROVE Contains(a, c) \/ Contains(b, c)
    <2>1. PICK i \in 1..(n + m) : s[i] = c
      BY <1>5, <1>8
    <2>2. CASE i \in 1..n
      BY <1>3, <1>6, <2>1, <2>2
    <2>3. CASE i - n \in 1..m /\ n + (i - n) = i
      BY <1>3, <1>7, <2>1, <2>3
    <2> QED
      BY <1>4, <2>2, <2>3
  <1>9. ASSUME Contains(a, c) \/ Contains(b, c) PROVE Contains(s, c)
    BY <1>3, <1>4, <1>5, <1>6, <1>7, <1>9
  <1> QED
    BY <1>2, <1>8, <1>9

LEMMA ContainsOfOne ==
    ASSUME NEW a \in Piece, NEW c PROVE Contains(<<a>>, c) <=> c = a
  <1>1. Len(<<a>>) = 1 /\ <<a>>[1] = a
    BY Literals
  <1>2. \A i \in 1..1 : i = 1
    OBVIOUS
  <1>3. 1 \in 1..1
    OBVIOUS
  <1> QED
    BY <1>1, <1>2, <1>3 DEF Contains

LEMMA AfterOne ==
    ASSUME NEW s \in Strings, Len(s) = 1, NEW t \in Strings, NEW n \in Nat, n = Len(t)
    PROVE  /\ s \o t \in Strings /\ Len(s \o t) = 1 + n /\ (s \o t)[1] = s[1]
           /\ n >= 1 => (s \o t)[2] = t[1]
           /\ n >= 2 => (s \o t)[3] = t[2]
           /\ n >= 3 => (s \o t)[4] = t[3]
  <1>1. /\ s \o t \in Strings /\ Len(s \o t) = 1 + n
        /\ \A i \in 1..1 : (s \o t)[i] = s[i]
        /\ \A i \in 1..n : (s \o t)[1 + i] = t[i]
    <2>1. PICK k : k = Len(s)
      OBVIOUS
    <2>2. /\ s \o t \in Strings /\ Len(s \o t) = k + n
          /\ \A i \in 1..k : (s \o t)[i] = s[i]
          /\ \A i \in 1..n : (s \o t)[k + i] = t[i]
      BY <2>1, StringFacts
    <2>3. k = 1
      BY <2>1
    <2> QED
      BY <2>2, <2>3
  <1>2. /\ 1 \in 1..1 /\ 1 + 1 = 2 /\ 1 + 2 = 3 /\ 1 + 3 = 4
        /\ (n >= 1 => 1 \in 1..n) /\ (n >= 2 => 2 \in 1..n) /\ (n >= 3 => 3 \in 1..n)
    OBVIOUS
  <1>3. (s \o t)[1] = s[1]
    BY <1>1, <1>2
  <1>4. ASSUME n >= 1 PROVE (s \o t)[2] = t[1]
    BY <1>1, <1>2, <1>4
  <1>5. ASSUME n >= 2 PROVE (s \o t)[3] = t[2]
    BY <1>1, <1>2, <1>5
  <1>6. ASSUME n >= 3 PROVE (s \o t)[4] = t[3]
    BY <1>1, <1>2, <1>6
  <1> QED
    BY <1>1, <1>3, <1>4, <1>5, <1>6

(* A literal of several pieces is the join of its first and the others.    *)
LEMMA LiteralJoins ==
    ASSUME NEW a \in Piece, NEW b \in Piece, NEW c \in Piece, NEW d \in Piece
    PROVE  /\ <<a, b>> = <<a>> \o <<b>>
           /\ <<a, b, c>> = <<a>> \o <<b, c>>
           /\ <<a, b, c, d>> = <<a>> \o <<b, c, d>>
  <1>1. PICK s, t, u, v : s = <<a>> /\ t = <<b>> /\ u = <<b, c>> /\ v = <<b, c, d>>
    OBVIOUS
  <1>2. /\ s \in Strings /\ Len(s) = 1 /\ s[1] = a
        /\ t \in Strings /\ Len(t) = 1 /\ t[1] = b
        /\ u \in Strings /\ Len(u) = 2 /\ u[1] = b /\ u[2] = c
        /\ v \in Strings /\ Len(v) = 3 /\ v[1] = b /\ v[2] = c /\ v[3] = d
    BY <1>1, Literals
  <1>3. 1 >= 1 /\ 2 >= 1 /\ 2 >= 2 /\ 3 >= 1 /\ 3 >= 2 /\ 3 >= 3 /\ 1 + 1 = 2 /\ 1 + 2 = 3 /\ 1 + 3 = 4
    OBVIOUS
  <1>4. <<a, b>> = s \o t
    <2>1. s \o t \in Strings /\ Len(s \o t) = 2 /\ (s \o t)[1] = a /\ (s \o t)[2] = b
      BY <1>2, <1>3, AfterOne
    <2>2. PICK w : w = <<a, b>>
      OBVIOUS
    <2>3. w \in Strings /\ Len(w) = 2 /\ w[1] = a /\ w[2] = b
      BY <2>2, Literals
    <2>4. w = s \o t
      BY <2>1, <2>3, ShortStrings
    <2> QED
      BY <2>2, <2>4
  <1>5. <<a, b, c>> = s \o u
    <2>1. /\ s \o u \in Strings /\ Len(s \o u) = 3
          /\ (s \o u)[1] = a /\ (s \o u)[2] = b /\ (s \o u)[3] = c
      BY <1>2, <1>3, AfterOne, 2 \in Nat
    <2>2. PICK w : w = <<a, b, c>>
      OBVIOUS
    <2>3. w \in Strings /\ Len(w) = 3 /\ w[1] = a /\ w[2] = b /\ w[3] = c
      BY <2>2, Literals
    <2>4. w = s \o u
      BY <2>1, <2>3, ShortStrings
    <2> QED
      BY <2>2, <2>4
  <1>6. <<a, b, c, d>> = s \o v
    <2>1. /\ s \o v \in Strings /\ Len(s \o v) = 4
          /\ (s \o v)[1] = a /\ (s \o v)[2] = b /\ (s \o v)[3] = c /\ (s \o v)[4] = d
      BY <1>2, <1>3, AfterOne, 3 \in Nat
    <2>2. PICK w : w = <<a, b, c, d>>
      OBVIOUS
    <2>3. w \in Strings /\ Len(w) = 4 /\ w[1] = a /\ w[2] = b /\ w[3] = c /\ w[4] = d
      BY <2>2, Literals
    <2>4. w = s \o v
      BY <1>3, <2>1, <2>3, ShortStrings
    <2> QED
      BY <2>2, <2>4
  <1> QED
    BY <1>1, <1>4, <1>5, <1>6

(* TrimSpace takes nothing but space away.                                 *)
LEMMA TrimSpaceContains ==
    ASSUME NEW s \in Strings, NEW c, c # Space, Contains(s, c)
    PROVE  Contains(TrimSpace(s), c)
  <1>1. PICK n \in Nat : n = Len(s)
    BY StringFacts
  <1>2. DOMAIN s = 1..n
    BY <1>1, StringFacts
  <1>3. PICK i \in 1..n : s[i] = c
    BY <1>1 DEF Contains
  <1>4. Solid(s) # {}
    BY <1>2, <1>3 DEF Solid
  <1>5. PICK a, b : a = Min(Solid(s)) /\ b = Max(Solid(s))
    OBVIOUS
  <1>6. a \in 1..n /\ b \in 1..n /\ a <= i /\ i <= b
    BY <1>1, <1>3, <1>4, <1>5, SolidFacts
  <1>7. TrimSpace(s) = SubSeq(s, a, b)
    BY <1>4, <1>5 DEF TrimSpace, Solid, Space
  <1>8. /\ a \in Nat \ {0} /\ b \in 0..n /\ a <= b
        /\ i - a + 1 \in 1..(b - a + 1) /\ a + (i - a + 1) - 1 = i
    BY <1>6
  <1>9. /\ Len(SubSeq(s, a, b)) = b - a + 1
        /\ \A j \in 1..(b - a + 1) : SubSeq(s, a, b)[j] = s[a + j - 1]
    BY <1>1, <1>8, SubString
  <1>10. SubSeq(s, a, b)[i - a + 1] = c
    BY <1>3, <1>8, <1>9
  <1> QED
    BY <1>7, <1>8, <1>9, <1>10 DEF Contains

----------------------------------------------------------------------------
(* SplitN.                                                                 *)

(* The first place of a piece divides the string.                          *)
LEMMA FirstPlace ==
    ASSUME NEW s \in Strings, NEW c \in Piece, Contains(s, c)
    PROVE  \E a, b \in Strings : s = a \o (<<c>> \o b) /\ ~Contains(a, c)
  <1> DEFINE places == {i \in 1..Len(s) : s[i] = c}
  <1>1. PICK n \in Nat : n = Len(s)
    BY StringFacts
  <1>2. places # {} /\ places \in SUBSET Nat /\ \A i : i \in places <=> i \in 1..n /\ s[i] = c
    BY <1>1 DEF Contains
  <1>3. PICK p \in 1..n : s[p] = c /\ \A i \in 1..n : s[i] = c => p <= i
    <2> HIDE DEF places
    <2> QED
      BY <1>2, LeastElement
  <1>4. PICK a, b : a = SubSeq(s, 1, p - 1) /\ b = SubSeq(s, p + 1, n)
    OBVIOUS
  <1>5. /\ p - 1 \in 0..n /\ p \in Nat \ {0} /\ p + 1 \in Nat \ {0} /\ n \in 0..n
        /\ (p - 1) - 1 + 1 = p - 1 /\ \A i \in 1..(p - 1) : 1 + i - 1 = i /\ i \in 1..n /\ ~(p <= i)
        /\ (IF 1 <= p - 1 THEN (p - 1) - 1 + 1 ELSE 0) = p - 1
    BY <1>3
  <1>6. /\ a \in Strings /\ Len(a) = p - 1
        /\ \A i \in 1..(p - 1) : a[i] = s[i]
    BY <1>1, <1>4, <1>5, SubString
  <1>7. b \in Strings
    BY <1>1, <1>4, <1>5, SubString
  <1>8. ~Contains(a, c)
    BY <1>3, <1>5, <1>6 DEF Contains
  <1>9. a \o SubSeq(s, p, n) = s
    <2>1. p - 1 + 1 = p /\ 1 \in 1..(n + 1) /\ p - 1 \in 1 - 1..n /\ n \in p - 1..n
      BY <1>5
    <2>2. SubSeq(s, 1, p - 1) \o SubSeq(s, p - 1 + 1, n) = SubSeq(s, 1, n)
      BY <1>1, <2>1, ConcatAdjacentSubSeq DEF Strings
    <2> QED
      BY <1>1, <1>4, <2>1, <2>2, SubSeqFull DEF Strings
  <1>10. SubSeq(s, p, n) = <<c>> \o b
    <2>1. n \in p..n
      BY <1>5
    <2> QED
      BY <1>1, <1>3, <1>4, <2>1, SubSeqRecursiveFirst DEF Strings
  <1> QED
    BY <1>6, <1>7, <1>8, <1>9, <1>10

LEMMA CutAtPiece ==
    ASSUME NEW a \in Strings, NEW b \in Strings, NEW c \in Piece, ~Contains(a, c)
    PROVE  Cut(a \o (<<c>> \o b), <<c>>) = <<a, b>>
  <1>1. PICK n \in Nat, m \in Nat : n = Len(a) /\ m = Len(b)
    BY StringFacts
  <1>2. PICK u : u = <<c>> \o b
    OBVIOUS
  <1>3. u \in Strings /\ Len(u) = 1 + m /\ u[1] = c /\ <<c>> \in Strings /\ Len(<<c>>) = 1
    <2>1. PICK w : w = <<c>>
      OBVIOUS
    <2>2. w \in Strings /\ Len(w) = 1 /\ w[1] = c
      BY <2>1, Literals
    <2> QED
      BY <1>1, <1>2, <2>1, <2>2, AfterOne
  <1>4. PICK s : s = a \o u
    OBVIOUS
  <1>5. /\ s \in Strings /\ Len(s) = n + (1 + m)
        /\ \A i \in 1..n : s[i] = a[i]
        /\ \A i \in 1..(1 + m) : s[n + i] = u[i]
    <2>1. u \in Strings /\ Len(u) = 1 + m
      BY <1>3
    <2>2. PICK k : k = Len(u)
      OBVIOUS
    <2>3. /\ s \in Strings /\ Len(s) = n + k
          /\ \A i \in 1..n : s[i] = a[i]
          /\ \A i \in 1..k : s[n + i] = u[i]
      <3>1. u \in Strings
        BY <2>1
      <3> QED
        BY <1>1, <1>4, <2>2, <3>1, StringFacts
    <2>4. k = 1 + m
      BY <2>1, <2>2
    <2> QED
      BY <2>3, <2>4
  <1>6. PICK p \in Nat : p = n + 1
    OBVIOUS
  <1>7. /\ p \in 1..(n + (1 + m)) /\ 1 \in 1..(1 + m) /\ p - 1 = n
        /\ \A i \in 1..n : i \in 1..(n + (1 + m)) /\ (i \in 1..(p - 1))
        /\ \A i \in 1..(p - 1) : i \in 1..n
    BY <1>6
  <1>8. s[p] = c
    BY <1>3, <1>5, <1>6, <1>7
  <1>9. \A i \in 1..n : s[i] # c
    BY <1>1, <1>5 DEF Contains
  <1>10. IsPrefix(<<c>>, SubSeq(s, p, Len(s)))
    BY <1>5, <1>7, <1>8, BeginsWithOne
  <1>11. \A i \in 1..(p - 1) : ~IsPrefix(<<c>>, SubSeq(s, i, Len(s)))
    BY <1>5, <1>7, <1>9, BeginsWithOne
  <1>12. Cut(s, <<c>>) = <<SubSeq(s, 1, p - 1), SubSeq(s, p + Len(<<c>>), Len(s))>>
    BY <1>5, <1>7, <1>10, <1>11, CutFacts
  <1>13. SubSeq(s, 1, p - 1) = a
    BY <1>1, <1>3, <1>4, <1>7, PartsOfJoin
  <1>14. SubSeq(s, p + Len(<<c>>), Len(s)) = b
    <2>1. PICK w : w = a \o <<c>>
      OBVIOUS
    <2>2. w \in Strings /\ Len(w) = p
      BY <1>1, <1>3, <1>6, <2>1, StringFacts
    <2>3. w \o b = s
      BY <1>2, <1>3, <1>4, <2>1, Associative
    <2>4. SubSeq(s, p + 1, Len(s)) = b
      BY <2>2, <2>3, PartsOfJoin
    <2> QED
      BY <1>3, <2>4
  <1> QED
    BY <1>2, <1>4, <1>12, <1>13, <1>14

LEMMA CutNowhere ==
    ASSUME NEW s \in Strings, NEW c \in Piece, ~Contains(s, c)
    PROVE  Cut(s, <<c>>) = <<s>>
  <1>1. \A i \in 1..Len(s) : s[i] # c
    BY DEF Contains
  <1>2. \A i \in 1..Len(s) : ~IsPrefix(<<c>>, SubSeq(s, i, Len(s)))
    BY <1>1, BeginsWithOne
  <1> QED
    BY <1>2, CutFacts

LEMMA PartsJoined ==
    ASSUME NEW a, NEW x, NEW y
    PROVE  <<a>> \o <<x>> = <<a, x>> /\ <<a>> \o <<x, y>> = <<a, x, y>>
  <1>1. PICK S, t, u, v, w, r :
            /\ S = {a, x, y} /\ t = <<a>> /\ u = <<x>> /\ v = <<x, y>>
            /\ w = <<a, x>> /\ r = <<a, x, y>>
    OBVIOUS
  <1>2. /\ t \in Seq(S) /\ Len(t) = 1 /\ t[1] = a
        /\ u \in Seq(S) /\ Len(u) = 1 /\ u[1] = x
        /\ v \in Seq(S) /\ Len(v) = 2 /\ v[1] = x /\ v[2] = y
        /\ w \in Seq(S) /\ Len(w) = 2 /\ w[1] = a /\ w[2] = x
        /\ r \in Seq(S) /\ Len(r) = 3 /\ r[1] = a /\ r[2] = x /\ r[3] = y
    BY <1>1
  <1>3. t \o u = w
    <2>1. PICK n, m : n = Len(t) /\ m = Len(u)
      OBVIOUS
    <2>2. t \in Seq(S) /\ u \in Seq(S) /\ n \in Nat /\ m \in Nat
      BY <1>2, <2>1
    <2>3. /\ t \o u \in Seq(S) /\ Len(t \o u) = n + m
          /\ \A i \in 1..(n + m) : (t \o u)[i] = IF i <= n THEN t[i] ELSE u[i - n]
      BY <2>1, <2>2, ConcatProperties
    <2>4. n = 1 /\ m = 1
      BY <1>2, <2>1
    <2>5. (t \o u)[1] = a /\ (t \o u)[2] = x /\ Len(t \o u) = 2
      BY <1>2, <2>3, <2>4
    <2>6. \A i \in 1..2 : i = 1 \/ i = 2
      OBVIOUS
    <2> QED
      BY <1>2, <2>3, <2>5, <2>6, SeqEqual
  <1>4. t \o v = r
    <2>1. PICK n, m : n = Len(t) /\ m = Len(v)
      OBVIOUS
    <2>2. t \in Seq(S) /\ v \in Seq(S) /\ n \in Nat /\ m \in Nat
      BY <1>2, <2>1
    <2>3. /\ t \o v \in Seq(S) /\ Len(t \o v) = n + m
          /\ \A i \in 1..(n + m) : (t \o v)[i] = IF i <= n THEN t[i] ELSE v[i - n]
      BY <2>1, <2>2, ConcatProperties
    <2>4. n = 1 /\ m = 2
      BY <1>2, <2>1
    <2>5. (t \o v)[1] = a /\ (t \o v)[2] = x /\ (t \o v)[3] = y /\ Len(t \o v) = 3
      BY <1>2, <2>3, <2>4
    <2>6. \A i \in 1..3 : i = 1 \/ i = 2 \/ i = 3
      OBVIOUS
    <2> QED
      BY <1>2, <2>3, <2>5, <2>6, SeqEqual
  <1> QED
    BY <1>1, <1>3, <1>4

(* Three parts, and where they come from.                                  *)
LEMMA CutTwiceAtPiece ==
    ASSUME NEW a \in Strings, NEW b \in Strings, NEW c \in Piece, ~Contains(a, c)
    PROVE  /\ Contains(b, c) =>
                \E x, y \in Strings : /\ b = x \o (<<c>> \o y) /\ ~Contains(x, c)
                                      /\ CutTwice(a \o (<<c>> \o b), <<c>>) = <<a, x, y>>
           /\ ~Contains(b, c) => CutTwice(a \o (<<c>> \o b), <<c>>) = <<a, b>>
  <1>1. Cut(a \o (<<c>> \o b), <<c>>) = <<a, b>>
    BY CutAtPiece
  <1>2. CutTwice(a \o (<<c>> \o b), <<c>>) = <<a>> \o Cut(b, <<c>>)
    <2>1. PICK parts : parts = Cut(a \o (<<c>> \o b), <<c>>)
      OBVIOUS
    <2>2. Len(parts) # 1 /\ parts[1] = a /\ parts[2] = b
      BY <1>1, <2>1
    <2>3. CutTwice(a \o (<<c>> \o b), <<c>>)
            = IF Len(parts) = 1 THEN parts ELSE <<parts[1]>> \o Cut(parts[2], <<c>>)
      BY <2>1 DEF CutTwice
    <2> QED
      BY <2>2, <2>3
  <1>3. ASSUME Contains(b, c)
        PROVE  \E x, y \in Strings : /\ b = x \o (<<c>> \o y) /\ ~Contains(x, c)
                                     /\ CutTwice(a \o (<<c>> \o b), <<c>>) = <<a, x, y>>
    <2>1. PICK x, y \in Strings : b = x \o (<<c>> \o y) /\ ~Contains(x, c)
      BY <1>3, FirstPlace
    <2>2. Cut(b, <<c>>) = <<x, y>>
      BY <2>1, CutAtPiece
    <2>3. <<a>> \o <<x, y>> = <<a, x, y>>
      BY PartsJoined
    <2> QED
      BY <1>2, <2>1, <2>2, <2>3
  <1>4. ASSUME ~Contains(b, c)
        PROVE  CutTwice(a \o (<<c>> \o b), <<c>>) = <<a, b>>
    <2>1. Cut(b, <<c>>) = <<b>>
      BY <1>4, CutNowhere
    <2>2. <<a>> \o <<b>> = <<a, b>>
      BY PartsJoined
    <2> QED
      BY <1>2, <2>1, <2>2
  <1> QED
    BY <1>3, <1>4

LEMMA CutTwiceNowhere ==
    ASSUME NEW s \in Strings, NEW c \in Piece, ~Contains(s, c)
    PROVE  CutTwice(s, <<c>>) = <<s>>
  BY CutNowhere DEF CutTwice

----------------------------------------------------------------------------
(* Fields.                                                                 *)

(* Where the word that begins at i ends.                                   *)
WordEnds(s, i) == {j \in i..Len(s) + 1 : j = Len(s) + 1 \/ s[j] = Space}

LEMMA WordEnd ==
    ASSUME NEW s \in Strings, NEW n \in Nat, n = Len(s), NEW i \in 1..n
    PROVE  \E e \in i..(n + 1) : /\ e = n + 1 \/ s[e] = Space
                                 /\ \A j \in i..(e - 1) : s[j] # Space
                                 /\ Field(s, i) = SubSeq(s, i, e - 1)
  <1>1. /\ \A j : j \in WordEnds(s, i) <=> j \in i..(n + 1) /\ (j = n + 1 \/ s[j] = Space)
        /\ Field(s, i) = SubSeq(s, i, Min(WordEnds(s, i)) - 1)
    BY DEF WordEnds, Field, Space
  <1>2. n + 1 \in i..(n + 1) /\ (\A j \in i..(n + 1) : j \in Nat)
    OBVIOUS
  <1>3. WordEnds(s, i) \in SUBSET Nat /\ WordEnds(s, i) # {}
    BY <1>1, <1>2
  <1>4. PICK m : m = Min(WordEnds(s, i))
    OBVIOUS
  <1>5. m \in WordEnds(s, i) /\ \A j \in WordEnds(s, i) : m <= j
    BY <1>3, <1>4, LeastElement
  <1>6. m \in i..(n + 1) /\ (m = n + 1 \/ s[m] = Space)
    BY <1>1, <1>5
  <1>7. ASSUME NEW j \in i..(m - 1) PROVE s[j] # Space
    <2>1. j \in i..(n + 1) /\ ~(m <= j)
      BY <1>6, <1>7
    <2> QED
      BY <1>1, <1>5, <2>1
  <1> QED
    BY <1>1, <1>4, <1>6, <1>7

LEMMA FieldIs ==
    ASSUME NEW s \in Strings, NEW n \in Nat, n = Len(s), NEW i \in 1..n,
           NEW e \in i..(n + 1), e = n + 1 \/ s[e] = Space, \A j \in i..(e - 1) : s[j] # Space
    PROVE  Field(s, i) = SubSeq(s, i, e - 1)
  <1>1. PICK m \in i..(n + 1) : /\ m = n + 1 \/ s[m] = Space
                                /\ \A j \in i..(m - 1) : s[j] # Space
                                /\ Field(s, i) = SubSeq(s, i, m - 1)
    BY WordEnd
  <1>2. ASSUME m < e PROVE FALSE
    <2>1. m \in i..(e - 1) /\ m # n + 1
      BY <1>2
    <2> QED
      BY <1>1, <2>1
  <1>3. ASSUME e < m PROVE FALSE
    <2>1. e \in i..(m - 1) /\ e # n + 1
      BY <1>3
    <2> QED
      BY <1>1, <2>1
  <1>4. m = e
    BY <1>2, <1>3
  <1> QED
    BY <1>1, <1>4

(* A string without a space is one word.                                   *)
LEMMA OneWord ==
    ASSUME NEW w \in Strings, w # << >>, ~Contains(w, Space)
    PROVE  Fields(w) = {1} /\ Field(w, 1) = w
  <1>1. PICK n : n = Len(w)
    OBVIOUS
  <1>2. n \in Nat /\ n >= 1 /\ DOMAIN w = 1..n
    BY <1>1, StringFacts, EmptySeq DEF Strings
  <1>3. \A i \in 1..n : w[i] # Space
    BY <1>1 DEF Contains
  <1>4. \A i : i \in Fields(w) <=> i \in 1..n /\ w[i] # Space /\ (i = 1 \/ w[i - 1] = Space)
    BY <1>2 DEF Fields, Space
  <1>5. \A i \in 1..n : i = 1 \/ i - 1 \in 1..n
    BY <1>2
  <1>6. Fields(w) = {1}
    BY <1>2, <1>3, <1>4, <1>5
  <1>7. 1 \in 1..n /\ n + 1 \in 1..(n + 1) /\ n + 1 - 1 = n
    BY <1>2
  <1>8. Field(w, 1) = SubSeq(w, 1, n)
    <2>1. \A j \in 1..(n + 1 - 1) : w[j] # Space
      BY <1>3, <1>7
    <2>2. Field(w, 1) = SubSeq(w, 1, n + 1 - 1)
      BY <1>1, <1>2, <1>7, <2>1, FieldIs
    <2> QED
      BY <1>7, <2>2
  <1> QED
    BY <1>1, <1>6, <1>8, SubSeqFull DEF Strings

(* A word, a space and a rest: the word, and then the words of the rest.   *)
Spaced(w, r) == w \o (<<Space>> \o r)

LEMMA WordsOfSpaced ==
    ASSUME NEW w \in Strings, w # << >>, ~Contains(w, Space), NEW r \in Strings
    PROVE  \E s \in Strings, k \in Nat :
              /\ s = Spaced(w, r) /\ k >= 2
              /\ \A i : i \in Fields(s) <=> i = 1 \/ \E j \in Fields(r) : i = k + j
              /\ Field(s, 1) = w
              /\ \A j \in Fields(r) : Field(s, k + j) = Field(r, j)
  <1>0. PICK s, k : s = w \o (<<Space>> \o r) /\ k = Len(w) + 1
    OBVIOUS
  <1>1. PICK n, m : n = Len(w) /\ m = Len(r)
    OBVIOUS
  <1>2. n \in Nat /\ n >= 1 /\ m \in Nat /\ DOMAIN r = 1..m
    BY <1>1, StringFacts, EmptySeq DEF Strings
  <1>3. PICK u : u = <<Space>> \o r
    OBVIOUS
  <1>4. /\ u \in Strings /\ Len(u) = 1 + m /\ u[1] = Space
        /\ \A i \in 1..m : u[1 + i] = r[i]
    <2>1. PICK v, l : v = <<Space>> /\ l = Len(v)
      OBVIOUS
    <2>2. v \in Strings /\ l = 1 /\ v[1] = Space
      <3>1. Space \in Piece
        BY DEF Space, Piece, Literal
      <3> QED
        BY <2>1, <3>1, Literals
    <2>3. /\ u \in Strings /\ Len(u) = l + m
          /\ \A i \in 1..l : u[i] = v[i]
          /\ \A i \in 1..m : u[l + i] = r[i]
      <3>1. v \in Strings /\ u = v \o r
        BY <1>3, <2>1, <2>2
      <3>2. l = Len(v)
        BY <2>1
      <3>3. /\ v \o r \in Strings /\ Len(v \o r) = Len(v) + Len(r)
            /\ \A i \in 1..Len(v) : (v \o r)[i] = v[i]
            /\ \A i \in 1..Len(r) : (v \o r)[Len(v) + i] = r[i]
        BY <3>1, StringFacts, Zenon
      <3> QED
        BY <1>1, <3>1, <3>2, <3>3, Zenon
    <2>4. 1 \in 1..1
      OBVIOUS
    <2> QED
      BY <2>2, <2>3, <2>4
  <1>5. /\ s \in Strings /\ Len(s) = k + m
        /\ \A i \in 1..n : s[i] = w[i]
        /\ s[k] = Space
        /\ \A i \in 1..m : s[k + i] = r[i]
    <2>1. PICK l : l = Len(u)
      OBVIOUS
    <2>2. /\ s \in Strings /\ Len(s) = n + l
          /\ \A i \in 1..n : s[i] = w[i]
          /\ \A i \in 1..l : s[n + i] = u[i]
      <3>1. u \in Strings /\ s = w \o u
        BY <1>0, <1>3, <1>4
      <3> QED
        BY <1>1, <2>1, <3>1, StringFacts
    <2>3. /\ l = 1 + m /\ k = n + 1
      BY <1>0, <1>1, <1>4, <2>1
    <2>4. /\ n + l = k + m /\ 1 \in 1..l /\ n + 1 = k
          /\ \A i \in 1..m : 1 + i \in 1..l /\ n + (1 + i) = k + i
      <3>1. /\ n + (1 + m) = n + 1 + m /\ 1 \in 1..(1 + m)
            /\ \A i \in 1..m : 1 + i \in 1..(1 + m) /\ n + (1 + i) = n + 1 + i
        BY <1>2
      <3> QED
        BY <2>3, <3>1
    <2>5. s[k] = Space
      BY <1>4, <2>2, <2>4
    <2>6. \A i \in 1..m : s[k + i] = r[i]
      BY <1>4, <2>2, <2>4
    <2> QED
      BY <2>2, <2>4, <2>5, <2>6
  <1>6. k \in Nat /\ k >= 2 /\ k = n + 1
    BY <1>0, <1>1, <1>2
  <1>7. \A i \in 1..n : s[i] # Space
    BY <1>1, <1>5 DEF Contains
  <1>8. DOMAIN s = 1..(k + m)
    BY <1>5, StringFacts
  <1>9. /\ \A i : i \in Fields(s) <=> i \in 1..(k + m) /\ s[i] # Space /\ (i = 1 \/ s[i - 1] = Space)
        /\ \A i : i \in Fields(r) <=> i \in 1..m /\ r[i] # Space /\ (i = 1 \/ r[i - 1] = Space)
    BY <1>2, <1>8 DEF Fields, Space
  <1>10. \A i : i \in Fields(s) <=> i = 1 \/ \E j \in Fields(r) : i = k + j
    <2>1. 1 \in Fields(s)
      <3>1. 1 \in 1..(k + m) /\ 1 \in 1..n
        BY <1>2, <1>6
      <3> QED
        BY <1>7, <1>9, <3>1
    <2>2. ASSUME NEW j \in Fields(r) PROVE k + j \in Fields(s)
      <3>1. j \in 1..m /\ r[j] # Space /\ (j = 1 \/ r[j - 1] = Space)
        BY <1>9
      <3>2. k + j \in 1..(k + m) /\ (j # 1 => j - 1 \in 1..m /\ (k + j) - 1 = k + (j - 1))
            /\ (j = 1 => (k + j) - 1 = k)
        BY <1>2, <1>6, <3>1
      <3>3. s[(k + j) - 1] = Space
        BY <1>5, <3>1, <3>2
      <3>4. s[k + j] # Space
        BY <1>5, <3>1
      <3> QED
        BY <1>9, <3>2, <3>3, <3>4, Zenon
    <2>3. ASSUME NEW i \in Fields(s), i # 1 PROVE \E j \in Fields(r) : i = k + j
      <3>1. i \in 1..(k + m) /\ s[i] # Space /\ s[i - 1] = Space
        BY <1>9, <2>3
      <3>2. i \in 1..n => i - 1 \in 1..n
        BY <1>2, <2>3
      <3>3. ~(i \in 1..n) /\ i # k
        BY <1>5, <1>7, <3>1, <3>2
      <3>4. PICK j : j = i - k
        OBVIOUS
      <3>5. j \in 1..m /\ i = k + j /\ (j # 1 => j - 1 \in 1..m /\ i - 1 = k + (j - 1))
        <4>1. i \in 1..(k + m) /\ ~(i \in 1..n) /\ i # k /\ j = i - k
          BY <3>1, <3>3, <3>4
        <4> QED
          BY <1>2, <1>6, <4>1
      <3>6. r[j] # Space /\ (j = 1 \/ r[j - 1] = Space)
        BY <1>5, <3>1, <3>5
      <3> QED
        BY <1>9, <3>5, <3>6
    <2> QED
      BY <2>1, <2>2, <2>3
  <1>11. Field(s, 1) = w
    <2>1. 1 \in 1..(k + m) /\ k \in 1..((k + m) + 1) /\ k + m \in Nat /\ k - 1 = n
          /\ \A j \in 1..(k - 1) : j \in 1..n
      BY <1>2, <1>6
    <2>2. Field(s, 1) = SubSeq(s, 1, k - 1)
      <3>1. PICK t \in Nat : t = k + m
        BY <2>1
      <3>2. /\ s \in Strings /\ t = Len(s) /\ 1 \in 1..t /\ k \in 1..(t + 1)
            /\ s[k] = Space /\ \A j \in 1..(k - 1) : s[j] # Space
        BY <1>5, <1>7, <2>1, <3>1
      <3> QED
        BY <3>1, <3>2, FieldIs
    <2> QED
      BY <1>0, <1>1, <1>3, <1>4, <2>1, <2>2, PartsOfJoin
  <1>12. ASSUME NEW j \in Fields(r) PROVE Field(s, k + j) = Field(r, j)
    <2>1. j \in 1..m /\ r[j] # Space
      BY <1>9
    <2>2. PICK e \in j..(m + 1) : /\ e = m + 1 \/ r[e] = Space
                                  /\ \A i \in j..(e - 1) : r[i] # Space
                                  /\ Field(r, j) = SubSeq(r, j, e - 1)
      <3>1. m \in Nat /\ m = Len(r) /\ j \in 1..m
        BY <1>1, <1>2, <2>1
      <3> QED
        BY <3>1, WordEnd, Zenon
    <2>3. e # j
      BY <1>2, <2>1, <2>2
    <2>4. /\ k + m \in Nat /\ k + j \in 1..(k + m) /\ k + e \in (k + j)..((k + m) + 1)
          /\ (e = m + 1 => k + e = (k + m) + 1)
          /\ (e # m + 1 => e \in 1..m)
      BY <1>2, <1>6, <2>1, <2>2
    <2>5. \A i \in (k + j)..((k + e) - 1) :
             i - k \in j..(e - 1) /\ i - k \in 1..m /\ k + (i - k) = i
      <3>1. k \in Nat /\ m \in Nat /\ j \in 1..m /\ e \in j..(m + 1)
        BY <1>2, <1>6, <2>1, <2>2
      <3> QED
        BY <3>1
    <2>6. k + e = (k + m) + 1 \/ s[k + e] = Space
      BY <1>5, <2>2, <2>4
    <2>7. Field(s, k + j) = SubSeq(s, k + j, (k + e) - 1)
      <3>1. PICK t, x, y : t = k + m /\ x = k + j /\ y = k + e
        OBVIOUS
      <3>2. ASSUME NEW i \in x..(y - 1) PROVE s[i] # Space
        <4>1. i \in (k + j)..((k + e) - 1)
          BY <3>1, <3>2
        <4>2. i - k \in j..(e - 1) /\ i - k \in 1..m /\ k + (i - k) = i
          BY <2>5, <4>1, Zenon
        <4>3. s[k + (i - k)] = r[i - k] /\ r[i - k] # Space
          BY <1>5, <2>2, <4>2, Zenon
        <4> QED
          BY <4>2, <4>3
      <3>3. /\ s \in Strings /\ t \in Nat /\ t = Len(s) /\ x \in 1..t /\ y \in x..(t + 1)
            /\ y = t + 1 \/ s[y] = Space
        BY <1>5, <2>4, <2>6, <3>1
      <3>4. Field(s, x) = SubSeq(s, x, y - 1)
        BY <3>2, <3>3, FieldIs, Zenon
      <3> QED
        BY <3>1, <3>4
    <2>8. SubSeq(s, k + j, (k + e) - 1) = SubSeq(r, j, e - 1)
      <3>1. PICK v : v = w \o <<Space>>
        OBVIOUS
      <3>2. v \in Strings /\ Len(v) = k /\ v \o r = s
        <4>1. Space \in Piece
          BY DEF Space, Piece, Literal
        <4>2. <<Space>> \in Strings /\ Len(<<Space>>) = 1
          BY <4>1, Literals
        <4> QED
          BY <1>0, <1>1, <1>6, <3>1, <4>2, StringFacts, Associative
      <3>3. /\ k + j \in (k + 1)..(k + m) /\ (k + e) - 1 \in (k + 1)..(k + m)
            /\ (k + j) - k = j /\ ((k + e) - 1) - k = e - 1
        BY <1>2, <1>6, <2>1, <2>2, <2>3
      <3>4. PICK x, y : x = k + j /\ y = (k + e) - 1
        OBVIOUS
      <3>5. SubSeq(v \o r, x, y) = SubSeq(r, x - k, y - k)
        <4>1. /\ v \in Seq(Piece) /\ r \in Seq(Piece) /\ k = Len(v) /\ m = Len(r)
              /\ x \in k + 1..k + m /\ y \in k + 1..k + m
          BY <1>1, <3>2, <3>3, <3>4 DEF Strings
        <4> QED
          BY <4>1, SubSeqOfConcat2, Zenon
      <3> QED
        BY <3>2, <3>3, <3>4, <3>5
    <2> QED
      BY <2>2, <2>7, <2>8
  <1> QED
    BY <1>0, <1>5, <1>6, <1>10, <1>11, <1>12, Zenon DEF Spaced

LEMMA FieldsAreNumbers ==
    ASSUME NEW s \in Strings PROVE Fields(s) \in SUBSET Nat
  <1>1. Len(s) \in Nat /\ DOMAIN s = 1..Len(s)
    BY StringFacts
  <1>2. \A j \in 1..Len(s) : j \in Nat
    BY <1>1
  <1>3. \A j \in Fields(s) : j \in DOMAIN s
    BY DEF Fields
  <1> QED
    BY <1>1, <1>2, <1>3

(* The first word.                                                         *)
FirstWord(s) == Field(s, Min(Fields(s)))

LEMMA LeastIs ==
    ASSUME NEW S \in SUBSET Nat, NEW p \in S, \A x \in S : p <= x
    PROVE  Min(S) = p
  <1>1. S # {}
    OBVIOUS
  <1>2. Min(S) \in S /\ \A x \in S : Min(S) <= x
    BY <1>1, LeastElement
  <1>3. PICK m : m = Min(S)
    OBVIOUS
  <1>4. m \in Nat /\ p \in Nat /\ m <= p /\ p <= m
    BY <1>2, <1>3
  <1> QED
    BY <1>3, <1>4

LEMMA FirstOfOne ==
    ASSUME NEW w \in Strings, w # << >>, ~Contains(w, Space)
    PROVE  FirstWord(w) = w
  <1>1. Fields(w) = {1} /\ Field(w, 1) = w
    BY OneWord
  <1>2. Min({1}) = 1
    <2>1. {1} \in SUBSET Nat /\ 1 \in {1} /\ \A x \in {1} : 1 <= x
      OBVIOUS
    <2> QED
      BY <2>1, LeastIs
  <1> QED
    BY <1>1, <1>2 DEF FirstWord

LEMMA FirstOfSpaced ==
    ASSUME NEW w \in Strings, w # << >>, ~Contains(w, Space), NEW r \in Strings
    PROVE  FirstWord(Spaced(w, r)) = w
  <1>1. PICK s \in Strings, k \in Nat :
              /\ s = Spaced(w, r) /\ k >= 2
              /\ \A i : i \in Fields(s) <=> i = 1 \/ \E j \in Fields(r) : i = k + j
              /\ Field(s, 1) = w
    BY WordsOfSpaced
  <1>2. \A j \in Fields(r) : j \in Nat
    BY FieldsAreNumbers
  <1>3. Min(Fields(s)) = 1
    <2>1. 1 \in Fields(s)
      BY <1>1
    <2>2. \A i \in Fields(s) : i \in Nat /\ 1 <= i
      BY <1>1, <1>2
    <2> QED
      BY <2>1, <2>2, LeastIs
  <1> QED
    BY <1>1, <1>3 DEF FirstWord

(* The option after a flag: it is the word that follows, if there is one;  *)
(* a word that is not the flag is passed over.                             *)
LEMMA FlagOfOne ==
    ASSUME NEW w \in Strings, w # << >>, ~Contains(w, Space), NEW flag
    PROVE  ExtractFlag(w, flag) = << >>
  <1>1. Fields(w) = {1}
    BY OneWord
  <1>2. WordsAfter(w, 1) = {}
    BY <1>1 DEF WordsAfter
  <1>3. Flags(w, flag) = {}
    BY <1>1, <1>2 DEF Flags
  <1> QED
    BY <1>3 DEF ExtractFlag

LEMMA LeastShifted ==
    ASSUME NEW S \in SUBSET Nat, S # {}, NEW k \in Nat, NEW T,
           \A i : i \in T <=> \E j \in S : i = k + j
    PROVE  T # {} /\ Min(S) \in S /\ Min(T) = k + Min(S)
  <1>1. Min(S) \in S /\ \A j \in S : Min(S) <= j
    BY LeastElement
  <1>2. PICK m : m = Min(S)
    OBVIOUS
  <1>3. m \in Nat /\ k + m \in T
    BY <1>1, <1>2
  <1>4. \A i \in T : i \in Nat /\ k + m <= i
    BY <1>1, <1>2, <1>3
  <1>5. Min(T) = k + m
    BY <1>3, <1>4, LeastIs
  <1> QED
    BY <1>1, <1>2, <1>3, <1>5

LEMMA FlagFound ==
    ASSUME NEW flag \in Piece, flag # Space, NEW r \in Strings, Fields(r) # {}
    PROVE  ExtractFlag(Spaced(<<flag>>, r), flag) = FirstWord(r)
  <1>0. PICK w : w = <<flag>>
    OBVIOUS
  <1>1. w \in Strings /\ w # << >> /\ ~Contains(w, Space)
    <2>1. <<flag>> \in Strings /\ <<flag>> # << >>
      BY Literals
    <2> QED
      BY <1>0, <2>1, ContainsOfOne
  <1>2. PICK s \in Strings, k \in Nat :
              /\ s = Spaced(w, r) /\ k >= 2
              /\ \A i : i \in Fields(s) <=> i = 1 \/ \E j \in Fields(r) : i = k + j
              /\ Field(s, 1) = w
              /\ \A j \in Fields(r) : Field(s, k + j) = Field(r, j)
    BY <1>1, WordsOfSpaced
  <1>3. Fields(r) \in SUBSET Nat /\ Fields(s) \in SUBSET Nat
    BY FieldsAreNumbers
  <1>4. \A i : i \in WordsAfter(s, 1) <=> \E j \in Fields(r) : i = k + j
    <2>1. \A j \in Fields(r) : k + j > 1
      BY <1>2, <1>3
    <2> QED
      BY <1>2, <2>1 DEF WordsAfter
  <1>5. /\ WordsAfter(s, 1) # {} /\ Min(Fields(r)) \in Fields(r)
        /\ Min(WordsAfter(s, 1)) = k + Min(Fields(r))
    BY <1>3, <1>4, LeastShifted
  <1>6. 1 \in Flags(s, flag)
    BY <1>0, <1>2, <1>5 DEF Flags
  <1>7. Min(Flags(s, flag)) = 1
    <2>1. \A i \in Flags(s, flag) : i \in Nat /\ 1 <= i
      BY <1>2, <1>3 DEF Flags
    <2> QED
      BY <1>6, <2>1, LeastIs
  <1>8. ExtractFlag(s, flag) = Field(s, Min(WordsAfter(s, Min(Flags(s, flag)))))
    BY <1>6 DEF ExtractFlag
  <1>9. ExtractFlag(s, flag) = Field(r, Min(Fields(r)))
    BY <1>2, <1>5, <1>7, <1>8
  <1> QED
    BY <1>0, <1>2, <1>9 DEF FirstWord

LEMMA FlagPassed ==
    ASSUME NEW w \in Strings, w # << >>, ~Contains(w, Space), NEW r \in Strings,
           NEW flag, w # <<flag>>
    PROVE  ExtractFlag(Spaced(w, r), flag) = ExtractFlag(r, flag)
  <1>2. PICK s \in Strings, k \in Nat :
              /\ s = Spaced(w, r) /\ k >= 2
              /\ \A i : i \in Fields(s) <=> i = 1 \/ \E j \in Fields(r) : i = k + j
              /\ Field(s, 1) = w
              /\ \A j \in Fields(r) : Field(s, k + j) = Field(r, j)
    BY WordsOfSpaced
  <1>3. Fields(r) \in SUBSET Nat
    BY FieldsAreNumbers
  <1>4. ASSUME NEW j \in Fields(r)
        PROVE  /\ WordsAfter(r, j) \in SUBSET Nat
               /\ \A i : i \in WordsAfter(s, k + j) <=> \E l \in WordsAfter(r, j) : i = k + l
    <2>1. \A l \in Fields(r) : (k + l > k + j <=> l > j) /\ ~(1 > k + j)
      BY <1>2, <1>3
    <2> QED
      BY <1>2, <1>3, <2>1 DEF WordsAfter
  <1>5. \A j \in Fields(r) : WordsAfter(s, k + j) # {} <=> WordsAfter(r, j) # {}
    BY <1>4
  <1>6. \A i : i \in Flags(s, flag) <=> \E j \in Flags(r, flag) : i = k + j
    BY <1>2, <1>5 DEF Flags
  <1>7. CASE Flags(r, flag) = {}
    BY <1>2, <1>6, <1>7 DEF ExtractFlag
  <1>8. CASE Flags(r, flag) # {}
    <2>1. Flags(r, flag) \in SUBSET Nat
      BY <1>3 DEF Flags
    <2>2. PICK m : m = Min(Flags(r, flag))
      OBVIOUS
    <2>3. Flags(s, flag) # {} /\ m \in Flags(r, flag) /\ Min(Flags(s, flag)) = k + m
      BY <1>6, <1>8, <2>1, <2>2, LeastShifted
    <2>4. m \in Fields(r) /\ WordsAfter(r, m) # {}
      BY <2>3 DEF Flags
    <2>5. /\ Min(WordsAfter(r, m)) \in WordsAfter(r, m)
          /\ Min(WordsAfter(s, k + m)) = k + Min(WordsAfter(r, m))
      BY <1>4, <2>4, LeastShifted
    <2>6. Min(WordsAfter(r, m)) \in Fields(r)
      BY <2>5 DEF WordsAfter
    <2>7. ExtractFlag(s, flag) = Field(s, Min(WordsAfter(s, k + m)))
      BY <2>3 DEF ExtractFlag
    <2>8. ExtractFlag(r, flag) = Field(r, Min(WordsAfter(r, m)))
      BY <1>8, <2>2 DEF ExtractFlag
    <2> QED
      BY <1>2, <2>5, <2>6, <2>7, <2>8
  <1> QED
    BY <1>7, <1>8

LEMMA SomeWord ==
    ASSUME NEW w \in Strings, w # << >>, ~Contains(w, Space), NEW r \in Strings
    PROVE  Fields(w) # {} /\ Fields(Spaced(w, r)) # {}
  BY OneWord, WordsOfSpaced

----------------------------------------------------------------------------
(* A separator of two pieces.                                              *)

HasPair(s, c, d) == \E i \in 1..Len(s) : i + 1 <= Len(s) /\ s[i] = c /\ s[i + 1] = d

LEMMA PairNeedsBoth ==
    \A s, c, d : s \in Strings /\ HasPair(s, c, d) => Contains(s, c) /\ Contains(s, d)
  BY StringFacts DEF HasPair, Contains

LEMMA CutWithoutPair ==
    ASSUME NEW s \in Strings, NEW c \in Piece, NEW d \in Piece, ~HasPair(s, c, d)
    PROVE  Cut(s, <<c, d>>) = <<s>>
  <1>1. \A i \in 1..Len(s) : ~IsPrefix(<<c, d>>, SubSeq(s, i, Len(s)))
    BY BeginsWithTwo DEF HasPair
  <1> QED
    BY <1>1, CutFacts

(* The places of a join, by its parts.                                     *)
LEMMA PlacesOfJoin ==
    ASSUME NEW a \in Strings, NEW b \in Strings
    PROVE  \E s \in Strings, n \in Nat, m \in Nat :
              /\ s = a \o b /\ n = Len(a) /\ m = Len(b) /\ Len(s) = n + m
              /\ \A i \in 1..n : s[i] = a[i]
              /\ \A i \in 1..m : s[n + i] = b[i]
  <1>1. PICK s, n, m : s = a \o b /\ n = Len(a) /\ m = Len(b)
    OBVIOUS
  <1>2. /\ s \in Strings /\ n \in Nat /\ m \in Nat /\ Len(s) = n + m
        /\ \A i \in 1..n : s[i] = a[i]
        /\ \A i \in 1..m : s[n + i] = b[i]
    BY <1>1, StringFacts
  <1> QED
    BY <1>1, <1>2, Zenon

(* No pair in the parts, and none where they meet.                         *)
LEMMA NoPairInJoin ==
    ASSUME NEW a \in Strings, NEW b \in Strings, NEW c, NEW d,
           ~HasPair(a, c, d), ~HasPair(b, c, d),
           Len(a) >= 1, Len(b) >= 1 => (a[Len(a)] # c \/ b[1] # d)
    PROVE  ~HasPair(a \o b, c, d)
  <1>1. PICK s \in Strings, n \in Nat, m \in Nat :
              /\ s = a \o b /\ n = Len(a) /\ m = Len(b) /\ Len(s) = n + m
              /\ \A i \in 1..n : s[i] = a[i]
              /\ \A i \in 1..m : s[n + i] = b[i]
    BY PlacesOfJoin
  <1>2. SUFFICES ASSUME NEW i \in 1..(n + m), i + 1 <= n + m, s[i] = c, s[i + 1] = d
                 PROVE  FALSE
    BY <1>1 DEF HasPair
  <1>3. CASE i + 1 <= n
    <2>1. i \in 1..n /\ i + 1 \in 1..n
      BY <1>3
    <2>2. a[i] = c /\ a[i + 1] = d
      BY <1>1, <1>2, <2>1
    <2> QED
      BY <1>1, <1>3, <2>1, <2>2 DEF HasPair
  <1>4. CASE i = n
    <2>1. n \in 1..n /\ 1 \in 1..m /\ n >= 1 /\ m >= 1
      BY <1>2, <1>4
    <2>2. s[n] = a[n] /\ s[n + 1] = b[1]
      BY <1>1, <2>1
    <2> QED
      BY <1>1, <1>2, <1>4, <2>1, <2>2
  <1>5. CASE i > n
    <2>1. PICK j : j = i - n
      OBVIOUS
    <2>2. j \in 1..m /\ j + 1 \in 1..m /\ j + 1 <= m /\ n + j = i /\ n + (j + 1) = i + 1
      BY <1>2, <1>5, <2>1
    <2>3. b[j] = c /\ b[j + 1] = d
      BY <1>1, <1>2, <2>2
    <2> QED
      BY <1>1, <2>2, <2>3 DEF HasPair
  <1> QED
    BY <1>3, <1>4, <1>5

LEMMA CutAtPair ==
    ASSUME NEW a \in Strings, NEW b \in Strings, NEW c \in Piece, NEW d \in Piece, c # d,
           ~HasPair(a, c, d)
    PROVE  Cut(a \o (<<c, d>> \o b), <<c, d>>) = <<a, b>>
  <1>1. PICK w : w = <<c, d>>
    OBVIOUS
  <1>2. w \in Strings
    BY <1>1, Literals
  <1>2a. Len(w) = 2 /\ w[1] = c /\ w[2] = d
    BY <1>1, Literals
  <1>2b. (a \o w) \o b = a \o (w \o b)
    BY <1>2, Associative
  <1>3. PICK u \in Strings, l \in Nat, m \in Nat :
              /\ u = w \o b /\ l = Len(w) /\ m = Len(b) /\ Len(u) = l + m
              /\ \A i \in 1..l : u[i] = w[i]
              /\ \A i \in 1..m : u[l + i] = b[i]
    BY <1>2, PlacesOfJoin, Zenon
  <1>4. Len(u) = 2 + m /\ u[1] = c /\ u[2] = d
    BY <1>2a, <1>3
  <1>5. PICK s \in Strings, n \in Nat, k \in Nat :
              /\ s = a \o u /\ n = Len(a) /\ k = Len(u) /\ Len(s) = n + k
              /\ \A i \in 1..n : s[i] = a[i]
              /\ \A i \in 1..k : s[n + i] = u[i]
    BY PlacesOfJoin
  <1>6. k = 2 + m
    BY <1>4, <1>5
  <1>7. PICK p \in Nat : p = n + 1
    OBVIOUS
  <1>8. /\ p \in 1..(n + k) /\ p - 1 = n /\ p + 1 <= n + k /\ 1 \in 1..k /\ 2 \in 1..k
        /\ n + 2 = p + 1
        /\ \A i \in 1..(p - 1) : i \in 1..n /\ i \in 1..(n + k) /\ (i + 1 <= n \/ i + 1 = p)
    BY <1>6, <1>7
  <1>9. s[p] = c /\ s[p + 1] = d
    BY <1>4, <1>5, <1>7, <1>8
  <1>10. IsPrefix(<<c, d>>, SubSeq(s, p, Len(s)))
    <2>1. s \in Strings /\ p \in 1..Len(s) /\ p + 1 <= Len(s)
      BY <1>5, <1>8
    <2> QED
      BY <1>9, <2>1, BeginsWithTwo
  <1>11. ASSUME NEW i \in 1..(p - 1) PROVE ~IsPrefix(<<c, d>>, SubSeq(s, i, Len(s)))
    <2>1. i \in 1..Len(s) /\ i \in 1..n
      BY <1>5, <1>8, <1>11
    <2>2. ASSUME s[i] = c, s[i + 1] = d PROVE FALSE
      <3>1. i + 1 <= n
        BY <1>8, <1>9, <1>11, <2>2
      <3>2. i + 1 \in 1..n
        BY <2>1, <3>1
      <3>3. a[i] = c /\ a[i + 1] = d
        BY <1>5, <2>1, <2>2, <3>2
      <3> QED
        BY <1>5, <2>1, <3>1, <3>3 DEF HasPair
    <2> QED
      BY <2>1, <2>2, BeginsWithTwo
  <1>12. Cut(s, <<c, d>>) = <<SubSeq(s, 1, p - 1), SubSeq(s, p + Len(<<c, d>>), Len(s))>>
    BY <1>5, <1>8, <1>10, <1>11, CutFacts
  <1>13. SubSeq(s, 1, p - 1) = a
    BY <1>5, <1>8, PartsOfJoin
  <1>14. SubSeq(s, p + Len(<<c, d>>), Len(s)) = b
    <2>1. PICK v \in Strings, x \in Nat, y \in Nat :
                /\ v = a \o w /\ x = Len(a) /\ y = Len(w) /\ Len(v) = x + y
                /\ \A i \in 1..x : v[i] = a[i]
                /\ \A i \in 1..y : v[x + i] = w[i]
      BY <1>2, PlacesOfJoin, Zenon
    <2>2. v \o b = s
      BY <1>3, <1>5, <1>2b, <2>1
    <2>3. SubSeq(s, Len(v) + 1, Len(s)) = b
      BY <2>1, <2>2, PartsOfJoin
    <2>4. Len(v) + 1 = p + 2
      <3>1. x = n /\ y = 2
        BY <1>2a, <1>5, <2>1
      <3> QED
        BY <1>7, <2>1, <3>1
    <2> QED
      BY <1>1, <1>2a, <2>3, <2>4
  <1> QED
    BY <1>1, <1>3, <1>5, <1>12, <1>13, <1>14

(* The first place of a pair divides the string.                           *)
LEMMA FirstPair ==
    ASSUME NEW s \in Strings, NEW c \in Piece, NEW d \in Piece, HasPair(s, c, d)
    PROVE  \E a, b \in Strings : s = a \o (<<c, d>> \o b) /\ ~HasPair(a, c, d)
  <1> DEFINE places == {i \in 1..Len(s) : i + 1 <= Len(s) /\ s[i] = c /\ s[i + 1] = d}
  <1>1. PICK n \in Nat : n = Len(s)
    BY StringFacts
  <1>2. /\ places # {} /\ places \in SUBSET Nat
        /\ \A i : i \in places <=> i \in 1..n /\ i + 1 <= n /\ s[i] = c /\ s[i + 1] = d
    <2>1. places # {}
      BY DEF HasPair
    <2>2. \A i : i \in places <=> i \in 1..n /\ i + 1 <= n /\ s[i] = c /\ s[i + 1] = d
      BY <1>1
    <2>3. \A i \in 1..n : i \in Nat
      OBVIOUS
    <2> QED
      BY <2>1, <2>2, <2>3
  <1>3. PICK p : p \in places /\ \A i \in places : p <= i
    <2> HIDE DEF places
    <2> QED
      BY <1>2, LeastElement
  <1>4. p \in 1..n /\ p + 1 \in 1..n /\ s[p] = c /\ s[p + 1] = d
    BY <1>2, <1>3
  <1> HIDE DEF places
  <1>5. PICK a, b : a = SubSeq(s, 1, p - 1) /\ b = SubSeq(s, p + 2, n)
    OBVIOUS
  <1>6. /\ p - 1 \in 0..n /\ p + 2 \in Nat \ {0} /\ n \in 0..n
        /\ (p - 1) - 1 + 1 = p - 1 /\ \A i \in 1..(p - 1) : 1 + i - 1 = i
        /\ (IF 1 <= p - 1 THEN (p - 1) - 1 + 1 ELSE 0) = p - 1
        /\ \A i \in 1..(p - 1) : i \in 1..n /\ ~(p <= i)
        /\ \A i \in 1..(p - 1) : i + 1 <= p - 1 => i + 1 \in 1..(p - 1) /\ i + 1 <= n
    BY <1>4
  <1>7. /\ a \in Strings /\ Len(a) = p - 1
        /\ \A i \in 1..(p - 1) : a[i] = s[i]
    BY <1>1, <1>5, <1>6, SubString
  <1>8. b \in Strings
    BY <1>1, <1>5, <1>6, SubString
  <1>9. ~HasPair(a, c, d)
    <2>1. SUFFICES ASSUME NEW i \in 1..(p - 1), i + 1 <= p - 1, a[i] = c, a[i + 1] = d
                   PROVE  FALSE
      BY <1>7 DEF HasPair
    <2>2. s[i] = c /\ s[i + 1] = d
      BY <1>6, <1>7, <2>1
    <2>3. i \in places
      BY <1>2, <1>6, <2>1, <2>2
    <2> QED
      BY <1>3, <1>6, <2>3
  <1>10. a \o SubSeq(s, p, n) = s
    <2>1. p - 1 + 1 = p /\ 1 \in 1..(n + 1) /\ p - 1 \in 1 - 1..n /\ n \in p - 1..n
      BY <1>4
    <2>2. SubSeq(s, 1, p - 1) \o SubSeq(s, p - 1 + 1, n) = SubSeq(s, 1, n)
      BY <1>1, <2>1, ConcatAdjacentSubSeq DEF Strings
    <2> QED
      BY <1>1, <1>5, <2>1, <2>2, SubSeqFull DEF Strings
  <1>11. SubSeq(s, p, n) = <<c, d>> \o b
    <2>1. n \in p..n /\ n \in (p + 1)..n /\ (p + 1) + 1 = p + 2
      BY <1>4
    <2>2. SubSeq(s, p, n) = <<c>> \o SubSeq(s, p + 1, n)
      BY <1>1, <1>4, <2>1, SubSeqRecursiveFirst DEF Strings
    <2>3. SubSeq(s, p + 1, n) = <<d>> \o SubSeq(s, (p + 1) + 1, n)
      BY <1>1, <1>4, <2>1, SubSeqRecursiveFirst DEF Strings
    <2>4. <<c>> \in Strings /\ <<d>> \in Strings /\ <<c, d>> = <<c>> \o <<d>>
      BY Literals, LiteralJoins
    <2> QED
      <3>1. (<<c>> \o <<d>>) \o b = <<c>> \o (<<d>> \o b)
        BY <1>8, <2>4, Associative
      <3> QED
        BY <1>5, <2>1, <2>2, <2>3, <2>4, <3>1
  <1> QED
    BY <1>7, <1>8, <1>9, <1>10, <1>11

----------------------------------------------------------------------------
(* The operators on sequences by name: hidden, they keep the provers from  *)
(* comparing strings piece by piece.                                       *)
Join(s, t) == s \o t
One(a) == <<a>>
Two(a, b) == <<a, b>>
Three(a, b, c) == <<a, b, c>>
Four(a, b, c, d) == <<a, b, c, d>>

(* A line: two pieces that say what it is, and what follows.               *)

Line(a, b, r) == <<a>> \o (<<b>> \o r)
EndsSolid(s) == s # << >> /\ s[Len(s)] # Space

LEMMA NotEmpty ==
    ASSUME NEW s \in Strings PROVE s # << >> <=> Len(s) >= 1
  BY StringFacts, EmptySeq DEF Strings

LEMMA EndOfJoin ==
    ASSUME NEW a \in Strings, NEW b \in Strings, b # << >>
    PROVE  /\ a \o b # << >> /\ (a \o b)[Len(a \o b)] = b[Len(b)]
           /\ EndsSolid(a \o b) <=> EndsSolid(b)
  <1>1. PICK s \in Strings, n \in Nat, m \in Nat :
              /\ s = a \o b /\ n = Len(a) /\ m = Len(b) /\ Len(s) = n + m
              /\ \A i \in 1..n : s[i] = a[i]
              /\ \A i \in 1..m : s[n + i] = b[i]
    BY PlacesOfJoin
  <1>2. m >= 1 /\ m \in 1..m /\ n + m >= 1
    BY <1>1, NotEmpty
  <1>3. s # << >> /\ s[Len(s)] = b[m]
    BY <1>1, <1>2, NotEmpty
  <1> QED
    BY <1>1, <1>3 DEF EndsSolid

LEMMA LineFacts ==
    ASSUME NEW a \in Piece, NEW b \in Piece, NEW r \in Strings
    PROVE  /\ Line(a, b, r) \in Strings
           /\ \A c : c \in Piece => (HasPrefix(Line(a, b, r), One(c)) <=> c = a)
           /\ \A c, d : c \in Piece /\ d \in Piece =>
                 (HasPrefix(Line(a, b, r), Two(c, d)) <=> c = a /\ d = b)
           /\ SubSeq(Line(a, b, r), 3, Len(Line(a, b, r))) = r
           /\ a # Space /\ EndsSolid(r) => TrimSpace(Line(a, b, r)) = Line(a, b, r)
  <1>1. PICK v, w, u, s : v = <<a>> /\ w = <<b>> /\ u = w \o r /\ s = v \o u
    OBVIOUS
  <1>2. v \in Strings /\ Len(v) = 1 /\ v[1] = a /\ w \in Strings /\ Len(w) = 1 /\ w[1] = b
    BY <1>1, Literals
  <1>3. PICK m \in Nat : m = Len(r)
    BY StringFacts
  <1>4. u \in Strings /\ Len(u) = 1 + m /\ u[1] = b
    BY <1>1, <1>2, <1>3, AfterOne
  <1>5. s \in Strings /\ Len(s) = 2 + m /\ s[1] = a /\ s[2] = b
    <2>0. u \in Strings /\ v \in Strings /\ Len(v) = 1 /\ s = v \o u
      BY <1>1, <1>2, <1>4
    <2>1. PICK k \in Nat : k = Len(u)
      BY <2>0, StringFacts
    <2>2. s \in Strings /\ Len(s) = 1 + k /\ s[1] = v[1] /\ (k >= 1 => s[2] = u[1])
      BY <2>0, <2>1, AfterOne
    <2>3. k >= 1 /\ 1 + k = 2 + m
      BY <1>4, <2>1
    <2> QED
      BY <1>2, <1>4, <2>2, <2>3
  <1>6. Line(a, b, r) = s
    BY <1>1 DEF Line
  <1>7. 2 + m >= 1 /\ 2 + m >= 2
    OBVIOUS
  <1>8. ASSUME NEW c \in Piece PROVE HasPrefix(s, One(c)) <=> c = a
    BY <1>5, <1>7, PrefixOfOne DEF One
  <1>9. ASSUME NEW c \in Piece, NEW d \in Piece PROVE HasPrefix(s, Two(c, d)) <=> c = a /\ d = b
    BY <1>5, <1>7, PrefixOfTwo DEF Two
  <1>10. SubSeq(s, 3, Len(s)) = r
    <2>1. PICK t : t = v \o w
      OBVIOUS
    <2>2. t \in Strings /\ Len(t) = 1 + 1
      BY <1>2, <2>1, AfterOne, 1 \in Nat
    <2>3. t \o r = s
      BY <1>1, <1>2, <2>1, Associative
    <2>4. SubSeq(s, Len(t) + 1, Len(s)) = r
      BY <2>2, <2>3, PartsOfJoin
    <2> QED
      BY <2>2, <2>4
  <1>11. ASSUME a # Space, EndsSolid(r) PROVE TrimSpace(s) = s
    <2>1. r # << >> /\ u # << >> /\ EndsSolid(u)
      BY <1>1, <1>2, <1>11, EndOfJoin DEF EndsSolid
    <2>2. EndsSolid(s)
      BY <1>1, <1>2, <1>4, <2>1, EndOfJoin
    <2> QED
      BY <1>5, <1>7, <1>11, <2>2, TrimSpaceKeeps DEF EndsSolid
  <1> QED
    BY <1>5, <1>6, <1>8, <1>9, <1>10, <1>11

----------------------------------------------------------------------------
(* The same facts under these names, for whole strings.                    *)

LEMMA JoinTypes ==
    /\ \A s, t : s \in Strings /\ t \in Strings => Join(s, t) \in Strings
    /\ \A c : c \in Piece => One(c) \in Strings
  BY DEF Join, One, Strings

LEMMA JoinMoves ==
    \A a, b, c : a \in Strings /\ b \in Strings /\ c \in Strings =>
        Join(Join(a, b), c) = Join(a, Join(b, c))
  BY Associative, Zenon DEF Join

LEMMA JoinLength ==
    \A s, t : s \in Strings /\ t \in Strings =>
        Len(Join(s, t)) = Len(s) + Len(t) /\ Len(s) \in Nat /\ Len(t) \in Nat
  BY DEF Join, Strings

LEMMA PiecesJoin ==
    \A a, b, c, d : a \in Piece /\ b \in Piece /\ c \in Piece /\ d \in Piece =>
        /\ Two(a, b) = Join(One(a), One(b))
        /\ Three(a, b, c) = Join(One(a), Join(One(b), One(c)))
        /\ Four(a, b, c, d) = Join(One(a), Join(One(b), Join(One(c), One(d))))
  <1>1. \A a, b : a \in Piece /\ b \in Piece => Two(a, b) = Join(One(a), One(b))
    BY LiteralJoins, Zenon DEF Join, One, Two
  <1>2. \A a, b, c : a \in Piece /\ b \in Piece /\ c \in Piece =>
            Three(a, b, c) = Join(One(a), Two(b, c))
    BY LiteralJoins, Zenon DEF Join, One, Two, Three
  <1>3. ASSUME NEW a \in Piece, NEW b \in Piece, NEW c \in Piece, NEW d \in Piece
        PROVE  Four(a, b, c, d) = Join(One(a), Three(b, c, d))
    <2>1. PICK x, y, z : x = <<a>> /\ y = <<b, c, d>> /\ z = <<a, b, c, d>>
      OBVIOUS
    <2>2. z = x \o y
      BY <2>1, LiteralJoins
    <2> QED
      BY <2>1, <2>2, Zenon DEF Join, One, Three, Four
  <1> QED
    BY <1>1, <1>2, <1>3

LEMMA SeveralTypes ==
    /\ \A a, b : a \in Piece /\ b \in Piece => Two(a, b) \in Strings
    /\ \A a, b, c : a \in Piece /\ b \in Piece /\ c \in Piece => Three(a, b, c) \in Strings
  <1>1. ASSUME NEW a \in Piece, NEW b \in Piece PROVE Two(a, b) \in Strings
    BY DEF Two, Strings
  <1>2. ASSUME NEW a \in Piece, NEW b \in Piece, NEW c \in Piece PROVE Three(a, b, c) \in Strings
    BY DEF Three, Strings
  <1> QED
    BY <1>1, <1>2

LEMMA TupleFacts ==
    /\ \A a : Len(One(a)) = 1 /\ One(a)[1] = a
    /\ \A a, b : Len(Two(a, b)) = 2 /\ Two(a, b)[1] = a /\ Two(a, b)[2] = b
    /\ \A a, b, c : /\ Len(Three(a, b, c)) = 3
                    /\ Three(a, b, c)[1] = a /\ Three(a, b, c)[2] = b /\ Three(a, b, c)[3] = c
  BY DEF One, Two, Three

LEMMA JoinContains ==
    /\ \A s, t, c : s \in Strings /\ t \in Strings =>
          (Contains(Join(s, t), c) <=> Contains(s, c) \/ Contains(t, c))
    /\ \A a, c : a \in Piece => (Contains(One(a), c) <=> c = a)
  <1>1. \A s, t, c : s \in Strings /\ t \in Strings =>
            (Contains(Join(s, t), c) <=> Contains(s, c) \/ Contains(t, c))
    BY ContainsInJoin, Zenon DEF Join
  <1>2. \A a, c : a \in Piece => (Contains(One(a), c) <=> c = a)
    BY ContainsOfOne, Zenon DEF One
  <1> QED
    BY <1>1, <1>2

LEMMA TupleContains ==
    /\ \A a, b, h : a \in Piece /\ b \in Piece => (Contains(Two(a, b), h) <=> h \in {a, b})
    /\ \A a, b, c, h : a \in Piece /\ b \in Piece /\ c \in Piece
          => (Contains(Three(a, b, c), h) <=> h \in {a, b, c})
  <1>1. ASSUME NEW a \in Piece, NEW b \in Piece, NEW h
        PROVE  Contains(Two(a, b), h) <=> h \in {a, b}
    BY PiecesJoin, JoinTypes, JoinContains
  <1>2. ASSUME NEW a \in Piece, NEW b \in Piece, NEW c \in Piece, NEW h
        PROVE  Contains(Three(a, b, c), h) <=> h \in {a, b, c}
    BY PiecesJoin, JoinTypes, JoinContains
  <1> QED
    BY <1>1, <1>2

LEMMA JoinEnds ==
    /\ \A s, t : s \in Strings /\ t \in Strings /\ EndsSolid(t) => EndsSolid(Join(s, t))
    /\ \A s, t : s \in Strings /\ t \in Strings /\ t # << >> =>
          Join(s, t) # << >> /\ (EndsSolid(Join(s, t)) <=> EndsSolid(t))
    /\ \A c : c \in Piece => One(c) # << >> /\ (EndsSolid(One(c)) <=> c # Space)
  <1>1. \A s, t : s \in Strings /\ t \in Strings /\ t # << >> =>
            Join(s, t) # << >> /\ (EndsSolid(Join(s, t)) <=> EndsSolid(t))
    BY EndOfJoin, Zenon DEF Join
  <1>2. \A t : EndsSolid(t) => t # << >>
    BY Zenon DEF EndsSolid
  <1>3. \A c : One(c) # << >> /\ One(c)[Len(One(c))] = c
    BY DEF One
  <1>4. \A c : EndsSolid(One(c)) <=> c # Space
    BY <1>3, Zenon DEF EndsSolid
  <1> QED
    BY <1>1, <1>2, <1>3, <1>4, Zenon

LEMMA CutIs ==
    /\ \A a, b, c : a \in Strings /\ b \in Strings /\ c \in Piece /\ ~Contains(a, c) =>
          Cut(Join(a, Join(One(c), b)), One(c)) = Two(a, b)
    /\ \A s, c : s \in Strings /\ c \in Piece /\ ~Contains(s, c) => Cut(s, One(c)) = One(s)
  <1>1. \A a, b, c : a \in Strings /\ b \in Strings /\ c \in Piece /\ ~Contains(a, c) =>
            Cut(Join(a, Join(One(c), b)), One(c)) = Two(a, b)
    BY CutAtPiece, Zenon DEF Join, One, Two
  <1>2. \A s, c : s \in Strings /\ c \in Piece /\ ~Contains(s, c) => Cut(s, One(c)) = One(s)
    BY CutNowhere, Zenon DEF One
  <1> QED
    BY <1>1, <1>2

LEMMA PlaceIs ==
    \A s, c : s \in Strings /\ c \in Piece /\ Contains(s, c) =>
        \E a, b : /\ a \in Strings /\ b \in Strings
                  /\ s = Join(a, Join(One(c), b)) /\ ~Contains(a, c)
  BY FirstPlace, Zenon DEF Join, One

(* Two ways to divide a string at the first place of a piece are one.      *)
LEMMA OneDivision ==
    \A a, b, x, y, c :
        /\ a \in Strings /\ b \in Strings /\ x \in Strings /\ y \in Strings /\ c \in Piece
        /\ ~Contains(a, c) /\ ~Contains(x, c)
        /\ Join(a, Join(One(c), b)) = Join(x, Join(One(c), y))
        => a = x /\ b = y
  <1>1. \A a, b, x, y : Two(a, b) = Two(x, y) => a = x /\ b = y
    BY TupleFacts
  <1> SUFFICES ASSUME NEW a, NEW b, NEW x, NEW y, NEW c,
                      a \in Strings, b \in Strings, x \in Strings, y \in Strings, c \in Piece,
                      ~Contains(a, c), ~Contains(x, c),
                      Join(a, Join(One(c), b)) = Join(x, Join(One(c), y))
               PROVE  a = x /\ b = y
    OBVIOUS
  <1>2. /\ Cut(Join(a, Join(One(c), b)), One(c)) = Two(a, b)
        /\ Cut(Join(x, Join(One(c), y)), One(c)) = Two(x, y)
    BY CutIs, Zenon
  <1> QED
    BY <1>1, <1>2, Zenon

LEMMA CutTwiceIs ==
    /\ \A a, x, y, c :
          /\ a \in Strings /\ x \in Strings /\ y \in Strings /\ c \in Piece
          /\ ~Contains(a, c) /\ ~Contains(x, c)
          => CutTwice(Join(a, Join(One(c), Join(x, Join(One(c), y)))), One(c)) = Three(a, x, y)
    /\ \A a, b, c : a \in Strings /\ b \in Strings /\ c \in Piece
                    /\ ~Contains(a, c) /\ ~Contains(b, c)
          => CutTwice(Join(a, Join(One(c), b)), One(c)) = Two(a, b)
    /\ \A s, c : s \in Strings /\ c \in Piece /\ ~Contains(s, c) => CutTwice(s, One(c)) = One(s)
  <1>1. ASSUME NEW a \in Strings, NEW x \in Strings, NEW y \in Strings, NEW c \in Piece,
               ~Contains(a, c), ~Contains(x, c)
        PROVE  CutTwice(Join(a, Join(One(c), Join(x, Join(One(c), y)))), One(c)) = Three(a, x, y)
    <2>1. PICK b : b = Join(x, Join(One(c), y))
      OBVIOUS
    <2>2. b \in Strings /\ Contains(b, c)
      BY <2>1, JoinTypes, JoinContains
    <2>3. PICK u \in Strings, v \in Strings :
              /\ b = Join(u, Join(One(c), v)) /\ ~Contains(u, c)
              /\ CutTwice(Join(a, Join(One(c), b)), One(c)) = Three(a, u, v)
      BY <1>1, <2>2, CutTwiceAtPiece, Zenon DEF Join, One, Three
    <2>4. Join(u, Join(One(c), v)) = Join(x, Join(One(c), y))
      BY <2>1, <2>3, Zenon
    <2>5. u = x /\ v = y
      BY <1>1, <2>3, <2>4, OneDivision
    <2> QED
      BY <2>1, <2>3, <2>5
  <1>2. ASSUME NEW a \in Strings, NEW b \in Strings, NEW c \in Piece,
               ~Contains(a, c), ~Contains(b, c)
        PROVE  CutTwice(Join(a, Join(One(c), b)), One(c)) = Two(a, b)
    BY <1>2, CutTwiceAtPiece, Zenon DEF Join, One, Two
  <1>3. ASSUME NEW s \in Strings, NEW c \in Piece, ~Contains(s, c)
        PROVE  CutTwice(s, One(c)) = One(s)
    BY <1>3, CutTwiceNowhere, Zenon DEF One
  <1> QED
    BY <1>1, <1>2, <1>3, Zenon

----------------------------------------------------------------------------
(* How the parsers cut the lines: what the name in the middle holds        *)
(* decides what comes out.                                                 *)

LEMMA PlaceInJoin ==
    \A n, t, c : n \in Strings /\ t \in Strings /\ c \in Piece /\ Contains(n, c) =>
        \E a, b : /\ a \in Strings /\ b \in Strings /\ ~Contains(a, c)
                  /\ n = Join(a, Join(One(c), b))
                  /\ Join(n, t) = Join(a, Join(One(c), Join(b, t)))
  <1> SUFFICES ASSUME NEW n \in Strings, NEW t \in Strings, NEW c \in Piece, Contains(n, c)
               PROVE  \E a, b : /\ a \in Strings /\ b \in Strings /\ ~Contains(a, c)
                                /\ n = Join(a, Join(One(c), b))
                                /\ Join(n, t) = Join(a, Join(One(c), Join(b, t)))
    OBVIOUS
  <1>1. PICK a, b : /\ a \in Strings /\ b \in Strings
                    /\ n = Join(a, Join(One(c), b)) /\ ~Contains(a, c)
    BY PlaceIs
  <1>2. Join(n, t) = Join(a, Join(One(c), Join(b, t)))
    BY <1>1, JoinTypes, JoinMoves
  <1> QED
    BY <1>1, <1>2

(* Three parts with a name in the middle.                                  *)
LEMMA CutDelivery ==
    \A w, n, d, c :
        /\ w \in Strings /\ n \in Strings /\ d \in Strings /\ c \in Piece /\ ~Contains(w, c)
        => \E x, y : /\ x \in Strings /\ y \in Strings
                     /\ CutTwice(Join(w, Join(One(c), Join(n, Join(One(c), d)))), One(c))
                        = Three(w, x, y)
                     /\ ~Contains(n, c) => x = n /\ y = d
                     /\ Contains(n, c) => x # n /\ Contains(y, c)
  <1> SUFFICES ASSUME NEW w \in Strings, NEW n \in Strings, NEW d \in Strings, NEW c \in Piece,
                      ~Contains(w, c)
               PROVE  \E x, y :
                         /\ x \in Strings /\ y \in Strings
                         /\ CutTwice(Join(w, Join(One(c), Join(n, Join(One(c), d)))), One(c))
                            = Three(w, x, y)
                         /\ ~Contains(n, c) => x = n /\ y = d
                         /\ Contains(n, c) => x # n /\ Contains(y, c)
    OBVIOUS
  <1>1. CASE ~Contains(n, c)
    BY <1>1, CutTwiceIs
  <1>2. CASE Contains(n, c)
    <2>1. PICK t : t = Join(One(c), d)
      OBVIOUS
    <2>2. t \in Strings /\ Contains(t, c)
      BY <2>1, JoinTypes, JoinContains
    <2>3. PICK a, b : /\ a \in Strings /\ b \in Strings /\ ~Contains(a, c)
                      /\ Join(n, t) = Join(a, Join(One(c), Join(b, t)))
      BY <1>2, <2>2, PlaceInJoin
    <2>4. PICK y : y = Join(b, t)
      OBVIOUS
    <2>5. y \in Strings /\ Contains(y, c)
      BY <2>2, <2>3, <2>4, JoinTypes, JoinContains
    <2>6. CutTwice(Join(w, Join(One(c), Join(n, t))), One(c)) = Three(w, a, y)
      BY <2>3, <2>4, <2>5, CutTwiceIs
    <2>7. a # n
      BY <1>2, <2>3
    <2> QED
      BY <1>2, <2>1, <2>3, <2>5, <2>6, <2>7
  <1> QED
    BY <1>1, <1>2

(* Two parts, unless the name makes them three: the last keeps the end.    *)
LEMMA CutAnnounced ==
    \A w, n, t, c :
        /\ w \in Strings /\ n \in Strings /\ t \in Strings /\ c \in Piece
        /\ ~Contains(w, c) /\ ~Contains(t, c)
        => \/ CutTwice(Join(w, Join(One(c), Join(n, t))), One(c)) = Two(w, Join(n, t))
           \/ \E x, y : /\ x \in Strings /\ y \in Strings
                        /\ CutTwice(Join(w, Join(One(c), Join(n, t))), One(c)) = Three(w, x, y)
                        /\ \A h : Contains(t, h) => Contains(y, h)
  <1> SUFFICES ASSUME NEW w \in Strings, NEW n \in Strings, NEW t \in Strings, NEW c \in Piece,
                      ~Contains(w, c), ~Contains(t, c)
               PROVE  \/ CutTwice(Join(w, Join(One(c), Join(n, t))), One(c)) = Two(w, Join(n, t))
                      \/ \E x, y :
                            /\ x \in Strings /\ y \in Strings
                            /\ CutTwice(Join(w, Join(One(c), Join(n, t))), One(c)) = Three(w, x, y)
                            /\ \A h : Contains(t, h) => Contains(y, h)
    OBVIOUS
  <1>1. CASE ~Contains(n, c)
    <2>1. PICK u : u = Join(n, t)
      OBVIOUS
    <2>2. u \in Strings /\ ~Contains(u, c)
      BY <1>1, <2>1, JoinTypes, JoinContains
    <2> QED
      BY <2>1, <2>2, CutTwiceIs
  <1>2. CASE Contains(n, c)
    <2>1. PICK a, b : /\ a \in Strings /\ b \in Strings /\ ~Contains(a, c)
                      /\ Join(n, t) = Join(a, Join(One(c), Join(b, t)))
      BY <1>2, PlaceInJoin
    <2>2. PICK y : y = Join(b, t)
      OBVIOUS
    <2>3. y \in Strings /\ \A h : Contains(t, h) => Contains(y, h)
      BY <2>1, <2>2, JoinTypes, JoinContains
    <2>4. CutTwice(Join(w, Join(One(c), Join(n, t))), One(c)) = Three(w, a, y)
      BY <2>1, <2>2, <2>3, CutTwiceIs
    <2> QED
      BY <2>1, <2>3, <2>4
  <1> QED
    BY <1>1, <1>2

(* The third part of a string that ends in no space ends in none.          *)
LEMMA ThirdPart ==
    \A s : s \in Strings /\ EndsSolid(s) /\ Space \in Piece =>
        \/ Len(CutTwice(s, One(Space))) # 3
        \/ \E a, x, y : /\ CutTwice(s, One(Space)) = Three(a, x, y)
                        /\ y \in Strings /\ EndsSolid(y)
  <1> SUFFICES ASSUME NEW s \in Strings, EndsSolid(s), Space \in Piece,
                      Len(CutTwice(s, One(Space))) = 3
               PROVE  \E a, x, y : /\ CutTwice(s, One(Space)) = Three(a, x, y)
                                   /\ y \in Strings /\ EndsSolid(y)
    OBVIOUS
  <1>1. \A a, b : Len(One(a)) = 1 /\ Len(Two(a, b)) = 2
    BY TupleFacts
  <1>2. Contains(s, Space)
    <2>1. SUFFICES ASSUME ~Contains(s, Space) PROVE FALSE
      OBVIOUS
    <2>2. CutTwice(s, One(Space)) = One(s)
      BY <2>1, CutTwiceIs
    <2> QED
      BY <1>1, <2>2
  <1>3. PICK a, b : /\ a \in Strings /\ b \in Strings
                    /\ s = Join(a, Join(One(Space), b)) /\ ~Contains(a, Space)
    BY <1>2, PlaceIs
  <1>4. Contains(b, Space)
    <2>1. SUFFICES ASSUME ~Contains(b, Space) PROVE FALSE
      OBVIOUS
    <2>2. CutTwice(s, One(Space)) = Two(a, b)
      BY <1>3, <2>1, CutTwiceIs
    <2> QED
      BY <1>1, <2>2
  <1>5. PICK x, y : /\ x \in Strings /\ y \in Strings
                    /\ b = Join(x, Join(One(Space), y)) /\ ~Contains(x, Space)
    BY <1>3, <1>4, PlaceIs
  <1>6. CutTwice(s, One(Space)) = Three(a, x, y)
    BY <1>3, <1>5, CutTwiceIs
  <1>7. PICK g : g = Join(One(Space), y)
    OBVIOUS
  <1>8. /\ g \in Strings /\ One(Space) \in Strings
        /\ g # << >>
    <2>1. One(Space) \in Strings /\ g \in Strings
      BY <1>5, <1>7, JoinTypes
    <2>2. Contains(g, Space)
      BY <1>5, <1>7, <2>1, JoinContains
    <2>3. ~Contains(<< >>, Space)
      BY DEF Contains
    <2> QED
      BY <2>1, <2>2, <2>3, Zenon
  <1>9. b # << >> /\ (EndsSolid(b) <=> EndsSolid(g))
    BY <1>5, <1>7, <1>8, JoinEnds, Zenon
  <1>10. PICK u : u = Join(One(Space), b)
    OBVIOUS
  <1>11. u \in Strings /\ u # << >> /\ (EndsSolid(u) <=> EndsSolid(b))
    BY <1>3, <1>8, <1>9, <1>10, JoinEnds, JoinTypes, Zenon
  <1>12. EndsSolid(s) <=> EndsSolid(u)
    BY <1>3, <1>10, <1>11, JoinEnds, Zenon
  <1>13. EndsSolid(g)
    BY <1>9, <1>11, <1>12
  <1>14. CASE y = << >>
    <2>1. g = One(Space)
      BY <1>7, <1>8, <1>14 DEF Join, One, Strings
    <2> QED
      BY <1>13, <2>1, JoinEnds, Zenon
  <1>15. CASE y # << >>
    <2>1. EndsSolid(y)
      BY <1>5, <1>7, <1>8, <1>13, <1>15, JoinEnds, Zenon
    <2> QED
      BY <1>5, <1>6, <2>1, Zenon
  <1> QED
    BY <1>14, <1>15, Zenon

(* A label of two pieces after a name.                                     *)
LEMMA PairFacts ==
    /\ \A a, b, c, d :
          /\ a \in Strings /\ b \in Strings /\ c \in Piece /\ d \in Piece /\ c # d
          /\ ~HasPair(a, c, d)
          => Cut(Join(a, Join(Two(c, d), b)), Two(c, d)) = Two(a, b)
    /\ \A s, c, d : s \in Strings /\ c \in Piece /\ d \in Piece /\ ~HasPair(s, c, d)
          => Cut(s, Two(c, d)) = One(s)
    /\ \A s, c, d : s \in Strings /\ c \in Piece /\ d \in Piece /\ HasPair(s, c, d)
          => \E a, b : /\ a \in Strings /\ b \in Strings /\ ~HasPair(a, c, d)
                       /\ s = Join(a, Join(Two(c, d), b))
  <1>1. ASSUME NEW a \in Strings, NEW b \in Strings, NEW c \in Piece, NEW d \in Piece, c # d,
               ~HasPair(a, c, d)
        PROVE  Cut(Join(a, Join(Two(c, d), b)), Two(c, d)) = Two(a, b)
    BY <1>1, CutAtPair, Zenon DEF Join, Two
  <1>2. ASSUME NEW s \in Strings, NEW c \in Piece, NEW d \in Piece, ~HasPair(s, c, d)
        PROVE  Cut(s, Two(c, d)) = One(s)
    BY <1>2, CutWithoutPair, Zenon DEF One, Two
  <1>3. ASSUME NEW s \in Strings, NEW c \in Piece, NEW d \in Piece, HasPair(s, c, d)
        PROVE  \E a, b : /\ a \in Strings /\ b \in Strings /\ ~HasPair(a, c, d)
                         /\ s = Join(a, Join(Two(c, d), b))
    <2>1. PICK a \in Strings, b \in Strings : s = a \o (<<c, d>> \o b) /\ ~HasPair(a, c, d)
      BY <1>3, FirstPair
    <2> QED
      BY <2>1, Zenon DEF Join, Two
  <1> QED
    BY <1>1, <1>2, <1>3

LEMMA PairAlone ==
    \A s, c, d : s \in Strings /\ c \in Piece /\ d \in Piece /\ c # d =>
        (Len(Cut(s, Two(c, d))) = 1 <=> ~HasPair(s, c, d))
  <1> SUFFICES ASSUME NEW s \in Strings, NEW c \in Piece, NEW d \in Piece, c # d
               PROVE  Len(Cut(s, Two(c, d))) = 1 <=> ~HasPair(s, c, d)
    OBVIOUS
  <1>1. \A a, b : Len(One(a)) = 1 /\ Len(Two(a, b)) = 2
    BY TupleFacts
  <1>2. CASE ~HasPair(s, c, d)
    <2>1. Cut(s, Two(c, d)) = One(s)
      BY <1>2, PairFacts
    <2> QED
      BY <1>1, <1>2, <2>1
  <1>3. CASE HasPair(s, c, d)
    <2>1. PICK a, b : /\ a \in Strings /\ b \in Strings /\ ~HasPair(a, c, d)
                      /\ s = Join(a, Join(Two(c, d), b))
      BY <1>3, PairFacts
    <2>2. Cut(s, Two(c, d)) = Two(a, b)
      BY <2>1, PairFacts
    <2> QED
      BY <1>1, <1>3, <2>2
  <1> QED
    BY <1>2, <1>3

LEMMA PairsOfJoin ==
    /\ \A a, b, c, d :
          /\ a \in Strings /\ b \in Strings /\ a # << >> /\ a[Len(a)] # c
          /\ ~HasPair(a, c, d) /\ ~HasPair(b, c, d)
          => ~HasPair(Join(a, b), c, d)
    /\ \A a, z, c, d :
          a \in Strings /\ z \in Piece /\ a # << >> /\ z # d /\ ~HasPair(a, c, d)
          => ~HasPair(Join(a, One(z)), c, d)
  <1>1. ASSUME NEW a \in Strings, NEW b \in Strings, NEW c, NEW d, a # << >>, a[Len(a)] # c,
               ~HasPair(a, c, d), ~HasPair(b, c, d)
        PROVE  ~HasPair(Join(a, b), c, d)
    <2>1. Len(a) >= 1
      BY <1>1, NotEmpty
    <2> QED
      BY <1>1, <2>1, NoPairInJoin, Zenon DEF Join
  <1>2. ASSUME NEW a \in Strings, NEW z \in Piece, NEW c, NEW d, a # << >>, z # d,
               ~HasPair(a, c, d)
        PROVE  ~HasPair(Join(a, One(z)), c, d)
    <2>1. Len(a) >= 1
      BY <1>2, NotEmpty
    <2>2. PICK b : b = One(z)
      OBVIOUS
    <2>3. b \in Strings /\ Len(b) = 1 /\ b[1] = z
      BY <2>2, JoinTypes, TupleFacts
    <2>4. ~HasPair(b, c, d)
      BY <2>3 DEF HasPair
    <2> QED
      BY <1>2, <2>1, <2>2, <2>3, <2>4, NoPairInJoin, Zenon DEF Join
  <1> QED
    BY <1>1, <1>2

LEMMA CutAtLabel ==
    ASSUME NEW p \in Strings, NEW n \in Strings, NEW m \in Strings,
           NEW e \in Piece, NEW c \in Piece, NEW d \in Piece, c # d, e # d,
           p # << >>, p[Len(p)] # c, ~HasPair(p, c, d)
    PROVE  \E x, y :
              /\ Cut(Join(Join(Join(p, n), Three(e, c, d)), m), Two(c, d)) = Two(x, y)
              /\ ~HasPair(n, c, d) => x = Join(Join(p, n), One(e)) /\ y = m
              /\ HasPair(n, c, d) => x # Join(Join(p, n), One(e))
  <1>1. PICK v, f, l, s : /\ v = Two(c, d) /\ f = Three(e, c, d) /\ l = Join(Join(p, n), One(e))
                          /\ s = Join(Join(Join(p, n), f), m)
    OBVIOUS
  <1>2. f = Join(One(e), v) /\ v \in Strings /\ f \in Strings /\ One(e) \in Strings
    BY <1>1, PiecesJoin, JoinTypes
  <1>3. s = Join(l, Join(v, m)) /\ l \in Strings
    BY <1>1, <1>2, JoinTypes, JoinMoves
  <1>4. CASE ~HasPair(n, c, d)
    <2>1. ~HasPair(Join(p, n), c, d)
      BY <1>4, PairsOfJoin
    <2>2. Join(p, n) # << >> /\ Join(p, n) \in Strings
      <3>1. CASE n = << >>
        BY <3>1 DEF Join, Strings
      <3>2. CASE n # << >>
        BY <3>2, JoinEnds, JoinTypes, Zenon
      <3> QED
        BY <3>1, <3>2
    <2>3. ~HasPair(l, c, d)
      BY <1>1, <2>1, <2>2, PairsOfJoin
    <2>4. Cut(s, v) = Two(l, m)
      BY <1>1, <1>3, <2>3, PairFacts
    <2> QED
      BY <1>1, <1>4, <2>4
  <1>5. CASE HasPair(n, c, d)
    <2>1. PICK a, b : /\ a \in Strings /\ b \in Strings /\ ~HasPair(a, c, d)
                      /\ n = Join(a, Join(v, b))
      BY <1>1, <1>5, PairFacts
    <2>2. PICK x, g, k : /\ x = Join(p, a) /\ g = Join(v, b) /\ k = Join(Join(b, f), m)
      OBVIOUS
    <2>3. x \in Strings /\ g \in Strings /\ k \in Strings
      BY <1>2, <2>1, <2>2, JoinTypes
    <2>4. ~HasPair(x, c, d)
      BY <2>1, <2>2, PairsOfJoin
    <2>5. s = Join(x, Join(v, k))
      <3>1. Join(p, n) = Join(x, g)
        BY <2>1, <2>2, <2>3, JoinMoves
      <3>2. Join(Join(x, g), f) = Join(x, Join(g, f)) /\ Join(g, f) \in Strings
        BY <1>2, <2>3, JoinMoves, JoinTypes
      <3>3. Join(g, f) = Join(v, Join(b, f)) /\ Join(b, f) \in Strings
        BY <1>2, <2>1, <2>2, JoinMoves, JoinTypes
      <3>4. Join(Join(x, Join(g, f)), m) = Join(x, Join(Join(g, f), m))
        BY <2>3, <3>2, JoinMoves
      <3>5. Join(Join(v, Join(b, f)), m) = Join(v, k)
        BY <1>2, <2>2, <3>3, JoinMoves
      <3> QED
        BY <1>1, <3>1, <3>2, <3>3, <3>4, <3>5, Zenon
    <2>6. Cut(s, v) = Two(x, k)
      BY <1>1, <2>3, <2>4, <2>5, PairFacts
    <2>7. x # l
      <3>1. PICK i \in Nat, j \in Nat : i = Len(x) /\ j = Len(g)
        BY <2>3, StringFacts
      <3>2. PICK q, z : q = Join(x, g) /\ z = One(e)
        OBVIOUS
      <3>3. q \in Strings /\ Len(q) = i + j /\ z \in Strings /\ Len(z) = 1
        BY <1>2, <2>3, <3>1, <3>2, StringFacts, TupleFacts DEF Join
      <3>4. Len(Join(q, z)) = (i + j) + 1
        BY <3>3, JoinLength
      <3>5. Join(p, n) = q
        BY <2>1, <2>2, <2>3, <3>2, JoinMoves
      <3>6. l = Join(q, z)
        BY <1>1, <3>2, <3>5, Zenon
      <3>7. i # (i + j) + 1
        OBVIOUS
      <3> QED
        BY <3>1, <3>4, <3>6, <3>7
    <2> QED
      BY <1>1, <1>5, <2>6, <2>7
  <1> QED
    BY <1>4, <1>5

----------------------------------------------------------------------------
(* The lines of the protocol, whatever the pieces that name their parts.   *)

LEMMA LineIs ==
    /\ \A a, b, r : Line(a, b, r) = Join(One(a), Join(One(b), r))
    /\ \A w, r : Spaced(w, r) = Join(w, Join(One(Space), r))
    /\ \A a, b, n, t :
          a \in Piece /\ b \in Piece /\ n \in Strings /\ t \in Strings
          => Join(Join(Two(a, b), n), t) = Line(a, b, Join(n, t))
  <1>1. \A a, b, r : Line(a, b, r) = Join(One(a), Join(One(b), r))
    BY Zenon DEF Line, Join, One
  <1>2. \A w, r : Spaced(w, r) = Join(w, Join(One(Space), r))
    BY Zenon DEF Spaced, Join, One
  <1>3. \A a, b, n, t :
          a \in Piece /\ b \in Piece /\ n \in Strings /\ t \in Strings
          => Join(Join(Two(a, b), n), t) = Join(One(a), Join(One(b), Join(n, t)))
    BY PiecesJoin, JoinMoves, JoinTypes
  <1> QED
    BY <1>1, <1>2, <1>3

LEMMA DeliveryShape ==
    \A a, b, q, c, n, d :
        /\ a \in Piece /\ b \in Piece /\ q \in Piece /\ c \in Piece
        /\ n \in Strings /\ d \in Strings
        => LET r == Join(One(q), Join(One(c), Join(n, Join(One(c), d))))
           IN  /\ Join(Join(Join(Four(a, b, q, c), n), One(c)), d) = Line(a, b, r)
               /\ r \in Strings
               /\ EndsSolid(d) => EndsSolid(r)
  <1>1. \A a, b, q, c, n, d :
            /\ a \in Piece /\ b \in Piece /\ q \in Piece /\ c \in Piece
            /\ n \in Strings /\ d \in Strings
            => Join(Join(Join(Four(a, b, q, c), n), One(c)), d)
               = Join(One(a), Join(One(b), Join(One(q), Join(One(c), Join(n, Join(One(c), d))))))
    BY PiecesJoin, JoinMoves, JoinTypes
  <1>2. \A q, c, n, d :
            /\ q \in Piece /\ c \in Piece /\ n \in Strings /\ d \in Strings
            => /\ Join(One(q), Join(One(c), Join(n, Join(One(c), d)))) \in Strings
               /\ EndsSolid(d) => EndsSolid(Join(One(q), Join(One(c), Join(n, Join(One(c), d)))))
    BY JoinTypes, JoinEnds
  <1> QED
    BY <1>1, <1>2, LineIs

LEMMA RequestShape ==
    \A a, b, q, c, n, k :
        /\ a \in Piece /\ b \in Piece /\ q \in Piece /\ c \in Piece
        /\ n \in Strings /\ k \in Piece
        => Join(Join(Four(a, b, q, c), n), Two(c, k))
           = Join(Join(Join(Four(a, b, q, c), n), One(c)), One(k))
  BY PiecesJoin, JoinMoves, JoinTypes

LEMMA AnnouncedShape ==
    \A a, b, f, k, n :
        a \in Piece /\ b \in Piece /\ f \in Piece /\ k \in Piece /\ k # Space /\ n \in Strings
        => LET r == Join(n, Two(f, k))
           IN  /\ Join(Join(Two(a, b), n), Two(f, k)) = Line(a, b, r)
               /\ Two(f, k) \in Strings /\ r \in Strings
               /\ EndsSolid(r)
               /\ \A h : Contains(Two(f, k), h) <=> h \in {f, k}
  <1>1. \A f, k : f \in Piece /\ k \in Piece /\ k # Space =>
            /\ Two(f, k) \in Strings /\ EndsSolid(Two(f, k))
            /\ \A h : Contains(Two(f, k), h) <=> h \in {f, k}
    BY PiecesJoin, JoinTypes, JoinEnds, JoinContains
  <1> QED
    BY <1>1, LineIs, JoinTypes, JoinEnds

LEMMA LabelledShape ==
    \A a, b, c, e, f, g, n, m :
        /\ a \in Piece /\ b \in Piece /\ c \in Piece /\ e \in Piece /\ f \in Piece /\ g \in Piece
        /\ n \in Strings /\ m \in Strings
        => LET r == Join(One(c), Join(n, Join(Three(e, f, g), m)))
           IN  /\ Join(Join(Join(Three(a, b, c), n), Three(e, f, g)), m) = Line(a, b, r)
               /\ r \in Strings
               /\ EndsSolid(m) => EndsSolid(r)
               /\ \A h : h \notin {a, b, c, e, f, g} =>
                     (Contains(Line(a, b, r), h) <=> Contains(n, h) \/ Contains(m, h))
  <1> TAKE a, b, c, e, f, g, n, m
  <1> HAVE /\ a \in Piece /\ b \in Piece /\ c \in Piece /\ e \in Piece /\ f \in Piece /\ g \in Piece
           /\ n \in Strings /\ m \in Strings
  <1>1. PICK y, r : y = Three(e, f, g) /\ r = Join(One(c), Join(n, Join(y, m)))
    OBVIOUS
  <1>2. y \in Strings /\ \A h : Contains(y, h) <=> h \in {e, f, g}
    BY <1>1, PiecesJoin, JoinTypes, JoinContains
  <1>3. r \in Strings /\ (EndsSolid(m) => EndsSolid(r))
    BY <1>1, <1>2, JoinTypes, JoinEnds
  <1>4. Join(Join(Join(Three(a, b, c), n), y), m) = Join(One(a), Join(One(b), r))
    BY <1>1, <1>2, PiecesJoin, JoinMoves, JoinTypes
  <1>5. \A h : Contains(r, h) <=> h = c \/ Contains(n, h) \/ h \in {e, f, g} \/ Contains(m, h)
    BY <1>1, <1>2, JoinTypes, JoinContains
  <1>6. PICK s : s = Join(One(b), r)
    OBVIOUS
  <1>7. s \in Strings /\ One(a) \in Strings /\ \A h : Contains(s, h) <=> h = b \/ Contains(r, h)
    BY <1>3, <1>6, JoinTypes, JoinContains
  <1>8. \A h : Contains(Join(One(a), s), h) <=> h = a \/ Contains(s, h)
    BY <1>7, JoinContains
  <1>9. Line(a, b, r) = Join(One(a), s)
    BY <1>6, LineIs
  <1>10. \A h : h \notin {a, b, c, e, f, g} =>
            (Contains(Line(a, b, r), h) <=> Contains(n, h) \/ Contains(m, h))
    BY <1>5, <1>7, <1>8, <1>9
  <1>11. Join(Join(Join(Three(a, b, c), n), y), m) = Line(a, b, r)
    BY <1>4, <1>6, <1>9
  <1> QED
    BY <1>1, <1>3, <1>10, <1>11

LEMMA SpacedIsString ==
    \A w, r : w \in Strings /\ r \in Strings /\ Space \in Piece =>
        Spaced(w, r) \in Strings /\ (EndsSolid(r) => EndsSolid(Spaced(w, r)))
  BY LineIs, JoinTypes, JoinEnds

LEMMA SpacedContains ==
    \A w, r, h : w \in Strings /\ r \in Strings /\ Space \in Piece =>
        (Contains(Spaced(w, r), h) <=> Contains(w, h) \/ h = Space \/ Contains(r, h))
  <1>1. ASSUME NEW w \in Strings, NEW r \in Strings, Space \in Piece, NEW h
        PROVE  Contains(Join(w, Join(One(Space), r)), h)
               <=> Contains(w, h) \/ h = Space \/ Contains(r, h)
    BY <1>1, JoinTypes, JoinContains
  <1> QED
    BY <1>1, LineIs

LEMMA SpacedLine ==
    \A a, b, v : a \in Piece /\ b \in Piece /\ Space \in Piece /\ v \in Strings =>
        LET r == Join(One(Space), v)
        IN  /\ Spaced(Two(a, b), v) = Line(a, b, r)
            /\ r \in Strings
            /\ EndsSolid(v) => EndsSolid(r)
  <1>1. \A a, b, v : a \in Piece /\ b \in Piece /\ Space \in Piece /\ v \in Strings =>
            /\ Join(Two(a, b), Join(One(Space), v))
               = Join(One(a), Join(One(b), Join(One(Space), v)))
            /\ Join(One(Space), v) \in Strings
            /\ EndsSolid(v) => EndsSolid(Join(One(Space), v))
    BY PiecesJoin, JoinMoves, JoinTypes, JoinEnds
  <1> QED
    BY <1>1, LineIs

(* The answer to a key request, as words.                                  *)
LEMMA AnswerShape ==
    \A a, b, k, n : a \in Piece /\ b \in Piece /\ k \in Piece /\ Space \in Piece /\ n \in Strings =>
        Join(Join(Three(a, b, Space), n), Two(Space, k))
        = Spaced(Two(a, b), Spaced(n, One(k)))
  <1>1. \A a, b, k, n :
            a \in Piece /\ b \in Piece /\ k \in Piece /\ Space \in Piece /\ n \in Strings =>
            Join(Join(Three(a, b, Space), n), Two(Space, k))
            = Join(Two(a, b), Join(One(Space), Join(n, Join(One(Space), One(k)))))
    BY PiecesJoin, JoinMoves, JoinTypes
  <1> QED
    BY <1>1, LineIs

(* An option of a command, as words.                                       *)
LEMMA OptionShape ==
    \A w, f, n, r : w \in Strings /\ f \in Piece /\ Space \in Piece /\ n \in Strings /\ r \in Strings =>
        Join(Join(w, Join(Three(Space, f, Space), n)), Join(One(Space), r))
        = Spaced(w, Spaced(One(f), Spaced(n, r)))
  <1>1. \A w, f, n, r :
            w \in Strings /\ f \in Piece /\ Space \in Piece /\ n \in Strings /\ r \in Strings =>
            Join(Join(w, Join(Three(Space, f, Space), n)), Join(One(Space), r))
            = Join(w, Join(One(Space), Join(One(f), Join(One(Space), Join(n, Join(One(Space), r))))))
    BY PiecesJoin, JoinMoves, JoinTypes
  <1> QED
    BY <1>1, LineIs

(* What the parsers find in a line.                                        *)
LEMMA LineReads ==
    /\ \A a, b, r : a \in Piece /\ b \in Piece /\ r \in Strings =>
          /\ Line(a, b, r) \in Strings
          /\ SubSeq(Line(a, b, r), 3, Len(Line(a, b, r))) = r
          /\ a # Space /\ EndsSolid(r) => TrimSpace(Line(a, b, r)) = Line(a, b, r)
    /\ \A a, b, r, c : a \in Piece /\ b \in Piece /\ r \in Strings /\ c \in Piece =>
          (HasPrefix(Line(a, b, r), One(c)) <=> c = a)
    /\ \A a, b, r, c, d :
          a \in Piece /\ b \in Piece /\ r \in Strings /\ c \in Piece /\ d \in Piece =>
          (HasPrefix(Line(a, b, r), Two(c, d)) <=> c = a /\ d = b)
  <1>1. ASSUME NEW a \in Piece, NEW b \in Piece, NEW r \in Strings
        PROVE  /\ Line(a, b, r) \in Strings
               /\ SubSeq(Line(a, b, r), 3, Len(Line(a, b, r))) = r
               /\ a # Space /\ EndsSolid(r) => TrimSpace(Line(a, b, r)) = Line(a, b, r)
    BY LineFacts
  <1>2. ASSUME NEW a \in Piece, NEW b \in Piece, NEW r \in Strings, NEW c \in Piece
        PROVE  HasPrefix(Line(a, b, r), One(c)) <=> c = a
    BY LineFacts
  <1>3. ASSUME NEW a \in Piece, NEW b \in Piece, NEW r \in Strings, NEW c \in Piece, NEW d \in Piece
        PROVE  HasPrefix(Line(a, b, r), Two(c, d)) <=> c = a /\ d = b
    BY LineFacts
  <1> QED
    BY <1>1, <1>2, <1>3

(* Nothing is trimmed off a string that begins with no space, in front.    *)
LEMMA TrimSpaceBegins ==
    \A s, c : s \in Strings /\ c \in Piece /\ c # Space /\ HasPrefix(s, One(c))
        => HasPrefix(TrimSpace(s), One(c))
  <1> SUFFICES ASSUME NEW s \in Strings, NEW c \in Piece, c # Space, HasPrefix(s, One(c))
               PROVE  HasPrefix(TrimSpace(s), One(c))
    OBVIOUS
  <1>1. Len(s) \in Nat /\ DOMAIN s = 1..Len(s) /\ Len(s) >= 1 /\ s[1] = c
    BY StringFacts, PrefixOfOne DEF One
  <1>2. Solid(s) # {}
    BY <1>1 DEF Solid
  <1>3. PICK a, b : a = Min(Solid(s)) /\ b = Max(Solid(s))
    OBVIOUS
  <1>4. a = 1 /\ b \in 1..Len(s)
    <2>1. a \in 1..Len(s) /\ b \in 1..Len(s) /\ a <= 1
      BY <1>1, <1>2, <1>3, SolidFacts
    <2> QED
      BY <1>1, <2>1
  <1>5. TrimSpace(s) = SubSeq(s, 1, b)
    BY <1>2, <1>3, <1>4 DEF TrimSpace, Solid, Space
  <1>6. SubSeq(s, 1, b) \in Strings /\ Len(SubSeq(s, 1, b)) >= 1 /\ SubSeq(s, 1, b)[1] = c
    <2>1. /\ SubSeq(s, 1, b) \in Strings /\ Len(SubSeq(s, 1, b)) = b
          /\ \A i \in 1..b : SubSeq(s, 1, b)[i] = s[i]
      <3>1. /\ SubSeq(s, 1, b) \in Strings
            /\ Len(SubSeq(s, 1, b)) = IF 1 <= b THEN b - 1 + 1 ELSE 0
            /\ \A i \in 1..(b - 1 + 1) : SubSeq(s, 1, b)[i] = s[1 + i - 1]
        BY <1>1, <1>4, SubString
      <3>2. b - 1 + 1 = b /\ 1 <= b /\ \A i \in 1..b : 1 + i - 1 = i
        BY <1>1, <1>4
      <3> QED
        BY <3>1, <3>2
    <2> QED
      BY <1>1, <1>4, <2>1
  <1> QED
    BY <1>5, <1>6, PrefixOfOne DEF One

LEMMA Beginnings ==
    /\ \A s, c : s \in Strings /\ c \in Piece =>
          (HasPrefix(s, One(c)) <=> s # << >> /\ s[1] = c)
    /\ \A s : s \in Strings => TrimSpace(s) \in Strings
    /\ \A s : s \in Strings /\ TrimSpace(s) # << >> =>
          TrimSpace(s)[1] # Space /\ EndsSolid(TrimSpace(s))
    /\ \A s : s \in Strings => TrimSpace(TrimSpace(s)) = TrimSpace(s)
    /\ \A s : s \in Strings /\ s # << >> /\ s[1] # Space /\ EndsSolid(s) => TrimSpace(s) = s
  <1>1. ASSUME NEW s \in Strings, NEW c \in Piece
        PROVE  HasPrefix(s, One(c)) <=> s # << >> /\ s[1] = c
    BY PrefixOfOne, NotEmpty, Zenon DEF One
  <1>2. ASSUME NEW s \in Strings
        PROVE  /\ TrimSpace(s) \in Strings
               /\ TrimSpace(s) # << >> => TrimSpace(s)[1] # Space /\ EndsSolid(TrimSpace(s))
               /\ TrimSpace(TrimSpace(s)) = TrimSpace(s)
    BY TrimSpaceFacts, TrimSpaceTwice, Zenon DEF EndsSolid
  <1>3. ASSUME NEW s \in Strings, s # << >>, s[1] # Space, EndsSolid(s)
        PROVE  TrimSpace(s) = s
    BY <1>3, TrimSpaceKeeps, NotEmpty, Zenon DEF EndsSolid
  <1> QED
    BY <1>1, <1>2, <1>3

LEMMA WordReads ==
    /\ \A w : w \in Strings /\ w # << >> /\ ~Contains(w, Space) =>
          FirstWord(w) = w /\ Fields(w) # {} /\ \A f : ExtractFlag(w, f) = << >>
    /\ \A w, r : w \in Strings /\ w # << >> /\ ~Contains(w, Space) /\ r \in Strings =>
          FirstWord(Spaced(w, r)) = w /\ Fields(Spaced(w, r)) # {}
    /\ \A f, r : f \in Piece /\ f # Space /\ r \in Strings /\ Fields(r) # {} =>
          ExtractFlag(Spaced(One(f), r), f) = FirstWord(r)
    /\ \A w, r, f :
          /\ w \in Strings /\ w # << >> /\ ~Contains(w, Space) /\ r \in Strings /\ w # One(f)
          => ExtractFlag(Spaced(w, r), f) = ExtractFlag(r, f)
  <1>1. ASSUME NEW w \in Strings, w # << >>, ~Contains(w, Space)
        PROVE  FirstWord(w) = w /\ Fields(w) # {} /\ \A f : ExtractFlag(w, f) = << >>
    BY <1>1, FirstOfOne, SomeWord, FlagOfOne, Zenon
  <1>2. ASSUME NEW w \in Strings, w # << >>, ~Contains(w, Space), NEW r \in Strings
        PROVE  FirstWord(Spaced(w, r)) = w /\ Fields(Spaced(w, r)) # {}
    BY <1>2, FirstOfSpaced, SomeWord, Zenon
  <1>3. ASSUME NEW f \in Piece, f # Space, NEW r \in Strings, Fields(r) # {}
        PROVE  ExtractFlag(Spaced(One(f), r), f) = FirstWord(r)
    BY <1>3, FlagFound, Zenon DEF One
  <1>4. ASSUME NEW w \in Strings, w # << >>, ~Contains(w, Space), NEW r \in Strings, NEW f,
               w # One(f)
        PROVE  ExtractFlag(Spaced(w, r), f) = ExtractFlag(r, f)
    BY <1>4, FlagPassed, Zenon DEF One
  <1> QED
    BY <1>1, <1>2, <1>3, <1>4
=============================================================================
