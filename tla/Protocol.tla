------------------------------ MODULE Protocol ------------------------------
(***************************************************************************)
(* What becomes of one line on its way through the parsers of client and   *)
(* server: a line somebody types, or the key request that follows a join.  *)
(*                                                                         *)
(* Names and texts may contain the very separators the parsers cut at, so  *)
(* strings are modelled: as sequences of pieces, where a separator, a word *)
(* somebody looks for, and a run of other characters is one piece each.    *)
(* Who is connected and who holds which key is not: that is KeyExchange.   *)
(***************************************************************************)
EXTENDS Naturals, SequencesExt

CONSTANTS
    NamePiece, TextPiece, WordPiece,    \* what is typed: names, texts, options
    LongPiece,                          \* the pieces of 8 characters or more
    MaxName, MaxText, MaxWord           \* bounds: pieces

ASSUME PiecesAssumption ==
    /\ " " \notin WordPiece     \* a word ends where a space begins
    /\ "-p" \notin LongPiece    \* it has two characters
ASSUME LengthsAssumption == MaxName \in Nat /\ MaxText \in Nat /\ MaxWord \in Nat

VARIABLES
    typed,      \* the line as typed, if any
    from, to,   \* the user whose connection the line takes, the one it is for
    keyed,      \* they share a key, or `from` has the key `to` asks for
    roomed,     \* `from` is in a room
    at,         \* where the line is
    line,       \* its form there
    result      \* what was finally done, and with which strings

inputs == <<typed, from, to, keyed, roomed>>
pVars == <<inputs, at, line, result>>

----------------------------------------------------------------------------
(* The functions of package strings.                                       *)

TrimSpace(s) ==
    LET solid == {i \in DOMAIN s : s[i] # " "}
    IN  IF solid = {} THEN << >> ELSE SubSeq(s, Min(solid), Max(solid))

HasPrefix(s, prefix) == IsPrefix(prefix, s)

(* SplitN(s, sep, 2); a third part is cut off the second.                  *)
Cut(s, sep) ==
    LET places == {i \in DOMAIN s : IsPrefix(sep, SubSeq(s, i, Len(s)))}
    IN  IF places = {} THEN <<s>>
        ELSE <<SubSeq(s, 1, Min(places) - 1), SubSeq(s, Min(places) + Len(sep), Len(s))>>
CutTwice(s, sep) ==
    LET parts == Cut(s, sep)
    IN  IF Len(parts) = 1 THEN parts ELSE <<parts[1]>> \o Cut(parts[2], sep)

(* Fields: the places where a word begins, and the word that begins at i.  *)
Fields(s) == {i \in DOMAIN s : s[i] # " " /\ (i = 1 \/ s[i - 1] = " ")}
Field(s, i) ==
    SubSeq(s, i, Min({j \in i..Len(s) + 1 : j = Len(s) + 1 \/ s[j] = " "}) - 1)

----------------------------------------------------------------------------
(* The lines.                                                              *)

ChatLine(name, msg) == <<"CHAT_MSG", ":", "[">> \o name \o <<"]", ":", " ">> \o msg
ReqFrom(name) == <<"KEY_DELIVERY", ":", "REQ_FROM", ":">> \o name \o <<":", "public key">>
From(name, data) == <<"KEY_DELIVERY", ":", "FROM", ":">> \o name \o <<":">> \o data
SendKey(name) == <<"/", "sendKey", " ">> \o name \o <<" ", "sealed key">>
UserJoined(name) == <<"USER_JOINED", ":">> \o name \o <<" ", "has joined the room">>

(* The base64 of a text may begin with any character of its alphabet.      *)
EncryptForChat == {<<"base64">>, <<"/", "base64">>}

Command(word) == <<"/", word>>
Option(flag, word) == <<" ", flag, " ">> \o word
CreatePublic(n) == Command("create") \o Option("-n", n) \o <<" ", "--public">>
CreatePrivate(n, p) ==
    Command("create") \o Option("-n", n) \o Option("-p", p) \o <<" ", "--private">>
JoinPrivate(n, p) == Command("join") \o Option("-n", n) \o Option("-p", p)

----------------------------------------------------------------------------
Name == SeqOf(NamePiece, MaxName)
Word == SeqOf(WordPiece, MaxWord) \ {<< >>}

Typing(s) == at = "terminal" /\ typed = s /\ line = s
Arriving(s) == at = "socket" /\ typed = << >> /\ line = s /\ roomed = TRUE

PInit ==
    /\ from \in Name /\ keyed \in BOOLEAN
    /\ \/ \E s \in SeqOf(TextPiece, MaxText) :
             Typing(s) /\ roomed \in BOOLEAN /\ to = << >>
       \/ /\ from = << >> /\ to = << >> /\ ~keyed /\ roomed = FALSE
          /\ \E n \in Word :
                \/ Typing(CreatePublic(n))
                \/ \E p \in Word : Typing(CreatePrivate(n, p)) \/ Typing(JoinPrivate(n, p))
       \/ to \in Name /\ Arriving(ReqFrom(to))
       \/ to \in Name /\ Arriving(UserJoined(to))
    /\ result = [did |-> "nothing", with |-> << >>]

Goes(s, place) == line' = s /\ at' = place /\ UNCHANGED <<inputs, result>>
Ends(did, with) ==
    /\ result' = [did |-> did, with |-> with]
    /\ at' = "end"
    /\ UNCHANGED <<inputs, line>>

----------------------------------------------------------------------------
(* The client that sends.                                                  *)

IsCommand(s) == HasPrefix(s, <<"/">>)

Terminal ==
    /\ at = "terminal"
    /\ LET text == TrimSpace(line)
       IN  CASE text = << >>           -> Ends("ignored", << >>)
             [] text = Command("quit") -> Ends("ran", <<text>>)
             [] OTHER                  -> Goes(text, "client")

EncryptsAll(s) == keyed
Encrypts(s) == keyed /\ ~IsCommand(s)
SendMessage ==
    /\ at = "client"
    /\ \E s \in IF Encrypts(line) THEN EncryptForChat ELSE {line} : Goes(s, "server")

----------------------------------------------------------------------------
(* The server: one turn of the loop, then HandleInternalCommand.           *)

Loop ==
    /\ at = "server"
    /\ LET msg == TrimSpace(line)
       IN  CASE IsCommand(msg) -> Goes(msg, "command")
             [] ~IsCommand(msg) /\ roomed -> Goes(ChatLine(from, msg), "socket")
             [] OTHER -> Ends("refused", << >>)

(* The word after the first that is the flag and is not the last.          *)
WordsAfter(s, i) == {j \in Fields(s) : j > i}
Flags(s, flag) == {i \in Fields(s) : Field(s, i) = <<flag>> /\ WordsAfter(s, i) # {}}
ExtractLast(s, flag) ==
    IF Flags(s, flag) = {} THEN << >>
                           ELSE Field(s, Min(WordsAfter(s, Max(Flags(s, flag)))))
ExtractFlag(s, flag) ==
    IF Flags(s, flag) = {} THEN << >>
                           ELSE Field(s, Min(WordsAfter(s, Min(Flags(s, flag)))))

(* The flags of privacy are looked for anywhere in the line.               *)
Create(msg) ==
    LET name == ExtractFlag(msg, "-n")
        pass == ExtractFlag(msg, "-p")
        private == Contains(msg, "--private")
    IN  IF \/ private = Contains(msg, "--public")
           \/ name = << >>
           \/ private /\ ~ \E p \in LongPiece : Contains(pass, p)
        THEN Ends("refused", << >>)
        ELSE Ends("created", <<name, IF private THEN pass ELSE << >> >>)

(* Which room that is, and whether its password is the one given, is       *)
(* JoinRoom of Storage.                                                    *)
JoinRoom(msg) ==
    LET name == ExtractFlag(msg, "-n")
    IN  IF name = << >> THEN Ends("refused", << >>)
                        ELSE Ends("joined", <<name, ExtractFlag(msg, "-p")>>)

(* The session of the target is found if the name is that of `to`.         *)
Relay(msg) ==
    LET parts == CutTwice(msg, <<" ">>)
    IN  IF Len(parts) = 3 /\ parts[2] = to THEN Goes(From(from, parts[3]), "socket")
                                           ELSE Ends("ignored", << >>)

(* Of these only the first word is looked at.                              *)
Bare == {Command(w) : w \in {"users", "rooms", "leave-room", "help", "quit"}}

HandleInternalCommand ==
    /\ at = "command"
    /\ LET cmd == Field(line, Min(Fields(line)))
       IN  CASE cmd = Command("create")  -> Create(line)
             [] cmd = Command("join")    -> JoinRoom(line)
             [] cmd = Command("sendKey") -> Relay(line)
             [] cmd \in Bare             -> Ends("ran", <<cmd>>)
             [] OTHER                    -> Ends("unknown", << >>)

----------------------------------------------------------------------------
(* The client that reads: parseRawLine and dispatch.                       *)

(* processKeyRequest: what is no public key seals nothing.                 *)
ProcessKeyRequest(target, key) ==
    IF keyed /\ key = <<"public key">> THEN Goes(SendKey(target), "server")
                                       ELSE Ends("ignored", << >>)

CutAtFirst(s) == Cut(s, <<":">>)
KeyParts(s) == CutTwice(s, <<":">>)

HandleKeyDelivery(msg) ==
    LET parts == KeyParts(SubSeq(msg, 3, Len(msg)))
    IN  CASE Len(parts) < 3 -> Ends("ignored", << >>)
          [] Len(parts) = 3 /\ parts[1] = <<"REQ_FROM">> ->
                ProcessKeyRequest(parts[2], TrimSpace(parts[3]))
          [] OTHER ->
                Ends(IF TrimSpace(parts[3]) = <<"sealed key">> THEN "installed" ELSE "ignored",
                     << >>)

HandleUserJoined(msg) ==
    LET parts == CutTwice(msg, <<":">>)
    IN  IF Len(parts) = 3 THEN ProcessKeyRequest(parts[2], TrimSpace(parts[3]))
                          ELSE Ends("ignored", << >>)

(* Of what follows the label, the reader opens what was encrypted.         *)
LabelAnyColon == <<":">>
Label == <<":", " ">>
ProcessIncomingChat(msg) ==
    LET parts == Cut(msg, Label)
    IN  IF keyed /\ Len(parts) = 2 /\ TrimSpace(parts[2]) \in EncryptForChat
        THEN Ends("decrypted", <<parts[1], TrimSpace(typed)>>)
        ELSE Ends("printed", <<msg>>)

ParseRawLine(msg) ==
    IF HasPrefix(msg, <<"KEY_DELIVERY", ":">>) THEN "KEY_DELIVERY"
    ELSE IF HasPrefix(msg, <<"USER_JOINED", ":">>) THEN "USER_JOINED"
    ELSE IF Contains(msg, "created") THEN "SYSTEM_INFO"
    ELSE IF Contains(msg, "PROMOTED") THEN "HOST_PROMOTED"
    ELSE "CHAT_MSG"

Read ==
    /\ at = "socket"
    /\ LET msg == TrimSpace(line)
           event == ParseRawLine(msg)
       IN  CASE event = "KEY_DELIVERY"  -> HandleKeyDelivery(msg)
             [] event = "USER_JOINED"   -> HandleUserJoined(msg)
             [] event = "SYSTEM_INFO"   -> Ends("drew a key", << >>)
             [] event = "HOST_PROMOTED" -> Ends("became host", << >>)
             [] event = "CHAT_MSG"      -> ProcessIncomingChat(msg)

PNext == Terminal \/ SendMessage \/ Loop \/ HandleInternalCommand \/ Read

PSpec == PInit /\ [][PNext]_pVars
----------------------------------------------------------------------------
(* Properties.                                                             *)

MeantAsCommand == HasPrefix(TrimSpace(typed), <<"/">>)
Cast == HasPrefix(line, <<"CHAT_MSG">>)

(* What somebody types as a command, a room password included, is never    *)
(* cast to the room, and what is typed as a text never runs as a command,  *)
(* although client and server each decide by themselves, the one on the    *)
(* text and the other on what the first made of it (client.go:135,         *)
(* handler.go:120).                                                        *)
CommandsAndTextsApart ==
    /\ Cast => ~MeantAsCommand
    /\ result.did \in {"ran", "created", "joined"} => MeantAsCommand

(* A line of the documented forms of /create makes the room it describes,  *)
(* with its name, its password and its privacy, or none: whatever words    *)
(* stand for the name and the password, those of options included          *)
(* (commands.go:45-62, README.md:94-95).                                   *)
CreatedAsWritten ==
    result.did = "created" => \A n, p \in Word :
        /\ typed = CreatePublic(n) => result.with = <<n, << >> >>
        /\ typed = CreatePrivate(n, p) => result.with = <<n, p>>

(* A line of the documented form of /join asks for the room it names, with *)
(* the password it gives, whatever words these are, unless the room is     *)
(* named like the option of the password (commands.go:125-126, README.md:  *)
(* 97).                                                                    *)
JoinedAsWritten ==
    result.did = "joined" => \A n, p \in Word :
        typed = JoinPrivate(n, p) => n = <<"-p">> \/ result.with = <<n, p>>

(* An encrypted text that is cast is shown with its author and as it was   *)
(* typed, exactly when the name of the author holds neither a separator    *)
(* nor a word parseRawLine looks for (client.go:171-174, 205).             *)
ReadsAsTyped ==
    at = "end" /\ Cast /\ keyed =>
        (result = [did |-> "decrypted",
                   with |-> <<<<"CHAT_MSG", ":", "[">> \o from \o <<"]">>, TrimSpace(typed)>>]
         <=> /\ Len(Cut(from, <<":", " ">>)) = 1
             /\ ~Contains(from, "created") /\ ~Contains(from, "PROMOTED"))

(* A key asked for arrives exactly when its holder has one, the name of    *)
(* the joiner holds no colon and no space, and that of the holder no       *)
(* colon: the three lines it takes are cut at these (client.go:225,        *)
(* commands.go:240).                                                       *)
AskedForKey == typed = << >> /\ (HasPrefix(line, <<"KEY_DELIVERY">>) \/ HasPrefix(line, <<"/">>))
KeyReachesPlainNames ==
    at = "end" /\ AskedForKey =>
        (result.did = "installed"
         <=> /\ keyed /\ ~Contains(from, ":")
             /\ ~Contains(to, ":") /\ ~Contains(to, " "))

(* The server takes no text for a command, but casts it ("Launches a TCP   *)
(* server to handle message broadcasting between connected clients",       *)
(* cmd/server.go:21).                                                      *)
TextsAreBroadcast == roomed /\ result.did = "unknown" => MeantAsCommand
=============================================================================
