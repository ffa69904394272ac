# Vanished Rooms: specifications and proofs

TLA+ modules for the server, the clients and the protocol between them in
Vanished Rooms, the TLC configurations that check them, and TLAPS proofs of
their safety properties. Paths below are relative to the repository
(`internal/...`) or to this directory (`*.tla`, `*.cfg`).

## 1. The system

| Component | Code | State | Operations |
|---|---|---|---|
| Repository | `internal/storage` | the SQLite tables `users`, `rooms`, `participants` | `CreateUser`, `DeleteUser`, `CreateAndJoinRoom`, `JoinRoom`, `LeaveRoomAndDeleteRoomIfEmpty`, `PromoteNextHost`, `PurgeEverything`, listings; eight functions without a caller |
| Connection handler | `internal/network/handler.go` | one goroutine per connection with its `user` variable | registration, command loop, deferred teardown |
| Commands | `internal/network/commands.go` | `sv.Clients` under `sv.mu`; `user.CurrentRoomUUID`, `user.IsOwner` | `/create /join /leave-room /sendKey /quit /users /rooms /help` |
| Broadcast | `internal/network/broadcast.go` | none | chat and notices to the sessions of a room |
| Client | `internal/network/client.go` | `aesKey`, `isHost` | `Listen` and its handlers, `SendMessage` |
| Boot and shutdown | `internal/network/server.go`, `cmd/server.go` | none | `PurgeEverything` at both ends, `/ws` |
| Cryptography, logger, UI, CLI, Tor, web page | the rest | none that matters here | pure functions and I/O |

**How they interact.** Handlers share two things: the database, through a
`database/sql` pool, and the map `sv.Clients`. A command first runs its call on
the repository, then, separately, updates its local variables and the map under
`sv.mu`. The teardown goes the other way: the map first, then the tables. The
server asks the host's client for the room key by a line on its socket, and
relays the client's answer, `/sendKey`, to the session of the name it carries.

**What is hard.** Two goroutines between two steps of each other, with table and
map disagreeing in between; `PromoteNextHost`, which reads outside the
transaction that writes; errors nobody looks at, one of which leaves a
transaction open; foreign keys enforced on one connection of the pool; names
that pass to another user; keys that cross leaves and joins on the way; a
broadcast that takes time; a process that dies, or stops, under its handlers;
lines cut at separators that names and texts may contain. None of this has a
test: the repository has no test file. `PROJECT.json` lists the hazards, each at
its line, and the properties aimed at it.

**What makes each part correct.**

- Repository: capacity, one room per user, a room exists exactly while somebody
  is in it, references resolve, nothing remains of a closed connection.
- Handler and commands: names of sessions are unique (routing is by name), a
  session is routed to a room only while its user is a participant of it,
  tables, map and locals agree when a goroutine is at rest, a room has a host
  and one only.
- Key exchange: a participant gets the key of its room, nobody else gets one,
  a request is answered.
- Chat: what is said in a room reaches those in it, encrypted with a key they have.
- Lines: what is typed is what is done, or what is read at the other end.
- Boot and shutdown: nothing survives a restart.

## 2. Modules

| Module | Models |
|---|---|
| `Storage` | the tables, one action or operator per repository call, failing statements |
| `Transactions` | the same calls, statement by statement, on SQLite's snapshots and its write lock |
| `RoomServer` | `HandleConnection` and the commands, over `Storage`; the server's properties |
| `Membership` | the abstract specification: where everybody is, which rooms exist |
| `KeyExchange` | `RoomServer` composed with clients and sockets: how keys travel |
| `Chat` | `KeyExchange` with texts, `Broadcast` and the lock it holds |
| `Lifecycle` | `RoomServer` in a process that boots, stops and crashes |
| `Protocol` | one line through the parsers of client and server, as a string |
| `RoomServerInv` | the inductive invariant of the server |
| `RoomServerProofs`, `RoomServerRefinement` | theorems: invariants; action properties and the refinement |
| `KeyExchangeProofs`, `ChatProofs`, `TalkProofs`, `LifecycleProofs` | theorems of the three modules on top |
| `StringProofs`, `ProtocolProofs` | lemmas about strings and their parsers; theorems of `Protocol` |
| `MCTransactions`, `MCRoomServer`, `MCKeyExchange`, `MCChat`, `MCLifecycle` | instances for TLC |

`Storage <- RoomServer <- KeyExchange <- Chat` and `RoomServer <- Lifecycle` extend
one another: each adds variables and wraps every action of the one below with
its own part of the handler. `Transactions` extends `Storage` too, to justify it.
`Protocol` stands alone.

**State.** `users`, `rooms`, `participants` are functions from keys to rows, with
the columns the code reads: a user's name, `is_owner`, `uuid_current_room` and
`joined_at`; a room's name and password. `sess` is `sv.Clients`, `user[c]` the
variable `user` of the goroutine of `c`, `pc[c]` where it stands and `job[c]`
the locals of its running command. A connection is named by its UUID, and UUIDs
are never drawn twice (`issued` for rooms; a goroutine runs once).

**Grain.** A step is what a goroutine does between two points where another can
act: one repository call, or one section under `sv.mu` with the assignments next
to it. `/create` is `Create`, `CreateMem`; `/join` is `Join`, `JoinMem`;
`/leave-room` is `Leave`, `Select`, `HandOver`, `LeaveTx`, `LeaveMem`; the deferred
function is `Teardown`, `Select`, `HandOver`, `LeaveTx`, `Purge`. `/quit` and any
other end of a connection is `HangUp`, or `GiveUp` before the credentials are
read; a registration the database refuses goes straight to `Teardown`, which
without a session runs only `DeleteUser`. Refused commands and commands that
only print change nothing. `PromoteNextHost` queries outside its transaction: two steps.

**Why a call is one step.** `Transactions` does not assume it. There a call is its
statements, each a step between which all others may run theirs, on what SQLite
promises in WAL mode (`cmd/server.go:29`) to deferred transactions, which is what
`db.Begin` opens: the first statement takes a snapshot, later ones read it and the
transaction's own writes (`view`), the first write takes the only write lock
(`writer`) and is refused if another transaction has committed since the snapshot
(`behind`). `CallsAreAtomic` says that what is committed is always one of `Storage`'s
steps on the tables as they are then. So two joins may both count a last place,
and a join may look at a room while its last participant goes; the second of
them to write is refused. It is the snapshot that refuses it, not the order of the statements:
with a query that is not part of the transaction, as the one of `PromoteNextHost`,
the run fails (the mutant `QueryOutside`).

**Failures.** Up to `MaxFaults` statements fail; since the code sets no busy
timeout, SQLITE_BUSY makes that an ordinary event. A failing `/create` or `/join`
changes nothing; `WriteFails` is the alternative wherever the code goes on
regardless (`CreateUser`, `PromoteNextHost`, `LeaveRoom...`, `DeleteUser`, the purges).
`PromoteLeaks` is the second `UPDATE` of `PromoteNextHost`: it returns without
`Rollback` (`repository_users.go:109-112`), and `locked` makes every later write fail.
Deletions cascade to `participants` or not, either way, since
`PRAGMA foreign_keys=ON` (`cmd/server.go:32`) reached one connection of the pool.

**Keys.** A key is named by the room whose creation drew it, or by the client
that drew it by mistake, and a sealed key opens for the user it was sealed for. A
goroutine's writes follow the section that decided them (`pending`) and go to the
end of the peer's `inbox`; `outbox` holds what a client has sent and the server not
read. The client takes every line that contains `created` for the creation of a
room (`client.go:171`): names, of rooms or of users, that contain it are in `Telltale`,
and a line that shows one is a `Tale`: a listing (`/rooms`, `/users`, the list sent at
first), the confirmation of a join, and the notice of a promotion. `KHandOver`
commits the promotion and puts the new host's `Notice` into `pending`; `Notify` is
`NotifyPromotion`, which looks up the new host's room only then, when others may have
joined or left, and turns the notice into one write for each session of that room.
`admitted` is history.

**Chat.** A text is its author, the key it is encrypted with (none: in plain),
the room it goes to, and whether its line contains `created`, be it in a text in plain
or in the name of its author. `Broadcast` takes `sv.mu` and
writes to one session after another: `cast` is the broadcast that holds the lock,
`CastTo` one write, and every section of another goroutine under `sv.mu` waits.
Transactions do not: the loop releases `sv.mu` before it runs a command
(`handler.go:114`), so that `/create`, `/join` and `/leave-room` may commit between the writes of a
broadcast. `Notify` waits for `sv.mu`, since `NotifyPromotion` calls `Broadcast`; its
writes do not hold the lock in the model, which allows more than the code. A text
whose base64 starts with a slash is dropped. `keyed` is history: whom the author had
sent a key to.

**Process.** `phase` is off, boot, up or stop. `todo` holds the statements of the
running `PurgeEverything`: `PurgeStatement` executes one, or fails and skips the
others. `Handlers` go on during the last purge, since nothing stops them. `Exit` and
`Crash` lose everything but the tables; goroutines of the old life are closed, so
that their UUIDs do not return.

**Lines.** A string is a sequence of pieces; a separator, a word somebody
searches for, and a run of other characters are one piece each. `Protocol` takes a
line from the terminal (or a key request, or a notice, from the server) through
`SendMessage`, the loop, a command (each that `HandleInternalCommand` knows, told
apart) or a cast, and the reader's handlers. Its
initial states enumerate the lines; its steps are the functions on the way.

## 3. Runs

| Run | Bounds | Shows |
|---|---|---|
| `core` | 3 connections, 3 names, 2 rooms of 2 places, 2 room names, 1 failure | the server's invariants and action properties, the refinement until the failure |
| `transactions` | 3 callers, 3 names, 1 room of 2 places, 1 failure | `CallsAreAtomic` |
| `keys` | 3 connections, 2 names, 1 room of 2 places, `created` in its name and in one of a user, 1 join, 1 listing | `OthersKeyNeedsAdmission` |
| `live` | 2 connections, 1 room, 1 join; or 3 in the middle of a conversation | `Vanish`, `Answered` |
| `chat` | 3 connections, 3 names, one with `created` in it, 2 rooms of 3 places, 1 text, 1 listing | who hears, and with which key |
| `lifecycle` | 2 connections, 3 names, 1 room, 1 failure, 2 lives; or 3 UUIDs, at least one of an earlier life, 2 rooms | what purges and restarts leave |
| `lines` | names and words of 2 pieces, texts of 3 | what becomes of a line |
| `hostless`, `keyless`, `wrong_key`, `amnesia`, `lost_text` | as above | five disagreements, section 5 |

What the passing runs check:

- `UniqueSessionNames`: `/sendKey` finds its target by name alone.
- `RoutedOnlyToMembers`: `session.Room`, which is all `Broadcast` looks at, names a
  room only while the user is in it, but for one window: `/leave-room` commits
  before it clears `session.Room` (`pc = "left"`), and in between the leaver still
  receives the room's messages. With failures the property still holds.
- `CapacityRespected`, `RoomsSelfDestruct`, `NoRoomDeletedUnderMembers`: joins,
  departures and teardowns in any order.
- `ClosedLeavesNoTrace`, `Vanish`: nothing remains of who has gone. Both need
  that nothing failed: a failed `DeleteUser` is never retried. `Vanish` is checked of the
  server among its clients, whose lines it still writes.
- `AtRestTablesMatchMemory`: table, map and locals agree at rest.
- `CreatorKeepsOwnership`, `OwnerClearedOnlyBySelf`: promotions take the role from
  nobody but the user who leaves.
- `MembershipUntilFailure`: until a statement fails, a step of the server is one step
  of `Membership`, or none.
- `CallsAreAtomic`: see "Why a call is one step".
- `OthersKeyNeedsAdmission`: names may pass to others while answers are in flight,
  the seal does not; the keys clients draw by mistake stay with them or go to
  those admitted to their room.
- `Answered`: a request that reaches a client with a key leads to a key.
- `HeardOnlyByAdmitted`, `AudienceIsInTheRoom`: nobody slips into a broadcast or out
  of one, from its start to its last write.
- `KeyPrecedesTalk`: a key and the text after it travel different ways, `/sendKey` and
  `Broadcast`; the reader has a key when the text comes.
- `NoGhosts`, `FreshAfterBoot`, `SafeAmongGhosts`, `OldRowsAreGone`: wherever a process
  dies, a boot whose purge goes through is a fresh start; one whose purge fails
  (`server.go:51` only logs it) serves on the old rows, and names, routing and
  capacity survive even that; the purge at the end deletes what it
  found.
- `CommandsAndTextsApart`: client and server decide separately whether a line is
  a command, the one on the text, the other on what the first made of it; nothing
  typed as a command, a room password for example, is ever cast to a room.
- `CreatedAsWritten`: `/create` in its documented form makes the room it describes or
  none, even if names and passwords are words of options. Outside that form,
  `/create -n X -p --private` makes a room whose password is `--private`
  (`commands.go:58` looks for the flag anywhere).
- `JoinedAsWritten`: the same of `/join -n X -p Y`. It excepts a room named `-p`, which
  `/create` does make if its password stands first: `/join -n -p -p Y` then gives `-p` for
  the password.
- `ReadsAsTyped`, `KeyReachesPlainNames`: a text is read as typed, and a key arrives,
  exactly when the names in the lines are free of what the parsers look for. The
  server restricts names in no way, so these say which names work: without
  `": "`, `created` and `PROMOTED` to be read, without colon and space to get a key.

**Why these bounds.** Every property of the server is about at most three
parties: one who leaves, one promoted, one who joins or arrives with a name that
became free; a third connection is what makes the heir of a room other than the
only other one. Two places let three connections meet a full room. Two rooms let
a user who left be elsewhere. With `MaxTime = 0` all `joined_at` are equal, so the next
in line is arbitrary, which contains every order the clock could give; `KeyExchange`,
`Chat` and `Lifecycle` leave the clock out for that reason. In `core` the clock runs
(`MaxTime = 1`) as long as one of the three connections has not come, and if it has run
that one never comes (`TimePasses`).
`MaxFaults = 1` lets each statement fail alone, and one leak makes all later writes
fail. `transactions` has one place fewer than callers, so that two may compete for the
last place while one leaves. Two lives show what one leaves to the next; a third would
find what the second found, or less. UUIDs, names and room names are symmetric;
`live` uses no symmetry, nor does `chat`, whose starts fix who is who. A text of three
pieces has room for spaces on either side of a command; a name of two has one for a separator that is not a prefix.
The theorems of section 4 hold without these bounds.

`chat` starts in the middle of a conversation (`MCInit`), since registering three users
takes too many states: all three in a room, the name with `created` being a guest's;
or, the name being the host's, the host in a room and a guest about to join, with one
more creation still to come, or the two in a room, with one listing still to come.
These are states of `Chat` with empty sockets. Two bounds keep to what the run is
about: nothing happens any more once the text is heard or nobody can say or hear
one (`Talk`), and besides the goroutine that broadcasts at most two are amid a command or
a teardown (`MaxAmid`). The theorems of `ChatProofs` start from `CInit`.

`live` has no symmetry and starts (`LiveInit`) with nobody, for two connections, or in the
middle, for three: all in a room, or two in it and one still to come, whose name may
be taken. These let heirs, leavers, those refused and those who hang up be different
users at once. No join is left in the latter, so that departures are what remains.

`lifecycle` starts at the beginning, with two connections and one room, or between two lives
(`GhostInit`), on what a crash left: up to three users with old rows, some in a room, any
number of them its hosts. So enough connections are still to come that, if the purge at
boot fails, up to two new ones compete with each other and with one or two old rows
for names and for the two places of a room. This is the case `SafeAmongGhosts` is about.

Deadlock is not checked: a server whose connections have all closed stops, and a
line ends.

**Fairness.** `KFairness` has weak fairness of the writes a goroutine still has to do
(`Write`, `Notify`) and of its own steps (`Own`): the Go runtime schedules every goroutine, and
the calls in `Work` return. Nothing is assumed of what peers ask for (`Request`): they
may stop for ever, hence the premise of `Vanish`, which needs no more than this.
`Answered` needs also weak fairness of the client's
`Listen`, and strong fairness of `SendKey`, because a socket is FIFO: a command
already sent is read before the goroutine blocks for later ones, although
the goroutine may be busy again and again.

## 4. Proofs

All theorems hold for every number of users, names, rooms, passwords, joins,
texts and lives, every `MaxUsers >= 1`, and every number of failures unless said
otherwise; those of `Protocol` for lines, names and texts of every length over every
alphabet. The assumptions are those of `Storage` (the sentinels are not elements
of their sets, `User` is finite, the bounds are naturals), the naturals among the
bounds of the modules on top, and three that say what the constants stand for:
`KeyAssumption` (a client's own key is not the absence of a key), `PiecesAssumption` (a
word holds no space, since `Fields` ends it there; `-p` is shorter than the 8
characters `/create` asks of a password) and `LengthsAssumption`.

**The server.** `IInv` (`RoomServerInv`) is `TypeOK` with six parts. `UniqueSessionNames`
is not inductive: names in the map are unique because they are names of rows, rows
carry the name of their goroutine, and a row outlives its session (`SessionsInv`,
`NamesInv`). `RoutedOnlyToMembers` needs that the map follows the table into a room and
precedes it out (`RoutingInv`). Capacity needs that rooms not drawn yet are empty
(`CapacityInv`). `CreatorKeepsOwnership` needs the window of `/create`, and that
`OwnerAfter` clears only the flag of who departs (`OwnerInv`). The properties under
`faults = 0` need the place of every goroutine at each of its steps (`PlaceInv`).
The key lemma is `NonInterference`: a step of one goroutine leaves another's
locals, session, row and participation as they were, except `owner` which can
only rise; with it each part is one case per action for the goroutine that moves.

**Keys and chat.** `ServerAmongClients` and `ServerAmongTalkers` first show that the
larger systems contain the server unchanged, so that `IInv` is an invariant of
theirs. `KInv` then says where keys may be: `OthersKeyNeedsAdmission` is about clients, but
a key passes through a request, a command, a write and a line, so every one of
these must be about somebody admitted (`LinesInv`), and so must whoever is about to be
told `created` (`ArrivalsInv`). `CInv` says that every text in a socket is for
somebody admitted to its room, that sessions in a room are of people admitted
(`AdmittedInv`), and that those still to be written to by a broadcast are sessions
of its room (`CastInv`), which no step can disturb since all that could would need
`sv.mu`.

**Key before text.** A key goes from its holder's `outbox` through `pending` of the
goroutine that relays it into the reader's `inbox`; a text spoken later goes from the
same `outbox` through `cast` into the same `inbox`. `TalkInv` (`TalkProofs`) follows both. Whoever
was sent a key by the author of a text that is still in the `outbox` has the answer
before it there, or among the writes of the goroutine that reads that outbox, which
are done before it reads on, or in its inbox, or installed (`SpokenInv`); for a text
being cast one of the last two (`RelayedInv`); and a text in the inbox has the key ahead of it
(`HeardInv`, of which `KeyPrecedesTalk` is the head of an inbox). The case of an answer
that finds no session is why names must be `Settled`: the user the key is for keeps
its name from `OpenSession` on, so if nobody has it the reader is gone for good, and if
the session found by name is another's, the reader is gone too (`UniqueSessionNames`).

**Lines.** `StringProofs` proves what `TrimSpace`, `HasPrefix`, `SplitN` and `Fields` find in a
string that was joined from parts: `CutDelivery`, `CutAnnounced` and `CutAtLabel` say that a
cut gives back the parts exactly when the separator is not in the first of them, and
that otherwise what comes out is another name, or a third part with the separator in
it; `WordReads` says the same of words and flags. The definitions of `Protocol` speak of
least places and not of recursion, so none of this needs induction over data.
`ProtocolProofs` then names the form of a line on each stretch of its way. `LineInv` is the
inductive invariant: from `client` to `server` the text or what was encrypted of it; at
`command` something that begins with a slash; on the `socket` a text of `ChatLine`'s form
whose author typed no command, or a line that was relayed for a typed command, or one
of the three lines of a key request. It is needed because no property speaks of the
lines in between: `ReadsAsTyped` is about a line at its end and the line as it was typed.
Of what is done at the end, `LineStep` says that the way of a line ends once, with the line
as it was; one lemma for each parser and form (`ReadChat`, `ReadRequest`, `ReadDelivery`,
`ReadJoined`, `RelayAnswer`, `PublicAsWritten`, ...) says with what.

**The process.** A server that boots on old rows does not satisfy `IInv`. `LInv` therefore
separates what holds of the tables whoever writes them (`TablesInv`: types, capacity,
unique names), what holds of a server on any tables (`ServingInv`), and what holds
after a good purge (`CleanInv`: `IInv` again). `BootInv` and `StopInv` follow the three
statements one by one; `IdleInv` and `HistoryInv` say that old UUIDs stay closed.

| Theorem | Statement |
|---|---|
| `TypeCorrect`, `Inductive` | `Spec => []TypeOK`, `Spec => []IInv` |
| `SessionNamesUnique`, `RoutingCorrect`, `CapacityCorrect`, `OwnershipCorrect` | `UniqueSessionNames`, `RoutedOnlyToMembers`, `CapacityRespected`, `CreatorKeepsOwnership`, with failures |
| `SelfDestruction`, `NoTrace`, `Agreement` | the three invariants under `faults = 0` |
| `NobodyDeposed`, `NoRoomPulledAway` | the two action properties |
| `RefinementUntilFailure` | `Spec => MembershipUntilFailure`: the start, and every step until a failure |
| `Refinement` | `MaxFaults = 0` implies `Spec => Abstract!MSpec`, the specification of `Membership` |
| `ServerAmongClients`, `KeyInvariant` | `KSpec => Spec`, `KSpec => [](IInv /\ KInv)` |
| `KTypeCorrect`, `OthersKeysStayIn` | `KTypeOK`, `OthersKeyNeedsAdmission` |
| `ServerAmongTalkers`, `ChatInvariant` | `CSpec => Spec`, `CSpec => [](IInv /\ CInv)` |
| `CTypeCorrect`, `HeardInTheRoom`, `AudienceStays` | `CTypeOK`, `HeardOnlyByAdmitted`, `AudienceIsInTheRoom` |
| `TalkInvariant`, `KeyBeforeTalk` | `CSpec => [](IInv /\ CInv /\ TalkInv)`, `KeyPrecedesTalk` |
| `LinesInvariant` | `PSpec => []LineInv` |
| `TextsApart`, `RoomsAsWritten` | `CommandsAndTextsApart`, `CreatedAsWritten` |
| `TextsReadAsTyped`, `KeysReachPlainNames` | `ReadsAsTyped`, `KeyReachesPlainNames` |
| `CutDelivery`, `CutAtLabel` | what `SplitN` makes of a delivery and of a chat line |
| `LifeInvariant`, `LTypeCorrect` | `LSpec => []LInv`, `LTypeOK` |
| `GhostsAreGone`, `StartsAfresh`, `GhostsAreHarmless`, `OldRowsDeleted` | `NoGhosts`, `FreshAfterBoot`, `SafeAmongGhosts`, `OldRowsAreGone` |

Only model-checked: `Vanish` and `Answered`, since liveness under fairness is outside the
prover's reach; `CallsAreAtomic` with `TTypeOK`; and `JoinedAsWritten`. Every other
invariant and action property that a passing run checks is a theorem. Those about
the server rest on the grain of `Storage`, and so on `CallsAreAtomic`.

## 5. Where code and documentation disagree

Five are runs that end in a counterexample; `PROJECT.json` quotes the lines.

- `hostless`: a room keeps participants and no host.
- `keyless`: whoever joins before the host has read `created` never gets a key.
- `wrong_key`: a host that has moved to a room of its own answers an old request
  with the key of the new room.
- `amnesia`: the process ends with "Vanished successfully." and rows in its tables,
  because handlers insert behind the statements of the last purge.
- `lost_text`: an encrypted text whose base64 starts with a slash is answered with
  "Unknown command", one in 64.

Further ones, met on the way, that have no run of their own:

- The heir may have left. `PromoteNextHost` reads `uuid_current_room`, which leaving does
  not reset, and reads it before its transaction (one of the ways to `hostless`).
- A room can have two hosts. A creates it, B and C join, C hangs up: the teardown of C,
  who was not the host, promotes B all the same (`handler.go:37`). `README.md:40`
  reassigns the role if the host leaves.
- What a participant says before its key has arrived goes to the room in plain
  (`client.go:144`), where `README.md:19` has all traffic "strictly encrypted".
- One failed `LeaveRoom...` and a `DeleteUser` on a connection without foreign keys
  leave a participant without a user, and a room that never empties.
- `README.md:108` gives `/create -n secret_vault -p 1234 --private` as an example; it is
  refused (`commands.go:82`), as `README.md:95` says it should be.
- The notice of a join has two fields and `handleUserJoined` asks for three
  (`client.go:248`): its branch never does anything.

## 6. Not modelled

- `writeMu`. `/join` replaces the session and its mutex while another goroutine may hold
  the old one, and `Broadcast`, `NotifyPromotion` and the replies write without it. What
  two writers at once do is the WebSocket library's matter, which is not in the
  repository; in the model a connection is written to one line at a time.
- Sockets that fill up: a client that does not read blocks `Broadcast` under `sv.mu`, and
  with it every handler. The limits are the operating system's; here a write returns.
- The data races on `session.Room` (`handler.go:151`) and on the client's `aesKey`
  (`client.go:137`): the first may send a notice of a promotion to another room, the
  second encrypts with a key nobody has; no property tells these apart.
- Notices of joins beyond their form in `Protocol`: they change no state.
- Repository functions without a caller. Hashing, sealing and encryption are
  calls into libraries; private rooms are rooms with a password. Logger, UI, CLI,
  Tor, web page: no state that matters here.

## 7. Plan

1. Done: `Storage`, `Transactions`, `RoomServer`, `Membership`, `KeyExchange`, `Chat`, `Lifecycle`, `Protocol` and
   the proofs listed above.
2. Done: `KeyPrecedesTalk` and the properties of `Protocol` as theorems.
3. `OwnedRooms`: under which use of the commands (nobody leaves while a promotion is
   under way) a room does keep its host, as a property that holds.
4. `CallsAreAtomic` as a theorem: the transaction of a writer is a part of its call
   executed on the tables as they are, since nobody else commits while it holds the
   lock, and its queries before that saw the same tables, since it was not refused.
5. Bounded sockets: `Broadcast` and the client's listener that wait for each other, if
   the repository ever sets sizes or deadlines.

To repeat: `tlc -config RoomServer_core.cfg MCRoomServer.tla` (likewise for the
other configurations) and `tlapm ChatProofs.tla` (likewise for the other modules).
