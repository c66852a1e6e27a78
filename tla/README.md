# BoostAsioChat: a verification project

TLA+ models of the chat server and client in `src/` and of the logging library they are
built with, checked with TLC on small instances, and
theorems about them checked with TLAPS for every value of the constants.

## The system

| part | state | operations | talks to |
|---|---|---|---|
| `chat_server` | `channels_` (name → channel), `nick_buffer_`, acceptor | `start`, `stop`, `do_accept` with the nickname handler, `handle_message`, `do_command` (`/join`, `/leave`, `/nick`), `create_channel`, `remove_channel`, `valid_id` | users, channels, manager |
| `chat_user_manager` | `connections_` | `start`, `stop`, `stop_all`, `user`, `user_exists` | users |
| `chat_channel` | `users_`, `name_` | `join`, `leave`, `publish` (`leave_all` is never called) | users, server |
| `chat_user` | socket, `write_msgs_`, `channels_`, `name_`, ping timer, retries | read loop, `write`/`do_write`, `ping`, `stop`, `close_socket`, `leave_all_channels`, `name` | manager, server, channels |
| server `main` | – | reads the console, lists the tables, `/quit` | `chat_server`, from another thread |
| `chat_message` | source, target, content, cached buffers | construction with truncation, `generate_buffers`, (de)serialisation | static buffers shared by all messages |
| `chat_client`, client `main` | socket, `write_msgs_`, target | `connect` and retry, read loop, `write`, `close`, pong | server |
| `chat_session`, `message` | socket, queue, handlers; a buffer | earlier forms of the connection and of the message; in the repository, not in the build | – |
| easylogging++ | loggers, configurations, streams, counters, verbose levels | `LOG`, `el::Loggers`, configuration files, arguments | both programs' threads, log files |

All handlers of the server run on the one thread that calls `io_service.run()`, in the
order in which they became ready. `main` runs on a second thread and shares no lock with
it. There is no persistence.

What is hard here:

* **Membership is kept twice** (`chat_user::channels_`, `chat_channel::users_`) and the
  channel map is a third record; removal from it is by name. Six paths take a user out of
  its channels: `/leave`, a read error, a write error, an unreadable header, a ping
  timeout, the server's stop.
* **Ghosts.** A write error and an unreadable header take a user off `connections_`, but
  its read loop goes on. Such a user still talks, joins channels and is renamed, and
  `user_exists` does not see its name.
* **Lifetime.** Handlers hold a `shared_ptr` to the user, except the function posted by
  `write()`, which captures `this`.
* **Timer races.** A timer that has already fired cannot be cancelled; a timed-out user
  stays listed until its aborted read is handled.
* **Two threads** during `/quit`.
* **Shared buffers**: `nick_buffer_` and the static strings of `generate_buffers`.
* **The client's end.** `close()` is posted by `/quit`, by a failed read and by a failed
  write, and an exception out of a handler ends the process.
* **Three limits for one name**: 19 characters in `connect`, 20 in a message, none in
  `valid_id`.
* **Times.** The first expiry of the ping timer is set long before there is a client.
* **Logging** is used by two threads of the server and is built without its locks; its
  settings, files and counters have an order and limits of their own.

`PROJECT.json` lists these under `hazards`, at their lines.

## Modules

| module | models |
|---|---|
| `ChatServer` | the tables, and every handler that changes them, each as one action |
| `ChatRooms` | abstract specification: who is there, under which name, in which rooms, who is written to |
| `ServerStop` | `ChatServer` plus the console thread's `stop()`, one table access at a time |
| `ChatUser` | one connection: read loop, write queue, ping retries, handler queue, lifetime |
| `Handshake` | clients picking a nickname and the server's `do_accept`, with the shared `nick_buffer_` |
| `MessageBuffers` | `write`, `do_write` and the static strings of `generate_buffers`, on one socket or several |
| `ChatClient` | the connected client: console thread, handlers, posted functions, exceptions; on top of `MessageBuffers` |
| `PingTimer` | `ping_timer_` against the clock, from the making of the user object |
| `Addressing` | who gets a line: the limits of `connect`, `chat_message`, `valid_id` and the look-up by name |
| `ChatMessage` | `chat_message` objects: constructor, setters, copies, cached and static buffers, decoding |
| `Message`, `ChatSession` | the classes `message` and `chat_session`, which are not built |
| `LogFormat`, `LogSettings`, `LogConfig`, `Logging` | formats, `Configurations`, `TypedConfigurations`, and two threads that log |
| `LogRegistry` | the registered loggers and the calls of `el::Loggers` |
| `LogFile` | the configuration file: sections, comments, quotes |
| `LogDisk` | file names, directories, streams, rolling, restarts |
| `LogArgs`, `LogVerbose`, `LogCounters` | arguments; verbose levels of files; `LOG_EVERY_N` and its like |
| `LogTime`, `LogTimer` | dates in a buffer of fixed size; performance tracking and units of time |
| `Queues` | how many handlers of a kind wait in a queue, by the cardinality of a set, so that it can be proved about |
| `ChatServerProofs` | invariants of `ChatServer`, that it implements `ChatRooms`, and what is left while the console thread is in `stop()`, proved |
| `ChatUserProofs`, `HandshakeProofs`, `AddressingProofs` | invariants of these modules, proved |
| `ChatClientProofs` | `MessageBuffers` with one socket, and the client on top of it, proved |
| `PartsProofs` | `ChatSession`, `PingTimer`, `LogCounters`, `ChatMessage`, `Message`, `LogTimer`, `LogArgs`, `LogTime`, `LogDisk`: their properties, proved |
| `LoggingProofs` | what calls of `set()` come to in the logger, what statements of several threads do to each other, how the registered loggers are configured, which verbose levels files have, and what a configuration file does, proved |
| `DataLemmas` | counting in a queue that grows at its end and shrinks at its head; least and greatest elements; induction; folds as their steps; beginnings and ends of sequences |
| `MCChatServer`, `MCServerStop` | symmetry sets and a view for TLC |
| `MCMessages`, `MCLogging`, `MCParts` | symmetry and values for TLC; modules that share no state, each started by itself |

Definitions marked *Fault* in the modules are wrong versions of the definition that
follows them. No specification uses them; with one in place of the right definition, TLC
must report the property named for it under `mutants` in `PROJECT.json`.

### ChatServer

State: `phase[u]` (which read of user object `u` is outstanding), `connections`, `name`,
`joined` (`channels_` of a user), `channels` (the server's map), `users` (`users_` of a
channel) and `sent`, the `write()` calls made by the latest handler. A channel object is a
pair of its name and a slot, so that two objects of one name can be told apart; a channel
object is taken for a new channel only when neither the map nor a user points to it.

A name is a model value. `WellFormed` are the names that pass the character and length
tests of `valid_id`, `IllFormed` those that do not. Names of more than 20 characters, which
are cut in messages, are in `Addressing`.

The socket is an input: any message may arrive, any read or write may fail, the ping timer
may give up. `phase` keeps what matters of it. After a ping timeout the socket is closed,
but a read that has completed is still handled (`closing`); the read after that can only
fail (`doomed`). The header read and the message read of one message are one action;
`ChatUser` has them apart.

### ChatRooms and the refinement

A room is the set of its members and exists while it has one. `ChatServer` implements it
with `present` = users with a read loop, `online` = `connections`, and `member` = the pairs
of a user and the name of a channel in its `channels_`. The abstract specification says
exactly who is written to in each step, so the refinement covers routing: a text goes to
the channel if its sender is in it, else to the user of that name, else back to the sender
as an error.

### ServerStop

`io_service.run()` continues while the console thread is in `stop()`. A handler is one step;
the console thread's copy of `channels_`, the notice to the members, the erasure from
`channels_`, the erasure from `users_`, the test of `users_.empty()`, the removal, `clear()`
and the walk over `connections_` are steps of their own. Each access
to a container is atomic: real executions can only be worse, so the violations found are
real and the properties that hold are to be read with that limit. A user that registers
while `stop_all()` walks the set may be ahead of the iterator or behind it; if the current
user is erased, the iterator dangles, and the walk continues anywhere. What a comment in
`leave_all_channels` ("channels_ ought to be empty here.") and one in `remove_channel`
("called only when last user leaves the channel") take for granted fails here: a `/join`
may be handled between the copy and `clear()`, or between `users_.empty()` and the removal.
If it is handled between the two erasures, only the second one takes effect on it, and the
user knows of a channel that does not have it; if it is handled before both or after both,
the two sets agree about it; if it comes before `clear()`, `clear()` takes one half.
`JoinedIsMember` says what is left: as long as the console thread is at a user its two
records may differ in either way, but for a user it is not at, or is done with, what is in
`channels_` has the user in its `users_`. Thus the halves that stay are all of one kind,
members of a channel that do not know of it, and it is `clear()` that sees to that: without
it (`ClearChannelsKept`) the property fails.

### ChatUser

The ready queue of the `io_service` is a sequence; the head is run. Calls queue what they
complete at once, in the order of the calls: `post`, `cancel()` of the timer, the aborted
operations of `close()`, an operation started on a closed socket. The object is deleted
when nothing holds it: `connections_`, a channel, an outstanding operation, or a waiting
handler other than the function of `write()`. What running that function on a deleted
object does is undefined; the model stops following it there (`PostedFreed`), and
`PostedOnLiveUser` says when this can happen. The user is in at most one channel, and
other users' `write()` calls come at any time while it is listed or in the channel.

### Handshake

A nickname travels in two halves, and a buffer is a pair of halves: two different halves
are a name nobody picked. The handler of an accept starts the nickname read, which takes
what has already arrived, and then the next accept. If everything had arrived, the nickname
handler is queued (`read`) before the next accept's handler can be (`Accept` waits for it);
else the rest is read when it comes (`ReadSome`), and any number of accepts may come in
between. `mixed` is a history variable: another client's bytes were read into the buffer
while this client's read was under way. Here the only names in use are those of the
handshake; `/nick` and channels are in `ChatServer`. A client may end at any time it waits
or is connected, and be started again.

A connection may also fail while its client is there: the accept and the nickname read may
end with an error at any time (`AcceptError`, `ReadError`), and a user may be stopped at any
time (`Stopped`), whether its read loop failed, it did not answer the pings, a header of its
could not be read or a write to it failed; which of these it was, and that some of them
leave the connection open, is in `ChatServer` and `ChatUser`. An answer that was on its way
then reaches the client or is lost. So a client that was told "valid" need not be a user any
more, and `ValidMeansRegistered` says what it can rely on: that this connection made it one,
and that, as long as the server has not stopped it, no other user has its name.

### MessageBuffers

The k-th message written to socket `s` is the pair `<<s, k>>`, sent as two parts, header and
data. `static` is the message in the static strings. A write that was started earlier and
still points to them sends what they hold now, one of the outcomes of reading memory that
the assignment may also have freed. Since `writer` does not depend on which end a
socket is, one module serves both programs: the client is the instance with one socket,
the server the one with several.

### ChatClient

`main()` is a thread that types lines and, after `/quit`, joins the io thread. It calls
`write()` and `close()`, which post a function each; posted functions run in order, reads
and writes complete at any time between. The io thread ends when nothing is outstanding or
posted, or with an exception: `shutdown()` on a connection that was reset, the decoding of
bytes that are no message. After an unreadable header `close()` is posted and the read goes
on, with a size that is empty; the message it gets cannot be decoded.

### PingTimer

Time is in ticks, and the io thread is prompt. The user object, and with it the first
expiry, is made when `do_accept` begins to wait; later expiries count from the last one. A
client that comes after the retries of its waiting object are used up is disconnected
before it can answer (with the program's values, one that comes more than 75 s after the
object was made): `PromptPeerKept` is about those that come earlier.

### Addressing

A name is a stem and a length: cut to 20, two long names of one stem become one. A line of
text is its length, and `getline` fails for one that does not fit its buffer of 512
characters, which ends the client. The client keeps the nickname it connected with; the
server puts the current one into what it forwards, so that a reply reaches the writer
(`ReplyReachesWriter`) unless the name has more than 20 characters. Those are accepted by
`/nick` and `/join`, and cannot be written to. A client that has not chosen a target yet
writes to the empty name, which nobody has; its texts come back as errors, and its commands
do not look at the target, so `Write` begins when there is one.

### ChatMessage, Message and ChatSession

In `ChatMessage` a message remembers that it has filled the static strings, and its setters
forget it; the strings are shared. Copies share the memory of that too, so a message that
finds its flag set may send another's bytes: `DecodedAsSet` excludes just that (`own`), and
`ServerBuffers` shows it for the program. The setters, which the program does not call, cut
content to the limit of names.

`Message` has one buffer that is not initialised. A target of two characters or more has no
final zero and goes on with what the memory held; types `status` and `unknown` are encoded
as -1.

`ChatSession` has a program of any kind as its owner. Handlers of reads and writes hold the
session, posted functions only `this`; the latter may find it gone, once the owner has let
it go and the last read and write are over. The model does not follow the session any
further then; what is to hold is an owner's affair, and the repository has none.

### Logging

`CMakeLists.txt` defines `ELPP_THREAD_SAFE` after it has added the directories, so the
library's locks are not compiled. A statement is taken apart where two threads meet: the
pieces of a message go into the logger's one stream, a copy is made, the dispatch data is
pointed to by the one `m_data` of the callback, the line is built and written, the stream
cleared. `LineAsMeant` is about statements that no other overlapped. What a
`std::stringstream` does under two writers is not modelled beyond the mixing of pieces.

`LogSettings` has the order of entries, on which `setFromBase` depends: a level set before
Global loses its value. `LogConfig` derives the maps of levels from it and opens files. A
file of Global's that cannot be opened turns off `ToFile` for all levels that share it.

### The other parts of the library

`LogRegistry` has pointers as numbers that are not used again. `Configurations` are compared
entry by entry as pointers, so that any object but the logger's own is different, and is
merged. `LogFile` reads lines whose text is made from what the author meant: a body, in
quotes or not, with a comment or not; `SectionsApplied` compares the two.

`LogDisk` lets the program end and start again over the same files. The registry's streams
are kept by the name of the file, with its date put in, and files on the disk by their path;
two names may lead to one path (`a/f` and `a//f`), and are two streams then. A stream
appends until its file is rolled, and after that writes on at its own position, over what
another stream wrote, or behind a gap; what such a file holds is not told apart
(`WriteLine`), and `FileBounded` is about files that all levels call by one name. A file
cannot be opened if the directory above it is not there, if it is a directory, or if it is
among `Denied`, which stands for files that may not be written and for directories that may
not be made; and a log file may be in the way of a directory. `FileWhereAsked` says that
nothing else keeps a level from its stream, in whatever order the levels come. What a stream
holds back until it is flushed counts as written: `getSizeOfFile` seeks in the stream, which
writes it out.

`LogTime` builds every date in a buffer,
character by character, because its limit is what the property is about. `LogTimer` and the
counters have the program's rules and smaller limits.

## Runs

| run | instance | checks | result |
|---|---|---|---|
| `ChatServer` | 3 users, 3 good names, 1 bad | tables consistent, names unique, nobody stranded, removal only by the last member; `ChatServer` implements `ChatRooms` | holds |
| `ChatServerNames` | 2 users | "No users or channels with the same name" among members of a channel | violated by a ghost |
| `ServerStop` | 2 users, 2 names, 1 slot | what a user has joined has it, also while others are stopped and once it was; `stop()` returns; the process ends if the clients hang up | holds |
| `ServerStopQuit` | 2 users, 3 names | the process ends after `/quit` | violated: connections are not closed |
| `ChatUser` | 3 retries, 3 waiting handlers, 2 waiting messages | one read loop, one writer, one ping loop, lifetime, refusal answered, silent peers removed, memory reclaimed | holds |
| `Handshake` | 2 clients, 2 good names, 1 bad | with connections that fail: every client is answered; "valid" means registered, under a name of one's own as long as the server keeps it; a name read alone is the name picked | holds |
| `HandshakeName` | the same | the name picked is the name got | violated by two reads at once |
| `ServerBuffers` | 2 sockets, 2 messages each | the stream is the messages in order | violated: another user's message overwrites the buffers |
| `ChatClient` | 5 messages, 4 posted functions | the stream is the messages in order, what is typed is sent, every way to close ends well, `/quit` ends the client | holds |
| `Messages` | 3 clients, names of 19 to 21 characters, lines of 512 and 513; 2 objects, 5 texts, 4 calls | a text is read by its target only, and whole; a reply reaches the writer; what is put in a message arrives | holds |
| `Logging` | 2 threads, 2 levels, 3 files, 3 calls | the last setting wins, one stream for a file, lines as meant, lines flushed in time; a file of up to 5 lines configures what it says | holds |
| `Parts` | see `MCParts` | one property for each part that stands alone | holds |

The properties of `Parts`: `OnlySilentTimedOut` (`PingTimer`), `LoggedWhenDue`
(`LogCounters`), `NamedLevelCounts` (`LogVerbose`), `LoggersAsAsked` (`LogRegistry`),
`DateAsMeant` (`LogTime`), `TimesShown` (`LogTimer`), `FilesAsAsked` (`LogDisk`),
`ArgsAsGiven` (`LogArgs`). `Messages` also has `MessageArrives` (`Message`), `DecodedAsSet`
(`ChatMessage`) and `SessionSafe` (`ChatSession`), and `Logging` has `SectionsApplied`
(`LogFile`). Modules that share a run share no state: a behaviour of the run is a behaviour
of one of them, and the others do not move. Type invariants are
conjuncts of the properties that need them; those of the modules under *Proofs* are
proved, as parts of their inductive invariants.

**Bounds.** Three users and three names let a user stay in a channel while another leaves
it and a third takes a freed name; a channel needs a name no user has, so three names give
two named users and a channel. With one slot, a name has no new channel while something
still points to the old one; the proofs are for any number of slots. For `stop()` two users are one that is being stopped and one
that is not; two names are enough for the walk and its loops, since a user in a channel
takes both. In `ChatUser`, `MaxQueue` bounds only the calls of other users, and `MaxBacklog`
only inputs that lead to more writes; the timer and the handlers are never blocked, so
liveness is not affected. Two clients and two halves are the smallest instance in which two
reads share the buffer; two good names make a mixed name and a collision possible. In
`LogDisk` ten names, under directories that are there, can be made or cannot, are given to
two levels in every way: one name for both, two names for one file, a file where the other
level needs a directory, a name that is a directory. Five
messages let the client's write queue empty and fill again, and four posted functions are
a `close()` of each kind and a `write()`. Names of 19, 20 and 21 characters are the three
sides of the two limits, and three clients are a writer, a target and somebody else. Two
levels and Global are enough for every order of settings; three calls of `LOG` let two
overlap after one that did not, or before. Forty ticks are four times a client's longest
silence. A configuration file of five lines has a section with settings for Global and a
level, or one that is followed by another; unusual values come only below the first section
and level, which is the place among two lines where they count. In the MC modules each value set has the cases around a limit: a counter's limit that
is no multiple of n, a buffer of nine characters and dates longer than that, sizes of lines
around the limit of a file, steps of time around each unit.

**Fairness.** `ServerStop`: the console thread's steps and `t.join()`, since the operating
system runs the thread; that every client hangs up at some time is a premise of
`EndsOnceClientsLeave` itself, and of nothing else.
`ChatUser`: ready handlers are run, and an armed timer expires. Nothing is assumed of the
peer: it may be silent, or stop reading. `Handshake`: bytes sent arrive, ready handlers run,
the server comes to notice that a client is gone (`Noticed`: its reads fail), and strong
fairness for `Accept`, because the kernel hands out waiting connections in the
order they came. `ChatClient`: posted functions and ready handlers run, and a socket that is
open takes the next part, so `TypedIsSent` says nothing of a peer that stops reading for
ever. `Messages`, `Logging` and `Parts` have only safety properties.

## Findings

1. **Two members of a channel with one name** (`ChatServerNames`): after an unreadable
   header or a failed write the user is unlisted but acts on; its name is given to another
   user, who joins the same channel.
2. **`/quit` does not stop the server** while a client is connected (`ServerStopQuit`).
3. **A nickname nobody picked** (`HandshakeName`): a second client's nickname is read into
   `nick_buffer_` while the first one's has only half arrived; the first is then registered
   under what the buffer holds.
4. **Messages mixed up between users** (`ServerBuffers`): while a write to one user waits
   for its socket, a message to another user replaces the bytes it has still to send. The
   client, with one socket, does not meet this (`StreamIntact` of `ChatClient`).

`PostedOnLiveUser` holds with two exceptions it names, which are reachable: after a ping
timeout another user's message may be posted behind the aborted read, and a user that is
stopped a second time has no timer left whose cancelled handler would hold it.

Other properties too name what they leave out, because the code does otherwise there:

* a level set before Global in one object loses its setting (`LastSetWins`; `LoggersAsAsked`
  is about objects in which no level has a value before Global has);
* `LOG_EVERY_N` with an n above the counters' limit logs never or too often (`LoggedWhenDue`);
* in configuration files, a section for a logger whose name has one character does not
  begin, and its settings go to the logger before; a comment with quotes is not removed; a
  quote within two characters of an escaped one is missed (`SectionsApplied`);
* a module without a level joins its name to the next one, and a name with an extension
  stands for some other extensions as well (`NamedLevelCounts`);
* subsecond widths 1 and 2 show the last digits of the milliseconds, `%h` shows noon as 00,
  and a date that fills its buffer has no final zero (`DateAsMeant`);
* a file name whose only date specifier is escaped is searched behind its end, and where one
  is not escaped, escaped ones are replaced as well (`resolveFilename` in `LogDisk`);
* a log file that goes by two names is written through two streams, which after rolling
  write over each other's lines (`FilesAsAsked`);
* time differences are in milliseconds for every unit but microseconds (`LogTimer`).

## Proofs

Each theorem is for every value of the constants that its module's assumptions allow: sets
of users, clients, names, slots and statements are arbitrary, also infinite, and bounds any
natural numbers. The assumptions, with the module that states them, are:

| assumption | says |
|---|---|
| `NamesAssumption`, `NullAssumption` (`ChatServer`) | a name is well-formed or not, `blank` is no name, the null pointer no channel |
| `NicksAssumption` (`Handshake`) | the same of nicknames |
| `BoundsAssumption` (`ChatUser`), `MaxMessagesAssumption` (`MessageBuffers`) | the bounds are numbers |
| `SocketAssumption` (`ChatClient`) | the client's process has one socket |
| `AddressingAssumption` (`Addressing`) | lengths are numbers, `none` is no name |
| `TimerAssumption` (`PingTimer`) | the frequency is positive, the rest are numbers |
| `OneOnALine`, `CountsAssumption` (`LogCounters`) | no two counting statements on one line of one file; counts are numbers |
| `LevelsAssumption` (`LogSettings`), `NullAssumption` (`LogConfig`) | levels are among the library's seven, the null stream is no stream |
| `ThreadsAssumption`, `MessagesAssumption` (`Logging`) | the null pointer is no thread, messages are sequences |
| `LimitsAssumption`, `TextsAssumption` (`ChatMessage`) | a name's limit is not above a text's, strings are sequences |
| `RoomAssumption`, `StringsAssumption` (`Message`) | the field of a target has two bytes or more; strings have no zero byte, targets and contents fit |
| `StepsAssumption` (`LogTimer`) | steps of the clock are seconds and less than a million microseconds |
| `IdsAssumption`, `ConfsAssumption` (`LogRegistry`) | the null pointer is no id; objects are made by `set()`, with Global's value before a level's |
| `LoggersAssumption` (`LogFile`) | the null pointer is no logger |
| `AlphabetAssumption`, `ListsAssumption`, `SourcesAssumption` (`LogVerbose`) | extensions are in the alphabet; lists are sequences of items, each with a name, not empty, that has an extension at its end or nowhere, and a digit or no level; files are letters and an extension, other than `.-inl.h`, which ends in another one |
| `ArgsAssumption` (`LogArgs`) | argument lists are sequences of arguments |
| `BufferAssumption`, `FormatsAssumption`, `MomentsAssumption` (`LogTime`) | the buffer's size is a number, and the default width 3 to 6; formats are sequences; times are dates with a year before 10000 and less than a million microseconds |
| `LevelSeqAssumption`, `FilenamesAssumption`, `SizesAssumption`, `DirectoriesAssumption` (`LogDisk`) | levels come in a sequence; a file's name is not empty and does not end in a separator, which would name a directory; sizes are numbers, and there is a longest line; what is above a directory is there, and the root cannot be denied |

What is proved, and the inductive invariant each proof needs:

**`ChatServer`** (`IInv`: the type invariant and the five safety invariants). None is
inductive alone. After `leave`, the map entry removed by
name is the entry of the channel that was left only if every channel with a user is in the
map (`NoDetachedChannel`), and the user is known to be in that channel's `users_` only by
`MembershipAgrees`; that a new channel's name is not a member's channel needs the same;
`NamesUnique` needs `channels` typed and read through `valid_id`. The lemmas `LeaveKeepsTables`
and `JoinKeepsTables` treat the two table operations once; `TypeStep`, `TablesStep`,
`NamesStep` and `StrandedStep` go through the actions. `RemovalTheorem` is the action
property, from the same invariant. `Refinement` shows `Spec => ImplementsRooms`: under
`IInv` a room's members are the `users_` of the channel the map holds under its name
(`MemberIff`, `RoomIsChannel`), notices to channels are notices to rooms (`AnnounceRooms`),
and each action is a step of `ChatRooms`.

**`ServerStop`** (`SInv`). Once `stop()` runs, channels may be empty, or detached from the
map, and names given twice; what the two threads cannot destroy is that who has joined a
channel is in its `users_`: for all users while the console thread is between two of them,
and for all but the one it is at otherwise. `LeaveAnywhere` and `JoinAnywhere` show that the
two table operations keep this for any set of users in any state, `IoKeepsTables` that every
handler does, and `ConsoleStep` goes through the steps of the console thread, of which
`clear()` brings its user back among the rest. `ConsistentUntilStop` adds that all of
`ChatServer`'s invariant holds until the call.

**`Handshake`** (`IInv`). The bytes in the shared buffer are the client's own as long as no
other read touched it (`BufferOwn`); `GotInStep` counts them along with the state of the
connection; `NamesOwn` says that a user's name is well-formed and nobody else's, also when
the halves of two clients were mixed; an answer is on its way only to a client that waits
for one, and "valid" only from a connection that was made a user (`AnswersAwaited`), which,
with `NamesOwn`, is what `ValidMeansRegistered` needs.

**`ChatUser`** (`IInv`). `OneOfEach` counts, for each of the three loops, the outstanding
operation and the handlers that wait; the counting lemmas of `DataLemmas` and
`ChatUserProofs` say how a call that queues handlers, and the taking of the head, change a
count. It needs that nothing else runs before the nickname is there (`NickFirst`) and that a
user with a loop that was never stopped is listed (`UnstoppedListed`), because `stop()`
tests the list. `PostedOnLiveUser` follows from `PostedOutlived`: as long as a posted
function waits on an open connection that was stopped at most once, the read loop or the
timer holds the object, or a handler does that is queued behind it; its two exceptions are
exactly where that fails. `AnsweredBeforeClose` follows from `CloseBehindAnswer`, about the
places of the functions posted for a refused client.

**`MessageBuffers`, `ChatClient`** (`BInv`, `CInv`). With one socket, the message in the
static strings is the one that is being sent (`StaticOwn`), since it stays at the head of
`write_msgs_` until its write is over; `Backlog` and `Taken` say which messages have left
and how much of the first one the socket has, from which `StreamIntact` follows.
`ServerBuffers` shows that it fails with two sockets. `ClientBuffers` shows that the client
implements `MessageBuffers`, so that the client inherits its invariant. `ClosesInOrder`
needs that each call of `close()` has a cause of its own (`ClosesCaused`): `/quit`, a failed
write, the end of the read loop.

**`Addressing`** (`IInv`). That a reply reaches the writer, and a text only its target,
rests on `OneNameSpace` (a name used by a user or a channel is used once), on what is on its
way having gone through the constructor (`MailAddressed`), and on what was printed having
been signed with the name the server knew (`PrintedSigned`).

**`ChatSession`** (`ChInv`). The peer's messages and those in `write_msgs_` are the first
ones, in order, and the posted functions are the rest, with at most one `close` among them
(`PostedInOrder`), as long as the object is there.

**`PingTimer`** (`TimerInv`). The expiry is bounded by the time of the last sign of life and
the retries since (`PongsAnswer`), and the retries by the time of the ping that is not
answered (`PingsCounted`); both halves of `OnlySilentTimedOut` follow.

**`LogCounters`** (`HInv`). A statement that was run has exactly one counter, which agrees
with how often it was run: modulo n for `LOG_EVERY_N`, so that the reset at the limit does
no harm (`Counted`, with the lemmas `Remainder` and `CountedOn` on remainders).

**`Logging`** (`LogInv`). Statements that overlap mix their messages, so the invariant says
of them only that their level and flag are their own (`UnderWay`). A statement that is not
overlapped finds the stream empty (`NothingLeft`: the last of those that overlapped has
cleared it), and its message goes from the stream to the copy, through `m_data`, to the line
and the file (`OwnMessage`). The lines of a level wait in the stream of that level, so that
a flush leaves none of them (`BufferedCounted`).

What the maps of the logger hold is a result of folds over entries. `FoldDefined` and
`FoldSteps` in `DataLemmas` take a fold over a sequence apart into its values at the
beginnings of the sequence, each made from the one before; what holds of each value is then
shown by `InductionUpTo`, whose hypothesis is a set, not an operator, and which rests on
least elements. In this way `SetLaw` and `DefaultsLaw` say what calls of `set()` do to each
entry (`Put`), `MergeLaw` what `setFromBase` does, `MapLaw` what a map has for a level, and
`BuildLaw` which files are opened. `SettingsInv` is the inductive invariant of the setting-up:
the program's object answers its calls (`AnswersCalls`), and the logger is a function of that object
(`LoggerIs`). `LastSetTheorem` and `StreamTheorem` follow, and, since statements read maps
that no longer change, `LineTheorem` and `FlushTheorem`, for all settings. `LineTheorem`
supposes of the constants that each format, once parsed, makes the line that is meant
(`FormatsAsMeant`); TLC evaluates this in `MCLogging`, where the formats have escapes on both
sides of specifiers. It is not true of every sequence of pieces: in
`<<"%datetime", "%", "%datetime">>` the escape is removed twice.

**`LogRegistry`** (`RegistryInv`). The defaults have what was asked of them last
(`DefaultsAsAsked`), each logger's object what was asked of it, and each stream it has for a
level is the one of the file the object names (`LoggersConfigured`). That needs every stream
of a logger to be known to the registry (`AllStreamsKnown`), and pointers to be those of the
list (`PointersListed`). `MergeAny` is what `setFromBase` does to an object of any kind, with
the laws about `set()` of `Logging`; reconfiguring all loggers is a fold over them, taken
apart by `FoldSteps`.

**`LogVerbose`** (`VerboseInv`). The names registered are those of the items in force: each
has the level of an item it is made from, and each item has its nine names (`RegisteredFor`).
`SuffixedLaw` says which these are, although each is made from the one before by cutting;
`ParsedLaw` takes the scan of a list apart by `FoldSteps`. `WildCardLaw` is about the
matching: the places found from the pattern's end are those from which the rest can be laid
out (`LayoutsMatched`), and nothing else satisfies that recursion (`MatchedOnce`).
`MatchedNames` and `NamedMatched` relate the names a file matches to the items that name it,
and `FirstOfNames` says that there is a first one, since the order is total on finite sets.

**`LogArgs`** (`ArgsInv`). The level, the number of lists of modules and the log file of
every logger and of the defaults are those of the calls so far; the defaults are not in the
property, but a logger that is registered later has them. `TakenFrom` says what `setArgs` has
taken from the first arguments of a list: the first value of each key counts.
`PlacesIn` and its laws say what one more call changes in the last of those that ask for
something.

**`LogTime`** (`TimeInv`). What is in the buffer is the beginning of the date of the tokens
that are done, and the others are left, or the buffer is full and the rest would not have
gone in (`DatedUpTo`). `Spelled` says of each specifier that its digits or letters are those
that are meant, with `Subsecond` and `FourDigits` on quotients and remainders; `FirstOfBoth`
that to cut each piece to the room that is left is to cut the whole.

**`LogFile`** (`FileInv`). The loggers have what the lines up to the last section say
(`HasUpTo`), the lines below it are collected (`IsCollected`), and the current logger is that
section's (`Named`). `parseFromText` is a fold over the lines (`ParseSteps`); after each, an
object has what the lines of its section gave so far (`SectionIn`), and `GivenBySections` and
`MergeAny` say what merging it adds to what the sections before gave. Both need that Global
leads in each section (`GlobalComesFirst`). The invariant is about files that
`SectionsApplied` covers; that every beginning of such a file is one is `CoveredBefore`.
`FileTheorem` supposes of the constants that readable values are parsed into what was meant
(`ReadAsMeant`); TLC evaluates this in `MCLogging` for every body of up to four characters and
some of five. Values with a backslash are not among the readable ones: one at the end of a
quoted value makes the parser take the closing quote for part of it.

**`LogDisk`** (`FilesInv`). `Parted` and `PartingSteps` take a name apart part by part; names
that are `Alike` differ only within their pieces, so that a date adds no directory
(`ShownLaw`, `WithDateLaw`, `RemovedLaw`). The directories on the disk are `SoundDirs`: no
directory that cannot be made, and none without those above it; the log files are
`SoundFiles`. `CreatePathLaw` is by induction along the path: a directory is there afterwards
exactly if nothing on the way to it is denied or a file. `InsertLaw` opens the file of one
level, and `OpenedLaw` goes through the levels: a stream that could not be opened stays that
way for a reason that stays (`Attached`, `ClearBefore`). `RolledLaw` goes through the sizes: a
file is below the maximum of every level it was checked for, and stays so. A file that goes
by one name has one stream (`TwoNames`), which appends or is at the file's end (`InPlace`), so
that a line is added behind the others (`WriteLaw`); that the file holds the last lines is
inductive then, and its size is bounded because each line follows a check (`BoundedLaw`).

**`Message`** (`MsgInv`). The sender's buffer has the content, and the target up to its
limit (`SentHolds`), and so has the reader's, once the body is read (`BodyRead`). The end
of a string is the least place of a zero, so that whatever the memory held, the reader finds
the content and the beginning of the target (`HeaderDecoded`, `BodyRead`).

**`LogTimer`** (`TrackerInv`). The choice of a unit is a fold over five of them, taken apart
by `FoldSteps`; the rest is about quotients, and about checkpoints that follow each other.

**`ChatMessage`** (`ObjectsInv`). An object has what it was given, cut (`Kept`), and while
its fill of the static strings is the latest, they hold it (`FillIsOwn`); `ReadAsWritten`
says that decoding undoes encoding.

Only model-checked:

* all liveness, which is out of the prover's reach;
* that the text of one line of a configuration file is parsed into what was meant
  (`ReadAsMeant`), and that a format is (`FormatsAsMeant`): scanning is recursive;
* the runs that find violations, of course.

## Not modelled

* The console's listing commands. They only read; an element erased under their walk is
  undefined behaviour of the container, about which nothing remains to be stated.
* An exception out of `chat_user::close_socket` (`shutdown()` on a connection that was
  reset) or out of the handler of a header (a size too large for `inbound_data_.resize`,
  which is not checked). It leaves `io_service.run()` and ends the server's only handler
  thread.
* Of easylogging++: asynchronous logging, syslog, the crash handler and stack traces, which
  are not compiled; the macros, the output of containers and of STL and Qt types, and the
  queries of the operating system (user, host), which have no state of their own.
* The bytes of serialised messages (Boost's archive), the wording of notices and log lines.
