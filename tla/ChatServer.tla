----------------------------- MODULE ChatServer -----------------------------
(***************************************************************************)
(* The tables of the chat server and the handlers that change them:        *)
(* chat_server, chat_user_manager, chat_channel and the membership side of *)
(* chat_user.                                                              *)
(*                                                                         *)
(* All handlers run on the one thread that calls io_service.run(), so a    *)
(* handler is one action here.  This is the server from start() until the  *)
(* console thread calls stop(), which ServerStop adds.                     *)
(*                                                                         *)
(* What the sockets do is an input: which message arrives, when a read or  *)
(* a write fails, when the ping timer gives up.  manager_.stop(u) is       *)
(* called by the read loop when it ends, but also by a failed write and by *)
(* an unreadable header, after both of which the read loop goes on: u then *)
(* keeps acting although connections_ no longer lists it.                  *)
(***************************************************************************)

CONSTANTS
  Users,       \* chat_user objects
  WellFormed,  \* names that pass the character and length tests of valid_id
  IllFormed,   \* names that do not
  Slots,       \* tells apart chat_channel objects created under one name
  null,        \* no channel under that name
  blank        \* the name_ of a chat_user before a nickname is accepted

Names == WellFormed \cup IllFormed

\* A chat_channel never changes its name_, so the name is part of its identity.
Chans == WellFormed \X Slots
chan_name(c) == c[1]

ASSUME NamesAssumption == WellFormed \cap IllFormed = {} /\ blank \notin Names
ASSUME NullAssumption == null \notin Chans

VARIABLES
  phase,        \* the asynchronous read a chat_user has outstanding, see Phases
  connections,  \* chat_user_manager::connections_
  name,         \* chat_user::name_
  joined,       \* chat_user::channels_
  channels,     \* chat_server::channels_
  users,        \* chat_channel::users_
  sent          \* the chat_user::write calls of the latest handler

vars == <<phase, connections, name, joined, channels, users, sent>>

(***************************************************************************)
(* free: no object.  naming: the nickname read of do_accept.  reading: the *)
(* read loop.  closing: the loop's socket was closed under a read that may *)
(* already have completed.  doomed: the read was issued on the closed      *)
(* socket and can only fail.                                               *)
(***************************************************************************)
Phases == {"free", "naming", "reading", "closing", "doomed"}
Kinds  == {"text", "joined", "left", "renamed", "valid", "invalid", "error", "ping"}

\* The sender of status messages is the literal "server".
server == "server"

Init ==
  /\ phase = [u \in Users |-> "free"]
  /\ connections = {}
  /\ name = [u \in Users |-> blank]
  /\ joined = [u \in Users |-> {}]
  /\ channels = [n \in Names |-> null]
  /\ users = [c \in Chans |-> {}]
  /\ sent = {}

-----------------------------------------------------------------------------
(***************************************************************************)
(* Look-ups and the operations the handlers are made of.                   *)
(***************************************************************************)

\* The write() calls that send one message to each user of S.
Post(S, kind, src, tgt) ==
  {[to |-> u, kind |-> kind, src |-> src, tgt |-> tgt] : u \in S}

user_exists(n) == \E u \in connections : name[u] = n

\* Fault: channel names are not looked at.
valid_id_users(n) == n \in WellFormed /\ ~user_exists(n)

valid_id(n) == n \in WellFormed /\ ~user_exists(n) /\ channels[n] = null

is_joined(u, c) == c \in joined[u]

\* chat_channel objects nobody holds a chat_channel_ptr to: memory for a new one.
Unallocated(c) == (\A n \in Names : channels[n] # c) /\ (\A u \in Users : c \notin joined[u])

\* chat_channel::join for a channel whose users_ is M.
join(u, c, M) ==
  /\ joined' = [joined EXCEPT ![u] = @ \cup {c}]
  /\ users' = [users EXCEPT ![c] = M \cup {u}]
  /\ sent' = Post(M \cup {u}, "joined", server, chan_name(c))

\* Fault: the user is not erased from users_.
leave_one_sided(u, C) ==
  /\ sent' = UNION {Post(users[c], "left", server, chan_name(c)) : c \in C}
  /\ joined' = [joined EXCEPT ![u] = @ \ C]
  /\ UNCHANGED <<users, channels>>

\* Fault: remove_channel is not called.
leave_keeping(u, C) ==
  /\ sent' = UNION {Post(users[c], "left", server, chan_name(c)) : c \in C}
  /\ joined' = [joined EXCEPT ![u] = @ \ C]
  /\ users' = [c \in Chans |-> IF c \in C THEN users[c] \ {u} ELSE users[c]]
  /\ UNCHANGED channels

\* Fault: remove_channel is called without asking users_.empty().
leave_removing(u, C) ==
  /\ sent' = UNION {Post(users[c], "left", server, chan_name(c)) : c \in C}
  /\ joined' = [joined EXCEPT ![u] = @ \ C]
  /\ users' = [c \in Chans |-> IF c \in C THEN users[c] \ {u} ELSE users[c]]
  /\ channels' = [n \in Names |-> IF \E c \in C : chan_name(c) = n THEN null ELSE channels[n]]

(***************************************************************************)
(* chat_channel::leave for each channel of C: the notice goes to the       *)
(* members before u is taken out, and a channel left without users is      *)
(* removed from the server's map, by name.                                 *)
(***************************************************************************)
leave(u, C) ==
  /\ sent' = UNION {Post(users[c], "left", server, chan_name(c)) : c \in C}
  /\ joined' = [joined EXCEPT ![u] = @ \ C]
  /\ users' = [c \in Chans |-> IF c \in C THEN users[c] \ {u} ELSE users[c]]
  /\ channels' = [n \in Names |->
                    IF \E c \in C : chan_name(c) = n /\ users[c] \ {u} = {}
                    THEN null ELSE channels[n]]

leave_all_channels(u) == leave(u, joined[u])

(***************************************************************************)
(* chat_user_manager::stop.  Cancelling the ping timer is left to the      *)
(* module on user I/O.                                                     *)
(***************************************************************************)
manager_stop(u) ==
  /\ leave_all_channels(u)
  /\ connections' = connections \ {u}

Listening(u) == phase[u] \in {"reading", "closing"}
HasReadLoop(u) == phase[u] \in {"reading", "closing", "doomed"}

\* do_read_header at the end of a read handler.
ReadAgain(u) ==
  phase' = [phase EXCEPT ![u] = IF @ = "closing" THEN "doomed" ELSE @]

-----------------------------------------------------------------------------
(***************************************************************************)
(* Connection set-up: do_accept and its nickname handler.                  *)
(***************************************************************************)

Accept(u) ==
  /\ phase[u] = "free"
  /\ u \notin connections /\ \A c \in Chans : u \notin users[c]
  /\ phase' = [phase EXCEPT ![u] = "naming"]
  /\ sent' = {}
  /\ UNCHANGED <<connections, name, joined, channels, users>>

(***************************************************************************)
(* The nickname is free: u is registered, pinged, and its read loop        *)
(* starts.                                                                 *)
(***************************************************************************)
NicknameValid(u, n) ==
  /\ phase[u] = "naming"
  /\ valid_id(n)
  /\ name' = [name EXCEPT ![u] = n]
  /\ connections' = connections \cup {u}
  /\ phase' = [phase EXCEPT ![u] = "reading"]
  /\ sent' = Post({u}, "valid", server, n) \cup Post({u}, "ping", server, n)
  /\ UNCHANGED <<joined, channels, users>>

\* Refused: the client is told (its target is a fixed word) and disconnected.
NicknameInvalid(u, n) ==
  /\ phase[u] = "naming"
  /\ ~valid_id(n)
  /\ phase' = [phase EXCEPT ![u] = "free"]
  /\ sent' = Post({u}, "invalid", server, blank)
  /\ UNCHANGED <<connections, name, joined, channels, users>>

NicknameReadError(u) ==
  /\ phase[u] = "naming"
  /\ phase' = [phase EXCEPT ![u] = "free"]
  /\ sent' = {}
  /\ UNCHANGED <<connections, name, joined, channels, users>>

-----------------------------------------------------------------------------
(***************************************************************************)
(* Messages: chat_server::handle_message and do_command.                   *)
(***************************************************************************)

JoinExisting(u, n) ==
  /\ Listening(u)
  /\ channels[n] # null
  /\ join(u, channels[n], users[channels[n]])
  /\ ReadAgain(u)
  /\ UNCHANGED <<connections, name, channels>>

JoinNew(u, n) ==
  /\ Listening(u)
  /\ valid_id(n)
  /\ \E c \in Chans :
       /\ chan_name(c) = n
       /\ Unallocated(c)
       /\ channels' = [channels EXCEPT ![n] = c]
       /\ join(u, c, {})
  /\ ReadAgain(u)
  /\ UNCHANGED <<connections, name>>

LeaveCommand(u, n) ==
  /\ Listening(u)
  /\ channels[n] # null
  /\ is_joined(u, channels[n])
  /\ leave(u, {channels[n]})
  /\ ReadAgain(u)
  /\ UNCHANGED <<connections, name>>

\* chat_user::name(n) announces the change under the old name, then changes it.
NickCommand(u, n) ==
  /\ Listening(u)
  /\ valid_id(n)
  /\ sent' = UNION {Post(users[c], "renamed", server, chan_name(c)) : c \in joined[u]}
  /\ name' = [name EXCEPT ![u] = n]
  /\ ReadAgain(u)
  /\ UNCHANGED <<connections, joined, channels, users>>

(***************************************************************************)
(* Commands answered with an error: /nick with a name that is not valid, a *)
(* missing argument, an unknown command.                                   *)
(***************************************************************************)
CommandError(u) ==
  /\ Listening(u)
  /\ sent' = Post({u}, "error", server, name[u])
  /\ ReadAgain(u)
  /\ UNCHANGED <<connections, name, joined, channels, users>>

(***************************************************************************)
(* Input without effect on the tables: /join of a name that is neither a   *)
(* channel nor valid, /leave of a channel u is not in, a pong, an          *)
(* undecodable message.                                                    *)
(***************************************************************************)
NoEffect(u) ==
  /\ Listening(u)
  /\ sent' = {}
  /\ ReadAgain(u)
  /\ UNCHANGED <<connections, name, joined, channels, users>>

\* Fault: a text reaches a channel its sender is not in.
RouteAnyChannel(u, t) ==
  IF channels[t] # null
  THEN Post(users[channels[t]], "text", name[u], t)
  ELSE IF user_exists(t)
  THEN Post({CHOOSE v \in connections : name[v] = t}, "text", name[u], t)
  ELSE Post({u}, "error", server, name[u])

\* Who a text of u for target t is written to: channel first, then user.
Route(u, t) ==
  IF channels[t] # null /\ is_joined(u, channels[t])
  THEN Post(users[channels[t]], "text", name[u], t)
  ELSE IF user_exists(t)
  THEN Post({CHOOSE v \in connections : name[v] = t}, "text", name[u], t)
  ELSE Post({u}, "error", server, name[u])

Text(u, t) ==
  /\ Listening(u)
  /\ sent' = Route(u, t)
  /\ ReadAgain(u)
  /\ UNCHANGED <<connections, name, joined, channels, users>>

-----------------------------------------------------------------------------
(***************************************************************************)
(* Failures.                                                               *)
(***************************************************************************)

\* The handler stops the user but does not return: it reads on.
BadHeader(u) ==
  /\ Listening(u)
  /\ manager_stop(u)
  /\ ReadAgain(u)
  /\ UNCHANGED name

\* Fault: the channels are left, but the user is not taken off connections_.
ReadErrorListed(u) ==
  /\ HasReadLoop(u)
  /\ leave_all_channels(u)
  /\ phase' = [phase EXCEPT ![u] = "free"]
  /\ name' = [name EXCEPT ![u] = blank]
  /\ UNCHANGED connections

\* End of the read loop; the object goes away with its last handler.
ReadError(u) ==
  /\ HasReadLoop(u)
  /\ manager_stop(u)
  /\ phase' = [phase EXCEPT ![u] = "free"]
  /\ name' = [name EXCEPT ![u] = blank]

\* A failed async_write stops the user; its outstanding read is not touched.
WriteError(u) ==
  /\ HasReadLoop(u)
  /\ manager_stop(u)
  /\ UNCHANGED <<phase, name>>

\* The timer is armed until it gives up and closes the socket.
Ping(u) ==
  /\ phase[u] = "reading"
  /\ sent' = Post({u}, "ping", server, name[u])
  /\ UNCHANGED <<phase, connections, name, joined, channels, users>>

\* The timer gives up: u leaves its channels and its socket is closed, but u
\* stays in connections_ until the aborted read is handled.
PingTimeout(u) ==
  /\ phase[u] = "reading"
  /\ leave_all_channels(u)
  /\ phase' = [phase EXCEPT ![u] = "closing"]
  /\ UNCHANGED <<connections, name>>

-----------------------------------------------------------------------------
\* A completion handler of user u other than that of async_accept.
Handler(u) ==
  \/ \E n \in Names : NicknameValid(u, n)
  \/ \E n \in Names : NicknameInvalid(u, n)
  \/ NicknameReadError(u)
  \/ \E n \in Names : JoinExisting(u, n)
  \/ \E n \in Names : JoinNew(u, n)
  \/ \E n \in Names : LeaveCommand(u, n)
  \/ \E n \in Names : NickCommand(u, n)
  \/ CommandError(u)
  \/ NoEffect(u)
  \/ \E n \in Names : Text(u, n)
  \/ BadHeader(u)
  \/ ReadError(u)
  \/ WriteError(u)
  \/ Ping(u)
  \/ PingTimeout(u)

Next == \E u \in Users : Accept(u) \/ Handler(u)

Spec == Init /\ [][Next]_vars

-----------------------------------------------------------------------------
(***************************************************************************)
(* Properties.                                                             *)
(***************************************************************************)

\* Every variable keeps the shape of the C++ member it stands for.
TypeOK ==
  /\ phase \in [Users -> Phases]
  /\ connections \subseteq Users
  /\ name \in [Users -> Names \cup {blank}]
  /\ joined \in [Users -> SUBSET Chans]
  /\ channels \in [Names -> Chans \cup {null}]
  /\ users \in [Chans -> SUBSET Users]
  /\ sent \subseteq [to : Users, kind : Kinds,
                     src : Names \cup {blank, server}, tgt : Names \cup {blank}]

(***************************************************************************)
(* Membership is kept twice, in chat_user::channels_ and in                *)
(* chat_channel::users_; join, leave and leave_all_channels must keep the  *)
(* two sides equal, whichever failure path calls them.                     *)
(***************************************************************************)
MembershipAgrees ==
  \A u \in Users, c \in Chans : c \in joined[u] <=> u \in users[c]

(***************************************************************************)
(* A channel somebody is in is the channel the server finds under that     *)
(* name: remove_channel, which erases by name, never cuts off a channel    *)
(* that still has users.                                                   *)
(***************************************************************************)
NoDetachedChannel ==
  \A c \in Chans : users[c] # {} => channels[chan_name(c)] = c

(***************************************************************************)
(* A channel in the server's map has a user: the last one to go, by        *)
(* /leave, ping timeout, hang-up or failure, takes the channel along.      *)
(***************************************************************************)
NoEmptyChannel ==
  \A n \in Names : channels[n] # null =>
    chan_name(channels[n]) = n /\ users[channels[n]] # {}

\* The server's map holds exactly the channels that have users.
MapAgrees == NoDetachedChannel /\ NoEmptyChannel

(***************************************************************************)
(* Users in connections_ and channels share one name space without         *)
(* clashes: manager_.user(name) and channel(name) are unambiguous.         *)
(***************************************************************************)
NamesUnique ==
  /\ \A u \in connections : name[u] \in WellFormed /\ channels[name[u]] = null
  /\ \A u, v \in connections : name[u] = name[v] => u = v

(***************************************************************************)
(* Nobody is left behind: a member of a channel, listed in connections_ or *)
(* not, still has a read outstanding, and the handler of that read is what *)
(* takes it out of its channels when its connection ends.                  *)
(***************************************************************************)
NoStrandedMember ==
  \A u \in Users : (joined[u] # {} \/ u \in connections) => HasReadLoop(u)

(***************************************************************************)
(* A channel goes from the map only in the step in which its only user     *)
(* leaves it (the comment in remove_channel relies on this), and a name    *)
(* never passes from one channel object to another in one step.            *)
(***************************************************************************)
RemovedByLastMember ==
  [][\A n \in Names : channels[n] # null /\ channels'[n] # channels[n] =>
       /\ channels'[n] = null
       /\ \E u \in Users : users[channels[n]] = {u} /\ joined'[u] # joined[u]]_vars

(***************************************************************************)
(* The refinement: the two-sided pointers and the map of channels behave   *)
(* as one relation between users and room names.                           *)
(***************************************************************************)
Present == {u \in Users : HasReadLoop(u)}
Member == {m \in Users \X Names : \E c \in joined[m[1]] : chan_name(c) = m[2]}

Abstract == INSTANCE ChatRooms WITH
  present <- Present, online <- connections, nick <- name, member <- Member

\* Every handler and failure path does to rooms, names and written
\* messages exactly what the abstract specification allows.
ImplementsRooms == Abstract!RSpec

(***************************************************************************)
(* What README.md says of /nick: "No users or channels with the same       *)
(* name".  Among the members of one channel.                               *)
(***************************************************************************)
MembersHaveDistinctNames ==
  \A c \in Chans : \A u, v \in users[c] : name[u] = name[v] => u = v

=============================================================================
