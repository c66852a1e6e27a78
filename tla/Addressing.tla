----------------------------- MODULE Addressing -----------------------------
(***************************************************************************)
(* Who gets a line: from the line typed at a client, through the limits of *)
(* connect() and chat_message's constructor, to the server's look-up by    *)
(* name and the clients that print it.  Three limits meet here: a nickname *)
(* is sent in a buffer of 20 bytes with a final zero, sources and targets  *)
(* are cut to 20 characters and contents to 512, and valid_id asks for at  *)
(* least 3 characters and knows no upper limit.                            *)
(*                                                                         *)
(* A name is a stem and a length: cutting keeps the stem, and two names    *)
(* with one stem are each other's beginnings.  A line of text is its       *)
(* length.  The tables and their failure paths are ChatServer, the bytes   *)
(* MessageBuffers and ChatUser; here a message is handled in one step.     *)
(***************************************************************************)
EXTENDS Integers, Sequences, Functions

CONSTANTS
  Clients,    \* client processes
  Stems,      \* beginnings of names
  NameLengths,\* lengths of the names people type
  Lines,      \* lengths of the lines people type
  MaxLines,   \* bound: lines typed in all
  none        \* no name

source_max_length == 20
target_max_length == source_max_length
content_max_length == 512

Name(stem, len) == [stem |-> stem, len |-> len]
Names == {Name(s, l) : s \in Stems, l \in NameLengths}

\* substr(0, size) of a longer string.
truncate(n, size) == IF n.len > size THEN [n EXCEPT !.len = size] ELSE n
truncatedLen(len, size) == IF len > size THEN size ELSE len

\* Names after any of the cuts.
AllNames == Names \cup {truncate(n, k) : n \in Names, k \in {source_max_length - 1, source_max_length}}

ASSUME AddressingAssumption == NameLengths \subseteq Nat /\ Lines \subseteq Nat /\ none \notin AllNames

VARIABLES
  client,         \* out, in (connected) or closed (the server has not noticed)
  nick,           \* main(): the nickname typed
  active_target,  \* main(): active_target
  up,             \* messages on their way to the server
  name,           \* name_ of the client's chat_user on the server
  members,        \* users_ of the channel of each name; it exists if not empty
  shown,          \* the last text the client printed
  typed           \* lines typed so far, for the bound

vars == <<client, nick, active_target, up, name, members, shown, typed>>

Init ==
  /\ client = [c \in Clients |-> "out"]
  /\ nick = [c \in Clients |-> none]
  /\ active_target = [c \in Clients |-> none]
  /\ up = [c \in Clients |-> <<>>]
  /\ name = [c \in Clients |-> none]
  /\ members = [n \in AllNames |-> {}]
  /\ shown = [c \in Clients |-> none]
  /\ typed = 0

-----------------------------------------------------------------------------
(***************************************************************************)
(* Names.                                                                  *)
(***************************************************************************)

\* What connect() makes of a nickname: nick_buffer has room for the zero.
nick_buffer(n) == truncate(n, source_max_length - 1)

UsersNamed(n) == {c \in Clients : name[c] = n}

valid_id(n) == n.len >= 3 /\ members[n] = {} /\ UsersNamed(n) = {}

-----------------------------------------------------------------------------
(***************************************************************************)
(* The client.                                                             *)
(***************************************************************************)

\* connect() with a nickname the server answers "valid"; after any other it asks again.
Connect(c, n) ==
  /\ client[c] = "out" /\ valid_id(nick_buffer(n))
  /\ client' = [client EXCEPT ![c] = "in"]
  /\ nick' = [nick EXCEPT ![c] = n]
  /\ name' = [name EXCEPT ![c] = nick_buffer(n)]
  /\ UNCHANGED <<active_target, up, members, shown, typed>>

Line(c) == client[c] = "in" /\ typed < MaxLines /\ typed' = typed + 1

\* /t <name>
Target(c, n) ==
  /\ Line(c) /\ active_target[c] # n
  /\ active_target' = [active_target EXCEPT ![c] = n]
  /\ UNCHANGED <<client, nick, up, name, members, shown>>

\* Fault: contents are cut like names, as set_content cuts them.
chat_message_short(source, target, content, type, arg, wanted) ==
  [source |-> truncate(source, source_max_length), target |-> truncate(target, target_max_length),
   content |-> truncatedLen(content, source_max_length), type |-> type, arg |-> arg, wanted |-> wanted]

(***************************************************************************)
(* chat_message's constructor.  arg is the argument of a command, a part   *)
(* of the content; wanted is the target as typed, for the properties.      *)
(***************************************************************************)
chat_message(source, target, content, type, arg, wanted) ==
  [source |-> truncate(source, source_max_length), target |-> truncate(target, target_max_length),
   content |-> truncatedLen(content, content_max_length), type |-> type, arg |-> arg, wanted |-> wanted]

\* A line: text to the active target, or a command.  One message is on its way at a time.
\* Before a target is chosen it is the empty name: a text then comes back as an error, and
\* a command does not look at it; both are left out.
Write(c, content, type, arg) ==
  /\ Line(c) /\ up[c] = <<>> /\ active_target[c] # none
  /\ content <= content_max_length
  /\ up' = [up EXCEPT ![c] = <<chat_message(nick[c], active_target[c], content, type, arg, active_target[c])>>]
  /\ UNCHANGED <<client, nick, active_target, name, members, shown>>

\* getline() fails on a line that is too long, which ends main()'s loop as /quit does.
\* What was not sent yet is lost.
Quit(c, content) ==
  /\ Line(c) /\ content > content_max_length
  /\ client' = [client EXCEPT ![c] = "closed"]
  /\ up' \in {up, [up EXCEPT ![c] = <<>>]}
  /\ UNCHANGED <<nick, active_target, name, members, shown>>

-----------------------------------------------------------------------------
(***************************************************************************)
(* The server: handle_message and do_command.                              *)
(***************************************************************************)

Received(c) == up[c] # <<>> /\ up' = [up EXCEPT ![c] = <<>>]

\* Who a text of c to target goes to; if nobody, c is told so.
Receivers(c, target) ==
  IF c \in members[target] THEN members[target] ELSE UsersNamed(target)

\* Fault: the source is the one the client wrote.
Forwarded_source(c, m) ==
  [chat_message(m.source, m.target, m.content, "text", none, m.wanted) EXCEPT !.arg = <<c, name[c]>>]

\* The text is sent on under the name the server knows; arg, for the properties, says
\* who wrote it and the name it had.
Forwarded(c, m) ==
  [chat_message(name[c], m.target, m.content, "text", none, m.wanted) EXCEPT !.arg = <<c, name[c]>>]

\* Fault: a text to a channel c has not joined goes to its members.
TextAnyChannel(c) ==
  LET m == up[c][1] IN
  /\ Received(c) /\ m.type = "text"
  /\ shown' = [d \in Clients |-> IF d \in members[m.target] \cup Receivers(c, m.target) /\ client[d] = "in"
                                   THEN Forwarded(c, m) ELSE shown[d]]
  /\ UNCHANGED <<client, nick, active_target, name, members, typed>>

Text(c) ==
  LET m == up[c][1] IN
  /\ Received(c) /\ m.type = "text"
  /\ shown' = [d \in Clients |-> IF d \in Receivers(c, m.target) /\ client[d] = "in"
                                   THEN Forwarded(c, m) ELSE shown[d]]
  /\ UNCHANGED <<client, nick, active_target, name, members, typed>>

\* /join: an existing channel, or a new one if the name is free.
Join(c) ==
  LET arg == up[c][1].arg IN
  /\ Received(c) /\ up[c][1].type = "join"
  /\ IF members[arg] # {} \/ valid_id(arg)
     THEN members' = [members EXCEPT ![arg] = @ \cup {c}]
     ELSE UNCHANGED members
  /\ UNCHANGED <<client, nick, active_target, name, shown, typed>>

\* /leave: the last one out removes the channel.
Leave(c) ==
  LET arg == up[c][1].arg IN
  /\ Received(c) /\ up[c][1].type = "leave"
  /\ members' = [members EXCEPT ![arg] = @ \ {c}]
  /\ UNCHANGED <<client, nick, active_target, name, shown, typed>>

\* /nick: the client does not hear of it.
Nick(c) ==
  LET arg == up[c][1].arg IN
  /\ Received(c) /\ up[c][1].type = "nick"
  /\ name' = IF valid_id(arg) THEN [name EXCEPT ![c] = arg] ELSE name
  /\ UNCHANGED <<client, nick, active_target, members, shown, typed>>

\* The read of a closed connection fails: manager_.stop.
Stop(c) ==
  /\ client[c] = "closed" /\ up[c] = <<>>
  /\ client' = [client EXCEPT ![c] = "out"]
  /\ nick' = [nick EXCEPT ![c] = none]
  /\ active_target' = [active_target EXCEPT ![c] = none]
  /\ name' = [name EXCEPT ![c] = none]
  /\ members' = [n \in AllNames |-> members[n] \ {c}]
  /\ shown' = [shown EXCEPT ![c] = none]
  /\ UNCHANGED <<up, typed>>

Next ==
  \E c \in Clients :
    \/ \E n \in Names :
         \/ Connect(c, n) \/ Target(c, n)
         \/ \E type \in {"join", "leave", "nick"} : Write(c, n.len, type, n)
    \/ \E l \in Lines : Write(c, l, "text", none) \/ Quit(c, l)
    \/ Text(c) \/ Join(c) \/ Leave(c) \/ Nick(c) \/ Stop(c)

Spec == Init /\ [][Next]_vars

-----------------------------------------------------------------------------
(***************************************************************************)
(* Properties.                                                             *)
(***************************************************************************)

(***************************************************************************)
(* An answer reaches the one who wrote: while the writer of a printed text *)
(* keeps the name it had, and that name has at most 20 characters, a text  *)
(* addressed to the source that was printed goes to the writer and to no   *)
(* one else, whatever nickname the writer's client still believes in.      *)
(***************************************************************************)
ReplyReachesWriter ==
  \A c \in Clients : shown[c] # none =>
    LET m == shown[c]
        writer == m.arg[1]
    IN name[writer] = m.arg[2] /\ m.arg[2].len <= source_max_length
         => Receivers(c, m.source) = {writer}

(***************************************************************************)
(* A text whose typed target has at most 20 characters is printed only by  *)
(* the user of that name, or by the users of that channel; and what is     *)
(* printed is a line as it was typed, not the beginning of one.            *)
(***************************************************************************)
OnlyTheTargetReads ==
  [][\A c \in Clients : shown'[c] # shown[c] /\ shown'[c] # none =>
       LET n == shown'[c].wanted IN
       /\ n.len <= target_max_length => name[c] = n \/ {c, shown'[c].arg[1]} \subseteq members[n]
       /\ shown'[c].content \in Lines]_vars

=============================================================================
