----------------------------- MODULE Handshake ------------------------------
(***************************************************************************)
(* From connect() to "valid": clients that pick a nickname, send it and    *)
(* wait for the answer, and the server's do_accept with its nickname       *)
(* handler.                                                                *)
(*                                                                         *)
(* All nickname reads of the server go to one member, nick_buffer_.  TCP   *)
(* may deliver the bytes of a nickname in two halves, and the handler of   *)
(* an accept reads what is already there; when that is everything, the     *)
(* nickname handler is queued, else the rest is read when it comes, and    *)
(* the handler follows at once.                                            *)
(*                                                                         *)
(* Any connection may fail at any time, and the server may stop a user     *)
(* whose client is still there.  Renaming by /nick is left to ChatServer.  *)
(*                                                                         *)
(* A nickname is a pair of halves, <<n, n>> for a picked name n; a pair of *)
(* different halves is a name nobody picked.                               *)
(***************************************************************************)
EXTENDS Naturals, FiniteSets

CONSTANTS
  Clients,     \* client processes
  WellFormed,  \* names that pass the character and length tests of valid_id
  IllFormed,   \* names that do not
  blank        \* no name; nick_buffer_ before the first read

ASSUME NicksAssumption == WellFormed \cap IllFormed = {} /\ blank \notin WellFormed \cup IllFormed

VARIABLES
  client,       \* where each client's connect() is
  pick,         \* the nickname it picked
  arrived,      \* halves of it that have reached the server
  conn,         \* the server's end of its connection
  got,          \* halves read from it
  nick_buffer,  \* nick_buffer_
  accepting,    \* an async_accept is outstanding
  name,         \* the name it is registered under
  answer,       \* the answer on its way to the client
  mixed         \* history: another client's half was read during its read

vars == <<client, pick, arrived, conn, got, nick_buffer, accepting, name, answer, mixed>>

Picks == WellFormed \cup IllFormed
noname == <<blank, blank>>

(***************************************************************************)
(* Client: picking (at the prompt), waiting (in connect()), in (connected) *)
(* or gone (the process ended while connect() waited).                     *)
(* Server: none, backlog (connected, not accepted), reading, read (the     *)
(* nickname handler is queued), user (registered), stopped (taken off the  *)
(* list of users; the socket may be closed or not).                        *)
(***************************************************************************)
Init ==
  /\ client = [c \in Clients |-> "picking"]
  /\ pick = [c \in Clients |-> blank]
  /\ arrived = [c \in Clients |-> 0]
  /\ conn = [c \in Clients |-> "none"]
  /\ got = [c \in Clients |-> 0]
  /\ nick_buffer = noname
  /\ accepting = TRUE
  /\ name = [c \in Clients |-> noname]
  /\ answer = [c \in Clients |-> "none"]
  /\ mixed = [c \in Clients |-> FALSE]

-----------------------------------------------------------------------------
(***************************************************************************)
(* The client: chat_client::connect and the loop in main().                *)
(***************************************************************************)

Connect(c, n) ==
  /\ client[c] = "picking" /\ conn[c] \in {"none", "stopped"}
  /\ client' = [client EXCEPT ![c] = "waiting"]
  /\ pick' = [pick EXCEPT ![c] = n]
  /\ arrived' = [arrived EXCEPT ![c] = 0]
  /\ conn' = [conn EXCEPT ![c] = "backlog"]
  /\ UNCHANGED <<got, nick_buffer, accepting, name, answer, mixed>>

\* The network delivers one half of the nickname.
Arrive(c) ==
  /\ conn[c] \in {"backlog", "reading"} /\ arrived[c] < 2
  /\ arrived' = [arrived EXCEPT ![c] = @ + 1]
  /\ UNCHANGED <<client, pick, conn, got, nick_buffer, accepting, name, answer, mixed>>

\* The answer is read: "valid" starts the read loop; anything else, and a closed
\* connection, asks again.
Answer(c) ==
  /\ client[c] = "waiting" /\ answer[c] # "none"
  /\ client' = [client EXCEPT ![c] = IF answer[c] = "valid" THEN "in" ELSE "picking"]
  /\ answer' = [answer EXCEPT ![c] = "none"]
  /\ UNCHANGED <<pick, arrived, conn, got, nick_buffer, accepting, name, mixed>>

\* The user ends the client.
Quit(c) ==
  /\ client[c] \in {"waiting", "in"}
  /\ client' = [client EXCEPT ![c] = "gone"]
  /\ answer' = [answer EXCEPT ![c] = "none"]
  /\ UNCHANGED <<pick, arrived, conn, got, nick_buffer, accepting, name, mixed>>

\* And may start it again, once the server has noticed.
Restart(c) ==
  /\ client[c] = "gone" /\ conn[c] \in {"none", "stopped"}
  /\ client' = [client EXCEPT ![c] = "picking"]
  /\ UNCHANGED <<pick, arrived, conn, got, nick_buffer, accepting, name, answer, mixed>>

-----------------------------------------------------------------------------
(***************************************************************************)
(* The server.                                                             *)
(***************************************************************************)

\* async_read takes what has arrived and was not read yet.
Read(c, buf) ==
  [k \in 1..2 |-> IF got[c] < k /\ k <= arrived[c] THEN pick[c] ELSE buf[k]]

\* Connections with a nickname read under way, whose buffer this is too.
Disturbed(c) ==
  [d \in Clients |-> mixed[d] \/ (d # c /\ conn[d] \in {"reading", "read"} /\ arrived[c] > got[c])]

\* Fault: names in use are not looked up.
valid_id_characters(nm) == {nm[1], nm[2]} \subseteq WellFormed

valid_id(nm) == {nm[1], nm[2]} \subseteq WellFormed /\ \A d \in Clients : name[d] # nm

\* An answer to a client that is gone is lost.
Reply(c, text) == answer' = [answer EXCEPT ![c] = IF client[c] = "waiting" THEN text ELSE @]

\* The nickname handler on buffer contents nm.
Nickname(c, nm) ==
  IF valid_id(nm)
  THEN /\ name' = [name EXCEPT ![c] = nm]
       /\ conn' = [conn EXCEPT ![c] = "user"]
       /\ Reply(c, "valid")
  ELSE /\ conn' = [conn EXCEPT ![c] = "none"]
       /\ Reply(c, "invalid")
       /\ UNCHANGED name

\* Fault: do_accept is not called again.
AcceptOnce(c) ==
  /\ accepting /\ conn[c] = "backlog" /\ \A d \in Clients : conn[d] # "read"
  /\ accepting' = FALSE
  /\ nick_buffer' = Read(c, nick_buffer)
  /\ got' = [got EXCEPT ![c] = arrived[c]]
  /\ conn' = [conn EXCEPT ![c] = IF arrived[c] = 2 THEN "read" ELSE "reading"]
  /\ mixed' = [Disturbed(c) EXCEPT ![c] = FALSE]
  /\ UNCHANGED <<client, pick, arrived, name, answer>>

\* The accept handler: starts the nickname read, and then the next accept, whose
\* handler is therefore queued behind a nickname handler queued by the read.
Accept(c) ==
  /\ accepting /\ conn[c] = "backlog" /\ \A d \in Clients : conn[d] # "read"
  /\ accepting' = TRUE
  /\ nick_buffer' = Read(c, nick_buffer)
  /\ got' = [got EXCEPT ![c] = arrived[c]]
  /\ conn' = [conn EXCEPT ![c] = IF arrived[c] = 2 THEN "read" ELSE "reading"]
  /\ mixed' = [Disturbed(c) EXCEPT ![c] = FALSE]
  /\ UNCHANGED <<client, pick, arrived, name, answer>>

\* Fault: the handler runs on the first bytes.
ReadAnything(c) ==
  /\ conn[c] = "reading" /\ got[c] < arrived[c]
  /\ nick_buffer' = Read(c, nick_buffer)
  /\ mixed' = Disturbed(c)
  /\ got' = [got EXCEPT ![c] = 0]
  /\ Nickname(c, nick_buffer')
  /\ UNCHANGED <<client, pick, arrived, accepting>>

\* The rest, or a part of it, has come.
ReadSome(c) ==
  /\ conn[c] = "reading" /\ got[c] < arrived[c]
  /\ nick_buffer' = Read(c, nick_buffer)
  /\ mixed' = Disturbed(c)
  /\ IF arrived[c] = 2
     THEN got' = [got EXCEPT ![c] = 0] /\ Nickname(c, nick_buffer')
     ELSE got' = [got EXCEPT ![c] = arrived[c]] /\ UNCHANGED <<name, conn, answer>>
  /\ UNCHANGED <<client, pick, arrived, accepting>>

\* The queued nickname handler.
ReadWhole(c) ==
  /\ conn[c] = "read"
  /\ got' = [got EXCEPT ![c] = 0]
  /\ Nickname(c, nick_buffer)
  /\ UNCHANGED <<client, pick, arrived, nick_buffer, accepting, mixed>>

\* The accept fails, because the connection is gone already.
AcceptError(c) ==
  /\ accepting /\ conn[c] = "backlog" /\ \A d \in Clients : conn[d] # "read"
  /\ accepting' = TRUE
  /\ conn' = [conn EXCEPT ![c] = "none"]
  /\ Reply(c, "closed")
  /\ UNCHANGED <<client, pick, arrived, got, nick_buffer, name, mixed>>

\* The nickname read fails; the socket is closed.
ReadError(c) ==
  /\ conn[c] = "reading"
  /\ conn' = [conn EXCEPT ![c] = "none"]
  /\ got' = [got EXCEPT ![c] = 0]
  /\ Reply(c, "closed")
  /\ UNCHANGED <<client, pick, arrived, nick_buffer, accepting, name, mixed>>

(***************************************************************************)
(* manager_.stop: the read loop failed, also after a ping timeout, or a    *)
(* header could not be read, or a write failed.  The client may be gone or *)
(* not, and an answer written before may reach it or be lost.              *)
(***************************************************************************)
Stopped(c) ==
  /\ conn[c] = "user"
  /\ conn' = [conn EXCEPT ![c] = "stopped"]
  /\ name' = [name EXCEPT ![c] = noname]
  /\ UNCHANGED answer \/ Reply(c, "closed")
  /\ UNCHANGED <<client, pick, arrived, got, nick_buffer, accepting, mixed>>

\* The server notices that a client is gone.
Noticed(c) == client[c] = "gone" /\ (ReadError(c) \/ Stopped(c))

Next ==
  \E c \in Clients :
    \/ \E n \in Picks : Connect(c, n)
    \/ Arrive(c) \/ Answer(c) \/ Quit(c) \/ Restart(c)
    \/ Accept(c) \/ ReadSome(c) \/ ReadWhole(c)
    \/ AcceptError(c) \/ ReadError(c) \/ Stopped(c)

(***************************************************************************)
(* The network delivers, the io thread runs its handlers, and a client     *)
(* reads the answer.  The kernel hands out the waiting connections in the  *)
(* order they came, so none is passed over for ever: fairness is strong    *)
(* for Accept.  The read of a connection whose client is gone fails.  No   *)
(* other connection has to fail, and nobody has to connect or to quit.     *)
(***************************************************************************)
Fairness(c) ==
  /\ WF_vars(Arrive(c)) /\ WF_vars(Answer(c))
  /\ SF_vars(Accept(c)) /\ WF_vars(ReadSome(c)) /\ WF_vars(ReadWhole(c)) /\ WF_vars(Noticed(c))

Spec == Init /\ [][Next]_vars /\ \A c \in Clients : Fairness(c)

-----------------------------------------------------------------------------
(***************************************************************************)
(* Properties.                                                             *)
(***************************************************************************)

(***************************************************************************)
(* A client whose nickname was read while no other nickname was read into  *)
(* nick_buffer_ is registered under the nickname it picked, whatever       *)
(* earlier clients left in the buffer.                                     *)
(***************************************************************************)
OwnNameUndisturbed ==
  \A c \in Clients : conn[c] = "user" /\ ~mixed[c] => name[c] = <<pick[c], pick[c]>>

(***************************************************************************)
(* A client told "valid" was made a user of the server by this very        *)
(* connection, and is one until the server stops it; as long as it is, no  *)
(* other has its name.                                                     *)
(***************************************************************************)
ValidMeansRegistered ==
  \A c \in Clients : client[c] = "in" \/ answer[c] = "valid" =>
    /\ conn[c] \in {"user", "stopped"}
    /\ conn[c] = "user" => \A d \in Clients \ {c} : name[d] # name[c]

\* connect() returns: a client that waits for its answer gets one.
EveryClientAnswered ==
  \A c \in Clients : client[c] = "waiting" ~> client[c] # "waiting"

(***************************************************************************)
(* README.md: to run the client "you will need to pick a vaild name".  The *)
(* name picked is the name a connected client has.                         *)
(***************************************************************************)
OwnName ==
  \A c \in Clients : client[c] = "in" /\ conn[c] = "user" => name[c] = <<pick[c], pick[c]>>

=============================================================================
