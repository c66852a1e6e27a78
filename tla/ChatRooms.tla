----------------------------- MODULE ChatRooms ------------------------------
(***************************************************************************)
(* What the chat server promises, without its tables: who is there, under  *)
(* which name, which user is in which room, and who is written to.  A room *)
(* is nothing but the set of its members; it exists while it has one.      *)
(* ChatServer implements this specification.                               *)
(***************************************************************************)

CONSTANTS Users, Names, WellFormed, blank

VARIABLES
  present,  \* users the server still takes messages from
  online,   \* users the server lists, by name
  nick,     \* the name of each user
  member,   \* pairs <<user, room>>
  sent      \* what the latest step wrote, and to whom

rvars == <<present, online, nick, member, sent>>

Rooms == {r \in Names : \E u \in Users : <<u, r>> \in member}
Members(r) == {u \in Users : <<u, r>> \in member}
RoomsOf(u) == {r \in Names : <<u, r>> \in member}

\* A name nobody has: a name can be taken by a user or by a new room.
Available(n) == n \in WellFormed /\ n \notin Rooms /\ \A u \in online : nick[u] # n

Write(S, kind, src, tgt) ==
  {[to |-> u, kind |-> kind, src |-> src, tgt |-> tgt] : u \in S}

Announce(R, kind) == UNION {Write(Members(r), kind, "server", r) : r \in R}

RInit ==
  /\ present = {} /\ online = {} /\ member = {} /\ sent = {}
  /\ nick = [u \in Users |-> blank]

\* A user comes in under a name of its own.
Register(u, n) ==
  /\ u \notin present
  /\ Available(n)
  /\ present' = present \cup {u}
  /\ online' = online \cup {u}
  /\ nick' = [nick EXCEPT ![u] = n]
  /\ sent' = Write({u}, "valid", "server", n) \cup Write({u}, "ping", "server", n)
  /\ UNCHANGED member

\* Entering a room that does not exist makes it exist.
Enter(u, r) ==
  /\ u \in present
  /\ r \in Rooms \/ Available(r)
  /\ member' = member \cup {<<u, r>>}
  /\ sent' = Write(Members(r) \cup {u}, "joined", "server", r)
  /\ UNCHANGED <<present, online, nick>>

Rename(u, n) ==
  /\ u \in present
  /\ Available(n)
  /\ nick' = [nick EXCEPT ![u] = n]
  /\ sent' = Announce(RoomsOf(u), "renamed")
  /\ UNCHANGED <<present, online, member>>

\* A text goes to the room, if the speaker is in it, else to the user of that
\* name, else the speaker is told.
Say(u, t) ==
  /\ u \in present
  /\ \/ /\ <<u, t>> \in member
        /\ sent' = Write(Members(t), "text", nick[u], t)
     \/ /\ <<u, t>> \notin member
        /\ \E v \in online : nick[v] = t /\ sent' = Write({v}, "text", nick[u], t)
     \/ /\ <<u, t>> \notin member
        /\ \A v \in online : nick[v] # t
        /\ sent' = Write({u}, "error", "server", nick[u])
  /\ UNCHANGED <<present, online, nick, member>>

\* Leaving rooms: one, or all of them.
Exeunt(u, R) ==
  /\ R \subseteq RoomsOf(u)
  /\ member' = {m \in member : m[1] # u \/ m[2] \notin R}
  /\ sent' = Announce(R, "left")

Leave(u, r) ==
  /\ u \in present /\ r \in RoomsOf(u)
  /\ Exeunt(u, {r})
  /\ UNCHANGED <<present, online, nick>>

\* Out of all rooms; still listed, or no longer listed, or gone.
LeaveAll(u) ==
  /\ u \in present
  /\ Exeunt(u, RoomsOf(u))
  /\ \/ UNCHANGED <<present, online, nick>>
     \/ online' = online \ {u} /\ UNCHANGED <<present, nick>>
     \/ /\ online' = online \ {u}
        /\ present' = present \ {u}
        /\ nick' = [nick EXCEPT ![u] = blank]

\* Notices that concern one user only, or steps that write nothing.
Notice(u) ==
  /\ \/ sent' = {}
     \/ sent' = Write({u}, "invalid", "server", blank)
     \/ u \in present /\ \E k \in {"error", "ping"} : sent' = Write({u}, k, "server", nick[u])
  /\ UNCHANGED <<present, online, nick, member>>

RNext ==
  \/ \E u \in Users, n \in Names :
       Register(u, n) \/ Enter(u, n) \/ Rename(u, n) \/ Say(u, n) \/ Leave(u, n)
  \/ \E u \in Users : LeaveAll(u) \/ Notice(u)

RSpec == RInit /\ [][RNext]_rvars

=============================================================================
