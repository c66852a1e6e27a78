-------------------------- MODULE ChatServerProofs --------------------------
(***************************************************************************)
(* Proofs about ChatServer, and about ServerStop, the server whose console *)
(* thread runs stop_all() while the io thread still runs handlers, for any *)
(* sets of users, names and channel slots.                                 *)
(***************************************************************************)
EXTENDS ServerStop, TLAPS

\* The inductive invariant; each part needs the others on the leave paths.
IInv ==
  /\ TypeOK
  /\ MembershipAgrees
  /\ NoDetachedChannel
  /\ NoEmptyChannel
  /\ NamesUnique
  /\ NoStrandedMember

Messages == [to : Users, kind : Kinds,
             src : Names \cup {blank, server}, tgt : Names \cup {blank}]

\* chan_name maps a channel object into the well-formed names.
LEMMA ChanNameType == \A c \in Chans : chan_name(c) \in WellFormed /\ chan_name(c) \in Names
BY DEF Chans, chan_name, Names

\* Post builds well-typed messages.
LEMMA PostType ==
  ASSUME NEW S \in SUBSET Users, NEW k \in Kinds,
         NEW s \in Names \cup {blank, server}, NEW t \in Names \cup {blank}
  PROVE  Post(S, k, s, t) \subseteq Messages
BY DEF Post, Messages

\* leave keeps the types of the tables it writes.
LEMMA LeaveType ==
  ASSUME TypeOK, NEW u \in Users, NEW C \in SUBSET Chans, leave(u, C)
  PROVE  /\ joined' \in [Users -> SUBSET Chans]
         /\ users' \in [Chans -> SUBSET Users]
         /\ channels' \in [Names -> Chans \cup {null}]
         /\ sent' \subseteq Messages
<1>1. joined' \in [Users -> SUBSET Chans]
  BY DEF TypeOK, leave
<1>2. users' \in [Chans -> SUBSET Users]
  BY DEF TypeOK, leave
<1>3. channels' \in [Names -> Chans \cup {null}]
  BY DEF TypeOK, leave
<1>4. ASSUME NEW c \in C
      PROVE  Post(users[c], "left", server, chan_name(c)) \subseteq Messages
  BY PostType, ChanNameType DEF TypeOK, Kinds
<1>5. sent' \subseteq Messages
  BY <1>4 DEF leave
<1> QED
  BY <1>1, <1>2, <1>3, <1>5

\* The tables after leave, when u was in the channels it leaves: what stays
\* consistent does so because removal by name hits exactly the emptied channel.
LEMMA LeaveKeepsTables ==
  ASSUME IInv, NEW u \in Users, NEW C \in SUBSET joined[u], leave(u, C)
  PROVE  MembershipAgrees' /\ NoDetachedChannel' /\ NoEmptyChannel'
<1> USE DEF IInv
<1>0. C \subseteq Chans
  BY DEF TypeOK
<1>1. MembershipAgrees'
  BY <1>0 DEF TypeOK, MembershipAgrees, leave
<1>2. NoDetachedChannel'
  <2> SUFFICES ASSUME NEW c \in Chans, users'[c] # {}
               PROVE  channels'[chan_name(c)] = c
    BY DEF NoDetachedChannel
  <2>1. users[c] # {} /\ (c \in C => users[c] \ {u} # {})
    BY DEF TypeOK, leave
  <2>2. channels[chan_name(c)] = c
    BY <2>1 DEF NoDetachedChannel
  <2>3. ASSUME NEW d \in C, chan_name(d) = chan_name(c)
        PROVE  d = c
    <3>1. u \in users[d]
      BY <1>0 DEF TypeOK, MembershipAgrees
    <3> QED
      BY <1>0, <2>2, <2>3, <3>1 DEF NoDetachedChannel
  <2>4. ~ \E d \in C : chan_name(d) = chan_name(c) /\ users[d] \ {u} = {}
    BY <2>1, <2>3
  <2> QED
    BY <2>2, <2>4, ChanNameType DEF leave
<1>3. NoEmptyChannel'
  <2> SUFFICES ASSUME NEW n \in Names, channels'[n] # null
               PROVE  chan_name(channels'[n]) = n /\ users'[channels'[n]] # {}
    BY DEF NoEmptyChannel
  <2>1. /\ channels'[n] = channels[n]
        /\ ~ \E c \in C : chan_name(c) = n /\ users[c] \ {u} = {}
    BY DEF leave
  <2>2. channels[n] \in Chans /\ chan_name(channels[n]) = n /\ users[channels[n]] # {}
    BY <2>1 DEF TypeOK, NoEmptyChannel
  <2> QED
    BY <2>1, <2>2 DEF leave
<1> QED
  BY <1>1, <1>2, <1>3

\* The tables after join, when c is the channel the server knows under its
\* name, or becomes so in the same step.
LEMMA JoinKeepsTables ==
  ASSUME IInv, NEW u \in Users, NEW c \in Chans,
         \/ /\ channels[chan_name(c)] = c
            /\ join(u, c, users[c])
            /\ UNCHANGED channels
         \/ /\ channels[chan_name(c)] = null
            /\ join(u, c, {})
            /\ channels' = [channels EXCEPT ![chan_name(c)] = c]
  PROVE  /\ MembershipAgrees' /\ NoDetachedChannel' /\ NoEmptyChannel'
         /\ joined' \in [Users -> SUBSET Chans]
         /\ users' \in [Chans -> SUBSET Users]
         /\ channels' \in [Names -> Chans \cup {null}]
         /\ sent' \subseteq Messages
<1> USE DEF IInv
<1>0. join(u, c, users[c])
  <2>1. channels[chan_name(c)] = null => users[c] = {}
    BY NullAssumption DEF NoDetachedChannel
  <2> QED
    BY <2>1
<1>1. /\ joined' \in [Users -> SUBSET Chans]
      /\ users' \in [Chans -> SUBSET Users]
      /\ channels' \in [Names -> Chans \cup {null}]
  BY <1>0, ChanNameType DEF TypeOK, join
<1>2. sent' \subseteq Messages
  <2>1. users[c] \cup {u} \in SUBSET Users
    BY DEF TypeOK
  <2> QED
    BY <1>0, <2>1, PostType, ChanNameType DEF join, Kinds
<1>3. MembershipAgrees'
  BY <1>0 DEF TypeOK, MembershipAgrees, join
<1>4. NoDetachedChannel'
  BY <1>0, ChanNameType, NullAssumption DEF TypeOK, NoDetachedChannel, join
<1>5. NoEmptyChannel'
  BY <1>0, ChanNameType, NullAssumption DEF TypeOK, NoEmptyChannel, join
<1> QED
  BY <1>1, <1>2, <1>3, <1>4, <1>5

\* The target of a text is a set of server messages to users that exist.
LEMMA RouteType ==
  ASSUME TypeOK, NEW u \in Users, NEW t \in Names
  PROVE  Route(u, t) \subseteq Messages
<1>1. CASE channels[t] # null /\ is_joined(u, channels[t])
  <2>1. users[channels[t]] \in SUBSET Users
    BY <1>1 DEF TypeOK
  <2> QED
    BY <1>1, <2>1, PostType DEF Route, TypeOK, Kinds
<1>2. CASE ~(channels[t] # null /\ is_joined(u, channels[t])) /\ user_exists(t)
  <2>1. (CHOOSE v \in connections : name[v] = t) \in connections
    BY <1>2 DEF user_exists
  <2> QED
    BY <1>2, <2>1, PostType DEF Route, TypeOK, Kinds
<1>3. CASE ~(channels[t] # null /\ is_joined(u, channels[t])) /\ ~user_exists(t)
  BY <1>3, PostType DEF Route, TypeOK, Kinds
<1> QED
  BY <1>1, <1>2, <1>3


\* Initially all tables are empty.
LEMMA InitIInv == Init => IInv
<1> SUFFICES ASSUME Init PROVE IInv
  OBVIOUS
<1>1. TypeOK
  BY DEF Init, TypeOK, Phases
<1>2. MembershipAgrees /\ NoDetachedChannel /\ NoEmptyChannel /\ NamesUnique
  BY DEF Init, MembershipAgrees, NoDetachedChannel, NoEmptyChannel, NamesUnique
<1>3. NoStrandedMember
  BY DEF Init, NoStrandedMember, HasReadLoop
<1> QED
  BY <1>1, <1>2, <1>3 DEF IInv

\* TypeOK is preserved by every step.
LEMMA TypeStep == IInv /\ [Next]_vars => TypeOK'
<1> SUFFICES ASSUME IInv, [Next]_vars PROVE TypeOK'
  OBVIOUS
<1> USE DEF IInv, Messages
<1>0. ASSUME NEW u \in Users PROVE joined[u] \in SUBSET Chans
  BY DEF TypeOK
<1>1. ASSUME NEW u \in Users, Accept(u) \/ Handler(u) PROVE TypeOK'
  <2>1. CASE Accept(u)
    BY <2>1 DEF Accept, TypeOK, Phases
  <2>2. ASSUME NEW n \in Names, NicknameValid(u, n) PROVE TypeOK'
    <3>1. sent' \subseteq Messages
      BY <2>2, PostType DEF NicknameValid, Kinds
    <3> QED
      BY <2>2, <3>1 DEF NicknameValid, TypeOK, Phases
  <2>3. ASSUME NEW n \in Names, NicknameInvalid(u, n) PROVE TypeOK'
    <3>1. sent' \subseteq Messages
      BY <2>3, PostType DEF NicknameInvalid, Kinds
    <3> QED
      BY <2>3, <3>1 DEF NicknameInvalid, TypeOK, Phases
  <2>4. CASE NicknameReadError(u)
    BY <2>4 DEF NicknameReadError, TypeOK, Phases
  <2>5. ASSUME NEW n \in Names, JoinExisting(u, n) PROVE TypeOK'
    <3>1. channels[n] \in Chans /\ chan_name(channels[n]) = n
      BY <2>5 DEF JoinExisting, TypeOK, NoEmptyChannel
    <3> QED
      BY <2>5, <3>1, JoinKeepsTables DEF JoinExisting, ReadAgain, TypeOK, Phases
  <2>6. ASSUME NEW n \in Names, JoinNew(u, n) PROVE TypeOK'
    <3>1. PICK c \in Chans : /\ chan_name(c) = n
                             /\ channels' = [channels EXCEPT ![n] = c]
                             /\ join(u, c, {})
      BY <2>6 DEF JoinNew
    <3> QED
      BY <2>6, <3>1, JoinKeepsTables DEF JoinNew, valid_id, ReadAgain, TypeOK, Phases
  <2>7. ASSUME NEW n \in Names, LeaveCommand(u, n) PROVE TypeOK'
    <3>1. {channels[n]} \in SUBSET Chans
      BY <2>7 DEF LeaveCommand, TypeOK
    <3> QED
      BY <2>7, <3>1, LeaveType DEF LeaveCommand, ReadAgain, TypeOK, Phases
  <2>8. ASSUME NEW n \in Names, NickCommand(u, n) PROVE TypeOK'
    <3>1. ASSUME NEW c \in joined[u]
          PROVE  Post(users[c], "renamed", server, chan_name(c)) \subseteq Messages
      BY <1>0, PostType, ChanNameType DEF TypeOK, Kinds
    <3>2. sent' \subseteq Messages
      BY <2>8, <3>1 DEF NickCommand
    <3> QED
      BY <2>8, <3>2 DEF NickCommand, ReadAgain, TypeOK, Phases
  <2>9. CASE CommandError(u) \/ NoEffect(u)
    <3>1. name[u] \in Names \cup {blank}
      BY DEF TypeOK
    <3>2. Post({u}, "error", server, name[u]) \subseteq Messages
      BY <3>1, PostType DEF Kinds
    <3>3. sent' \subseteq Messages
      BY <2>9, <3>2 DEF CommandError, NoEffect
    <3> QED
      BY <2>9, <3>3 DEF CommandError, NoEffect, ReadAgain, TypeOK, Phases
  <2>10. ASSUME NEW n \in Names, Text(u, n) PROVE TypeOK'
    BY <2>10, RouteType DEF Text, ReadAgain, TypeOK, Phases
  <2>11. CASE BadHeader(u) \/ ReadError(u) \/ WriteError(u)
    BY <1>0, <2>11, LeaveType
       DEF BadHeader, ReadError, WriteError, manager_stop, leave_all_channels,
           ReadAgain, TypeOK, Phases
  <2>12. CASE Ping(u)
    <3>1. name[u] \in Names \cup {blank}
      BY DEF TypeOK
    <3>2. sent' \subseteq Messages
      BY <2>12, <3>1, PostType DEF Ping, Kinds
    <3> QED
      BY <2>12, <3>2 DEF Ping, TypeOK
  <2>13. CASE PingTimeout(u)
    BY <1>0, <2>13, LeaveType
       DEF PingTimeout, leave_all_channels, TypeOK, Phases
  <2> QED
    BY <1>1, <2>1, <2>2, <2>3, <2>4, <2>5, <2>6, <2>7, <2>8, <2>9, <2>10, <2>11,
       <2>12, <2>13 DEF Handler
<1>2. CASE UNCHANGED vars
  BY <1>2 DEF vars, TypeOK
<1> QED
  BY <1>1, <1>2 DEF Next


\* The three facts that tie channels_, users_ and the users' channels_ together.
LEMMA TablesStep ==
  IInv /\ [Next]_vars => MembershipAgrees' /\ NoDetachedChannel' /\ NoEmptyChannel'
<1> DEFINE Tables == MembershipAgrees /\ NoDetachedChannel /\ NoEmptyChannel
<1> SUFFICES ASSUME IInv, [Next]_vars PROVE Tables'
  OBVIOUS
<1> USE DEF IInv
<1>1. ASSUME UNCHANGED <<joined, channels, users>> PROVE Tables'
  BY <1>1 DEF MembershipAgrees, NoDetachedChannel, NoEmptyChannel
<1>2. ASSUME NEW u \in Users, Accept(u) \/ Handler(u) PROVE Tables'
  <2>1. CASE \/ Accept(u) \/ NicknameReadError(u) \/ CommandError(u) \/ NoEffect(u) \/ Ping(u)
             \/ \E n \in Names : \/ NicknameValid(u, n) \/ NicknameInvalid(u, n)
                                 \/ NickCommand(u, n) \/ Text(u, n)
    BY <1>1, <2>1 DEF Accept, NicknameReadError, CommandError, NoEffect, Ping,
                      NicknameValid, NicknameInvalid, NickCommand, Text
  <2>2. ASSUME NEW n \in Names, JoinExisting(u, n) PROVE Tables'
    <3>1. channels[n] \in Chans /\ chan_name(channels[n]) = n
      BY <2>2 DEF JoinExisting, TypeOK, NoEmptyChannel
    <3> QED
      BY <2>2, <3>1, JoinKeepsTables DEF JoinExisting
  <2>3. ASSUME NEW n \in Names, JoinNew(u, n) PROVE Tables'
    <3>1. PICK c \in Chans : /\ chan_name(c) = n
                             /\ channels' = [channels EXCEPT ![n] = c]
                             /\ join(u, c, {})
      BY <2>3 DEF JoinNew
    <3> QED
      BY <2>3, <3>1, JoinKeepsTables DEF JoinNew, valid_id
  <2>4. ASSUME NEW n \in Names, LeaveCommand(u, n) PROVE Tables'
    <3>1. {channels[n]} \in SUBSET joined[u]
      BY <2>4 DEF LeaveCommand, is_joined
    <3> QED
      BY <2>4, <3>1, LeaveKeepsTables DEF LeaveCommand
  <2>5. CASE BadHeader(u) \/ ReadError(u) \/ WriteError(u) \/ PingTimeout(u)
    <3>1. leave(u, joined[u])
      BY <2>5 DEF BadHeader, ReadError, WriteError, PingTimeout,
                  manager_stop, leave_all_channels
    <3> QED
      BY <3>1, LeaveKeepsTables
  <2> QED
    BY <1>2, <2>1, <2>2, <2>3, <2>4, <2>5 DEF Handler
<1>3. CASE UNCHANGED vars
  BY <1>1, <1>3 DEF vars
<1> QED
  BY <1>2, <1>3 DEF Next

\* A name is only given out after valid_id found it free, and leaving only
\* frees names.
LEMMA NamesStep == IInv /\ [Next]_vars => NamesUnique'
<1> SUFFICES ASSUME IInv, [Next]_vars PROVE NamesUnique'
  OBVIOUS
<1> USE DEF IInv
<1>1. ASSUME connections' \subseteq connections,
             \A u \in connections' : name'[u] = name[u],
             \A n \in Names : channels'[n] \in {null, channels[n]}
      PROVE  NamesUnique'
  BY <1>1 DEF NamesUnique, Names
<1>2. ASSUME NEW u \in Users, Accept(u) \/ Handler(u) PROVE NamesUnique'
  <2>1. CASE \/ Accept(u) \/ NicknameReadError(u) \/ CommandError(u) \/ NoEffect(u) \/ Ping(u)
             \/ \E n \in Names : \/ NicknameInvalid(u, n) \/ Text(u, n) \/ JoinExisting(u, n)
    BY <1>1, <2>1 DEF Accept, NicknameReadError, CommandError, NoEffect, Ping,
                      NicknameInvalid, Text, JoinExisting
  <2>2. ASSUME NEW n \in Names, NicknameValid(u, n) \/ NickCommand(u, n) PROVE NamesUnique'
    BY <2>2 DEF NicknameValid, NickCommand, valid_id, user_exists, NamesUnique, TypeOK
  <2>3. ASSUME NEW n \in Names, JoinNew(u, n) PROVE NamesUnique'
    BY <2>3 DEF JoinNew, valid_id, user_exists, NamesUnique, TypeOK, Names
  <2>4. ASSUME NEW n \in Names, LeaveCommand(u, n) PROVE NamesUnique'
    BY <1>1, <2>4 DEF LeaveCommand, leave
  <2>5. CASE BadHeader(u) \/ WriteError(u) \/ PingTimeout(u)
    BY <1>1, <2>5 DEF BadHeader, WriteError, PingTimeout,
                      manager_stop, leave_all_channels, leave
  <2>6. CASE ReadError(u)
    BY <1>1, <2>6 DEF ReadError, manager_stop, leave_all_channels, leave, TypeOK
  <2> QED
    BY <1>2, <2>1, <2>2, <2>3, <2>4, <2>5, <2>6 DEF Handler
<1>3. CASE UNCHANGED vars
  BY <1>1, <1>3 DEF vars
<1> QED
  BY <1>2, <1>3 DEF Next

\* Only a user with a read loop gains a table entry, and the loop ends only in
\* ReadError, which clears the user's entries.
LEMMA StrandedStep == IInv /\ [Next]_vars => NoStrandedMember'
<1> SUFFICES ASSUME IInv, [Next]_vars PROVE NoStrandedMember'
  OBVIOUS
<1> USE DEF IInv, NoStrandedMember
<1>1. ASSUME connections' \subseteq connections,
             \A v \in Users : joined'[v] \subseteq joined[v],
             \A v \in Users : HasReadLoop(v) => HasReadLoop(v)'
      PROVE  NoStrandedMember'
  BY <1>1
<1>2. ASSUME NEW u \in Users, ReadAgain(u), NEW v \in Users, HasReadLoop(v)
      PROVE  HasReadLoop(v)'
  BY <1>2 DEF ReadAgain, HasReadLoop, TypeOK
<1>3. ASSUME NEW u \in Users, Accept(u) \/ Handler(u) PROVE NoStrandedMember'
  <2>1. CASE Accept(u) \/ NicknameReadError(u) \/ \E n \in Names : NicknameInvalid(u, n)
    BY <2>1 DEF Accept, NicknameReadError, NicknameInvalid, HasReadLoop, TypeOK
  <2>2. ASSUME NEW n \in Names, NicknameValid(u, n) PROVE NoStrandedMember'
    BY <2>2 DEF NicknameValid, HasReadLoop, TypeOK
  <2>3. CASE \/ CommandError(u) \/ NoEffect(u)
             \/ \E n \in Names : NickCommand(u, n) \/ Text(u, n)
    BY <1>1, <1>2, <2>3 DEF CommandError, NoEffect, NickCommand, Text
  <2>4. ASSUME NEW n \in Names, JoinExisting(u, n) \/ JoinNew(u, n) PROVE NoStrandedMember'
    <3>1. HasReadLoop(u)
      BY <2>4 DEF JoinExisting, JoinNew, Listening, HasReadLoop
    <3>2. \A v \in Users \ {u} : joined'[v] = joined[v]
      BY <2>4 DEF JoinExisting, JoinNew, join, TypeOK
    <3>3. ReadAgain(u) /\ UNCHANGED connections
      BY <2>4 DEF JoinExisting, JoinNew
    <3> QED
      BY <1>2, <3>1, <3>2, <3>3
  <2>5. ASSUME NEW n \in Names, LeaveCommand(u, n) PROVE NoStrandedMember'
    BY <1>1, <1>2, <2>5 DEF LeaveCommand, leave, TypeOK
  <2>6. CASE BadHeader(u)
    BY <1>1, <1>2, <2>6 DEF BadHeader, manager_stop, leave_all_channels, leave, TypeOK
  <2>7. CASE ReadError(u)
    BY <2>7 DEF ReadError, manager_stop, leave_all_channels, leave, HasReadLoop, TypeOK
  <2>8. CASE WriteError(u) \/ Ping(u)
    BY <1>1, <2>8 DEF WriteError, Ping, manager_stop, leave_all_channels, leave,
                      HasReadLoop, TypeOK
  <2>9. CASE PingTimeout(u)
    BY <1>1, <2>9 DEF PingTimeout, leave_all_channels, leave, HasReadLoop, TypeOK
  <2> QED
    BY <1>3, <2>1, <2>2, <2>3, <2>4, <2>5, <2>6, <2>7, <2>8, <2>9 DEF Handler
<1>4. CASE UNCHANGED vars
  BY <1>1, <1>4 DEF vars, HasReadLoop
<1> QED
  BY <1>3, <1>4 DEF Next

\* The tables of the server stay typed and consistent, names stay unique and no
\* member is left behind, whatever handlers, and failures interleave.
THEOREM ServerInvariant == Spec => []IInv
<1>1. IInv /\ [Next]_vars => IInv'
  BY TypeStep, TablesStep, NamesStep, StrandedStep DEF IInv
<1> QED
  BY <1>1, InitIInv, PTL DEF Spec

\* Every variable keeps its shape.
THEOREM TypeCorrect == Spec => []TypeOK
BY ServerInvariant, PTL DEF IInv

\* The two records of who is in which channel never disagree: a user's channels_
\* and a channel's users_ are kept by join, leave and leave_all_channels.
THEOREM MembershipTheorem == Spec => []MembershipAgrees
BY ServerInvariant, PTL DEF IInv

\* The server's map holds exactly the channels that have users: remove_channel
\* erases by name, and yet never cuts off a channel that is still in use.
THEOREM ChannelsTheorem == Spec => []MapAgrees
BY ServerInvariant, PTL DEF IInv, MapAgrees

\* A name in use, by a listed user or by a channel, is in use once.
THEOREM NamesTheorem == Spec => []NamesUnique
BY ServerInvariant, PTL DEF IInv

\* Whoever is listed or in a channel has the read loop that will take it out.
THEOREM NoStrandedMemberTheorem == Spec => []NoStrandedMember
BY ServerInvariant, PTL DEF IInv

\* What one step may do to the entry of a channel in the server's map.
LEMMA RemovalStep ==
  ASSUME IInv, [Next]_vars, NEW n \in Names, channels[n] # null, channels'[n] # channels[n]
  PROVE  /\ channels'[n] = null
         /\ \E u \in Users : users[channels[n]] = {u} /\ joined'[u] # joined[u]
<1> USE DEF IInv
<1>1. ASSUME NEW u \in Users, NEW C \in SUBSET joined[u], leave(u, C)
      PROVE  /\ channels'[n] = null
             /\ \E v \in Users : users[channels[n]] = {v} /\ joined'[v] # joined[v]
  <2>1. channels'[n] = null /\ \E c \in C : chan_name(c) = n /\ users[c] \ {u} = {}
    BY <1>1 DEF leave
  <2>2. PICK c \in C : chan_name(c) = n /\ users[c] \ {u} = {}
    BY <2>1
  <2>3. c \in Chans /\ c \in joined[u] /\ u \in users[c]
    BY <1>1 DEF TypeOK, MembershipAgrees
  <2>4. channels[n] = c /\ users[c] = {u}
    BY <2>2, <2>3 DEF NoDetachedChannel
  <2>5. joined'[u] # joined[u]
    BY <1>1, <2>3 DEF leave, TypeOK
  <2> QED
    BY <2>1, <2>4, <2>5
<1>2. ASSUME NEW u \in Users, NEW m \in Names, LeaveCommand(u, m)
      PROVE  {channels[m]} \in SUBSET joined[u] /\ leave(u, {channels[m]})
  BY <1>2 DEF LeaveCommand, is_joined
<1>3. ASSUME NEW u \in Users, BadHeader(u) \/ ReadError(u) \/ WriteError(u) \/ PingTimeout(u)
      PROVE  leave(u, joined[u])
  BY <1>3 DEF BadHeader, ReadError, WriteError, PingTimeout, manager_stop, leave_all_channels
<1>4. ASSUME NEW u \in Users, NEW m \in Names, JoinNew(u, m)
      PROVE  FALSE
  BY <1>4 DEF JoinNew, valid_id, TypeOK
<1>5. ASSUME NEW u \in Users,
             \/ Accept(u) \/ NicknameReadError(u) \/ CommandError(u) \/ NoEffect(u) \/ Ping(u)
             \/ \E m \in Names : \/ NicknameValid(u, m) \/ NicknameInvalid(u, m)
                                 \/ NickCommand(u, m) \/ Text(u, m) \/ JoinExisting(u, m)
      PROVE  FALSE
  BY <1>5 DEF Accept, NicknameReadError, CommandError, NoEffect, Ping, NicknameValid,
              NicknameInvalid, NickCommand, Text, JoinExisting
<1>6. CASE UNCHANGED vars
  BY <1>6 DEF vars
<1>7. ASSUME NEW u \in Users, Accept(u) \/ Handler(u)
      PROVE  /\ channels'[n] = null
             /\ \E v \in Users : users[channels[n]] = {v} /\ joined'[v] # joined[v]
  BY <1>1, <1>2, <1>3, <1>4, <1>5, <1>7 DEF Handler
<1> QED
  BY <1>6, <1>7 DEF Next

\* A channel disappears only in the step in which its only user leaves it, which
\* is what the comment in remove_channel takes for granted.
THEOREM RemovalTheorem == Spec => RemovedByLastMember
<1>1. IInv /\ [Next]_vars =>
        [\A n \in Names : channels[n] # null /\ channels'[n] # channels[n] =>
           /\ channels'[n] = null
           /\ \E u \in Users : users[channels[n]] = {u} /\ joined'[u] # joined[u]]_vars
  BY RemovalStep
<1> QED
  BY <1>1, ServerInvariant, PTL DEF Spec, RemovedByLastMember

-----------------------------------------------------------------------------
(***************************************************************************)
(* ChatServer implements ChatRooms.  A room of the abstract specification  *)
(* is the channel the server's map holds under its name; that this is well *)
(* defined is what the inductive invariant says.                           *)
(***************************************************************************)

\* A user is in a room iff it is in the users_ of the channel of that name.
LEMMA MemberIff ==
  ASSUME IInv, NEW u \in Users, NEW n \in Names
  PROVE  /\ <<u, n>> \in Member <=> channels[n] # null /\ channels[n] \in joined[u]
         /\ <<u, n>> \in Member <=> channels[n] # null /\ u \in users[channels[n]]
<1> USE DEF IInv
<1>1. <<u, n>> \in Member <=> \E c \in joined[u] : chan_name(c) = n
  BY DEF Member
<1>2. ASSUME NEW c \in joined[u], chan_name(c) = n
      PROVE  channels[n] = c /\ c # null
  BY <1>2, NullAssumption DEF TypeOK, MembershipAgrees, NoDetachedChannel
<1>3. ASSUME channels[n] # null
      PROVE  /\ channels[n] \in Chans /\ chan_name(channels[n]) = n
             /\ channels[n] \in joined[u] <=> u \in users[channels[n]]
  BY <1>3 DEF TypeOK, NoEmptyChannel, MembershipAgrees
<1> QED
  BY <1>1, <1>2, <1>3

\* Members, Rooms, RoomsOf and Available are what the handlers look up.
LEMMA RoomIsChannel ==
  ASSUME IInv, NEW n \in Names
  PROVE  /\ channels[n] # null => Abstract!Members(n) = users[channels[n]]
         /\ channels[n] = null => Abstract!Members(n) = {}
         /\ n \in Abstract!Rooms <=> channels[n] # null
         /\ Abstract!Available(n) <=> valid_id(n)
<1> USE DEF IInv
<1>1. channels[n] # null => Abstract!Members(n) = users[channels[n]]
  BY MemberIff DEF Abstract!Members, TypeOK
<1>2. channels[n] = null => Abstract!Members(n) = {}
  BY MemberIff DEF Abstract!Members
<1>3. n \in Abstract!Rooms <=> channels[n] # null
  <2>1. n \in Abstract!Rooms <=> \E u \in Users : <<u, n>> \in Member
    BY DEF Abstract!Rooms
  <2>2. channels[n] # null => \E u \in Users : u \in users[channels[n]]
    BY DEF TypeOK, NoEmptyChannel
  <2> QED
    BY <2>1, <2>2, MemberIff
<1>4. Abstract!Available(n) <=> valid_id(n)
  BY <1>3 DEF Abstract!Available, valid_id, user_exists
<1> QED
  BY <1>1, <1>2, <1>3, <1>4

\* Post and the abstract Write build the same messages.
LEMMA PostIsWrite ==
  ASSUME NEW S, NEW k, NEW t
  PROVE  Post(S, k, server, t) = Abstract!Write(S, k, "server", t)
BY DEF Post, Abstract!Write, server

\* Notices to the channels of C, all of them joined by u, are notices to rooms.
LEMMA AnnounceRooms ==
  ASSUME IInv, NEW u \in Users, NEW C \in SUBSET joined[u], NEW k
  PROVE  /\ {chan_name(c) : c \in C} \subseteq Abstract!RoomsOf(u)
         /\ UNION {Post(users[c], k, server, chan_name(c)) : c \in C}
              = Abstract!Announce({chan_name(c) : c \in C}, k)
<1> DEFINE R == {chan_name(c) : c \in C}
<1> USE DEF IInv
<1>1. ASSUME NEW c \in C
      PROVE  /\ c \in Chans /\ chan_name(c) \in Names
             /\ channels[chan_name(c)] = c /\ c # null
             /\ Abstract!Members(chan_name(c)) = users[c]
  <2>1. c \in Chans /\ chan_name(c) \in Names
    BY ChanNameType DEF TypeOK
  <2>2. channels[chan_name(c)] = c /\ c # null
    BY <2>1, NullAssumption DEF TypeOK, MembershipAgrees, NoDetachedChannel
  <2> QED
    BY <2>1, <2>2, RoomIsChannel
<1>2. R \subseteq Abstract!RoomsOf(u)
  <2> SUFFICES ASSUME NEW c \in C PROVE chan_name(c) \in Abstract!RoomsOf(u)
    OBVIOUS
  <2> QED
    BY <1>1, MemberIff DEF Abstract!RoomsOf
<1>3. ASSUME NEW c \in C
      PROVE  Post(users[c], k, server, chan_name(c))
               = Abstract!Write(Abstract!Members(chan_name(c)), k, "server", chan_name(c))
  BY <1>1, PostIsWrite
<1>4. UNION {Post(users[c], k, server, chan_name(c)) : c \in C}
        = UNION {Abstract!Write(Abstract!Members(r), k, "server", r) : r \in R}
  BY <1>3
<1> QED
  BY <1>2, <1>4 DEF Abstract!Announce

\* All channels of u, as rooms.
LEMMA RoomsOfJoined ==
  ASSUME IInv, NEW u \in Users
  PROVE  {chan_name(c) : c \in joined[u]} = Abstract!RoomsOf(u)
<1>1. {chan_name(c) : c \in joined[u]} \subseteq Abstract!RoomsOf(u)
  BY AnnounceRooms
<1>2. ASSUME NEW r \in Abstract!RoomsOf(u) PROVE r \in {chan_name(c) : c \in joined[u]}
  BY <1>2 DEF Abstract!RoomsOf, Member
<1> QED
  BY <1>1, <1>2

\* chat_channel::leave is the abstract departure from the rooms of that name.
LEMMA LeaveIsExeunt ==
  ASSUME IInv, NEW u \in Users, NEW C \in SUBSET joined[u], leave(u, C)
  PROVE  Abstract!Exeunt(u, {chan_name(c) : c \in C})
<1> DEFINE R == {chan_name(c) : c \in C}
<1> USE DEF IInv
<1>1. R \subseteq Abstract!RoomsOf(u) /\ sent' = Abstract!Announce(R, "left")
  BY AnnounceRooms DEF leave
<1>2. ASSUME NEW v \in Users, NEW n \in Names
      PROVE  <<v, n>> \in Member' <=> <<v, n>> \in Member /\ (v # u \/ n \notin R)
  <2>1. joined'[v] = IF v = u THEN joined[v] \ C ELSE joined[v]
    BY DEF leave, TypeOK
  <2>2. <<v, n>> \in Member' <=> \E c \in joined'[v] : chan_name(c) = n
    BY DEF Member
  <2>3. <<v, n>> \in Member <=> \E c \in joined[v] : chan_name(c) = n
    BY DEF Member
  <2>4. ASSUME NEW c \in joined[u], NEW d \in joined[u], chan_name(c) = chan_name(d)
        PROVE  c = d
    BY <2>4 DEF TypeOK, MembershipAgrees, NoDetachedChannel
  <2> QED
    BY <2>1, <2>2, <2>3, <2>4
<1>3. Member' = {m \in Member : m[1] # u \/ m[2] \notin R}
  <2>1. Member \subseteq Users \X Names /\ Member' \subseteq Users \X Names
    BY DEF Member
  <2> QED
    BY <1>2, <2>1
<1> QED
  BY <1>1, <1>3 DEF Abstract!Exeunt

\* Entering the channel c of the server's map, or one that enters it now.
LEMMA JoinIsEnter ==
  ASSUME IInv, NEW u \in Users, NEW n \in Names,
         JoinExisting(u, n) \/ JoinNew(u, n)
  PROVE  Abstract!Enter(u, n)
<1> USE DEF IInv
<1>1. PICK c \in Chans :
        /\ chan_name(c) = n
        /\ join(u, c, Abstract!Members(n))
        /\ n \in Abstract!Rooms \/ Abstract!Available(n)
  <2>1. CASE JoinExisting(u, n)
    <3>1. channels[n] \in Chans /\ chan_name(channels[n]) = n
      BY <2>1 DEF JoinExisting, TypeOK, NoEmptyChannel
    <3> QED
      BY <2>1, <3>1, RoomIsChannel DEF JoinExisting
  <2>2. CASE JoinNew(u, n)
    <3>1. PICK c \in Chans : chan_name(c) = n /\ join(u, c, {})
      BY <2>2 DEF JoinNew
    <3>2. valid_id(n) /\ channels[n] = null
      BY <2>2 DEF JoinNew, valid_id
    <3> QED
      BY <3>1, <3>2, RoomIsChannel
  <2> QED
    BY <2>1, <2>2
<1>2. u \in Present /\ Present' = Present
  BY DEF JoinExisting, JoinNew, ReadAgain, Listening, HasReadLoop, Present, TypeOK
<1>3. Member' = Member \cup {<<u, n>>}
  <2>1. ASSUME NEW v \in Users, NEW m \in Names
        PROVE  <<v, m>> \in Member' <=> <<v, m>> \in Member \/ (v = u /\ m = n)
    <3>1. joined'[v] = IF v = u THEN joined[v] \cup {c} ELSE joined[v]
      BY <1>1 DEF join, TypeOK
    <3>2. <<v, m>> \in Member' <=> \E d \in joined'[v] : chan_name(d) = m
      BY DEF Member
    <3>3. <<v, m>> \in Member <=> \E d \in joined[v] : chan_name(d) = m
      BY DEF Member
    <3> QED
      BY <1>1, <3>1, <3>2, <3>3
  <2>2. Member \subseteq Users \X Names /\ Member' \subseteq Users \X Names
    BY DEF Member
  <2> QED
    BY <2>1, <2>2
<1>4. sent' = Abstract!Write(Abstract!Members(n) \cup {u}, "joined", "server", n)
  BY <1>1, PostIsWrite DEF join
<1>5. UNCHANGED <<connections, name>>
  BY DEF JoinExisting, JoinNew
<1> QED
  BY <1>1, <1>2, <1>3, <1>4, <1>5 DEF Abstract!Enter

\* Where a text goes: the channel, the user of that name, or back.
LEMMA TextIsSay ==
  ASSUME IInv, NEW u \in Users, NEW t \in Names, Text(u, t)
  PROVE  Abstract!Say(u, t)
<1> USE DEF IInv
<1>1. u \in Present /\ Present' = Present
  BY DEF Text, ReadAgain, Listening, HasReadLoop, Present, TypeOK
<1>2. UNCHANGED <<connections, name, Member>>
  BY DEF Text, Member
<1>3. <<u, t>> \in Member <=> channels[t] # null /\ is_joined(u, channels[t])
  BY MemberIff DEF is_joined
<1>4. CASE <<u, t>> \in Member
  <2>1. sent' = Post(Abstract!Members(t), "text", name[u], t)
    BY <1>3, <1>4, RoomIsChannel DEF Text, Route
  <2>2. sent' = Abstract!Write(Abstract!Members(t), "text", name[u], t)
    BY <2>1 DEF Post, Abstract!Write
  <2> QED
    BY <1>1, <1>2, <1>4, <2>2 DEF Abstract!Say
<1>5. CASE <<u, t>> \notin Member /\ user_exists(t)
  <2>1. PICK v \in connections : name[v] = t /\ sent' = Post({v}, "text", name[u], t)
    BY <1>3, <1>5 DEF Text, Route, user_exists
  <2>2. sent' = Abstract!Write({v}, "text", name[u], t)
    BY <2>1 DEF Post, Abstract!Write
  <2> QED
    BY <1>1, <1>2, <1>5, <2>1, <2>2 DEF Abstract!Say
<1>6. CASE <<u, t>> \notin Member /\ ~user_exists(t)
  <2>1. sent' = Abstract!Write({u}, "error", "server", name[u])
    BY <1>3, <1>6, PostIsWrite DEF Text, Route
  <2>2. \A v \in connections : name[v] # t
    BY <1>6 DEF user_exists
  <2> QED
    BY <1>1, <1>2, <1>6, <2>1, <2>2 DEF Abstract!Say
<1> QED
  BY <1>4, <1>5, <1>6

\* The paths that take a user out of all its channels.
LEMMA LeaveAllSteps ==
  ASSUME IInv, NEW u \in Users,
         BadHeader(u) \/ ReadError(u) \/ WriteError(u) \/ PingTimeout(u)
  PROVE  Abstract!LeaveAll(u)
<1> USE DEF IInv
<1>1. Abstract!Exeunt(u, Abstract!RoomsOf(u))
  <2>1. leave(u, joined[u])
    BY DEF BadHeader, ReadError, WriteError, PingTimeout, manager_stop, leave_all_channels
  <2> QED
    BY <2>1, LeaveIsExeunt, RoomsOfJoined
<1>2. u \in Present
  BY DEF BadHeader, ReadError, WriteError, PingTimeout, Listening, HasReadLoop, Present
<1>3. CASE PingTimeout(u)
  <2>1. Present' = Present
    BY <1>3 DEF PingTimeout, HasReadLoop, Present, TypeOK
  <2> QED
    BY <1>1, <1>2, <1>3, <2>1 DEF PingTimeout, Abstract!LeaveAll
<1>4. CASE BadHeader(u) \/ WriteError(u)
  <2>1. Present' = Present
    BY <1>4 DEF BadHeader, WriteError, ReadAgain, HasReadLoop, Present, TypeOK
  <2> QED
    BY <1>1, <1>2, <1>4, <2>1 DEF BadHeader, WriteError, manager_stop, Abstract!LeaveAll
<1>5. CASE ReadError(u)
  <2>1. Present' = Present \ {u}
    BY <1>5 DEF ReadError, HasReadLoop, Present, TypeOK
  <2> QED
    BY <1>1, <1>2, <1>5, <2>1 DEF ReadError, manager_stop, Abstract!LeaveAll
<1> QED
  BY <1>3, <1>4, <1>5

\* Steps that concern one user only, and steps that write nothing.
LEMMA NoticeSteps ==
  ASSUME IInv, NEW u \in Users,
         \/ Accept(u) \/ NicknameReadError(u) \/ CommandError(u) \/ NoEffect(u) \/ Ping(u)
         \/ \E n \in Names : NicknameInvalid(u, n)
  PROVE  Abstract!Notice(u)
<1> USE DEF IInv
<1>1. UNCHANGED <<connections, name, Member>>
  BY DEF Accept, NicknameReadError, CommandError, NoEffect, Ping, NicknameInvalid, Member
<1>2. Present' = Present
  BY DEF Accept, NicknameReadError, CommandError, NoEffect, Ping, NicknameInvalid,
         ReadAgain, HasReadLoop, Present, TypeOK
<1>3. CASE Accept(u) \/ NicknameReadError(u) \/ NoEffect(u)
  BY <1>1, <1>2, <1>3 DEF Accept, NicknameReadError, NoEffect, Abstract!Notice
<1>4. CASE \E n \in Names : NicknameInvalid(u, n)
  <2>1. sent' = Abstract!Write({u}, "invalid", "server", blank)
    BY <1>4, PostIsWrite DEF NicknameInvalid
  <2> QED
    BY <1>1, <1>2, <2>1 DEF Abstract!Notice
<1>5. CASE CommandError(u) \/ Ping(u)
  <2>1. u \in Present
    BY <1>5 DEF CommandError, Ping, Listening, HasReadLoop, Present
  <2>2. \E k \in {"error", "ping"} : sent' = Abstract!Write({u}, k, "server", name[u])
    BY <1>5, PostIsWrite DEF CommandError, Ping
  <2> QED
    BY <1>1, <1>2, <2>1, <2>2 DEF Abstract!Notice
<1> QED
  BY <1>3, <1>4, <1>5

\* A nickname that valid_id accepts registers the user under it.
LEMMA NicknameIsRegister ==
  ASSUME IInv, NEW u \in Users, NEW n \in Names, NicknameValid(u, n)
  PROVE  Abstract!Register(u, n)
<1> USE DEF IInv
<1>1. u \notin Present /\ Present' = Present \cup {u}
  BY DEF NicknameValid, HasReadLoop, Present, TypeOK
<1>2. Abstract!Available(n)
  BY RoomIsChannel DEF NicknameValid
<1>3. Member' = Member
  BY DEF NicknameValid, Member
<1>4. sent' = Abstract!Write({u}, "valid", "server", n)
                \cup Abstract!Write({u}, "ping", "server", n)
  BY PostIsWrite DEF NicknameValid
<1> QED
  BY <1>1, <1>2, <1>3, <1>4 DEF NicknameValid, Abstract!Register

\* /nick renames, after telling the user's channels.
LEMMA NickIsRename ==
  ASSUME IInv, NEW u \in Users, NEW n \in Names, NickCommand(u, n)
  PROVE  Abstract!Rename(u, n)
<1> USE DEF IInv
<1>1. u \in Present /\ Present' = Present
  BY DEF NickCommand, ReadAgain, Listening, HasReadLoop, Present, TypeOK
<1>2. Abstract!Available(n)
  BY RoomIsChannel DEF NickCommand
<1>3. Member' = Member
  BY DEF NickCommand, Member
<1>4. sent' = Abstract!Announce(Abstract!RoomsOf(u), "renamed")
  BY AnnounceRooms, RoomsOfJoined DEF NickCommand
<1> QED
  BY <1>1, <1>2, <1>3, <1>4 DEF NickCommand, Abstract!Rename

\* /leave takes the user out of one room.
LEMMA LeaveIsLeave ==
  ASSUME IInv, NEW u \in Users, NEW n \in Names, LeaveCommand(u, n)
  PROVE  Abstract!Leave(u, n)
<1> USE DEF IInv
<1>1. u \in Present /\ Present' = Present
  BY DEF LeaveCommand, ReadAgain, Listening, HasReadLoop, Present, TypeOK
<1>2. {channels[n]} \in SUBSET joined[u] /\ chan_name(channels[n]) = n
  BY DEF LeaveCommand, is_joined, NoEmptyChannel
<1>3. {chan_name(c) : c \in {channels[n]}} = {n}
  BY <1>2
<1>4. Abstract!Exeunt(u, {n}) /\ n \in Abstract!RoomsOf(u)
  <2>1. Abstract!Exeunt(u, {n})
    BY <1>2, <1>3, LeaveIsExeunt DEF LeaveCommand
  <2> QED
    BY <2>1 DEF Abstract!Exeunt
<1> QED
  BY <1>1, <1>4 DEF LeaveCommand, Abstract!Leave

\* Every step of the server is a step of the rooms, or none.
LEMMA RefinementStep == IInv /\ [Next]_vars => [Abstract!RNext]_(Abstract!rvars)
<1> SUFFICES ASSUME IInv, [Next]_vars PROVE [Abstract!RNext]_(Abstract!rvars)
  OBVIOUS
<1>1. ASSUME NEW u \in Users, Accept(u) \/ Handler(u) PROVE Abstract!RNext
  <2>1. ASSUME NEW n \in Names, NicknameValid(u, n) PROVE Abstract!RNext
    BY <2>1, NicknameIsRegister DEF Abstract!RNext
  <2>2. ASSUME NEW n \in Names, JoinExisting(u, n) \/ JoinNew(u, n) PROVE Abstract!RNext
    BY <2>2, JoinIsEnter DEF Abstract!RNext
  <2>3. ASSUME NEW n \in Names, LeaveCommand(u, n) PROVE Abstract!RNext
    BY <2>3, LeaveIsLeave DEF Abstract!RNext
  <2>4. ASSUME NEW n \in Names, NickCommand(u, n) PROVE Abstract!RNext
    BY <2>4, NickIsRename DEF Abstract!RNext
  <2>5. ASSUME NEW n \in Names, Text(u, n) PROVE Abstract!RNext
    BY <2>5, TextIsSay DEF Abstract!RNext
  <2>6. CASE BadHeader(u) \/ ReadError(u) \/ WriteError(u) \/ PingTimeout(u)
    BY <2>6, LeaveAllSteps DEF Abstract!RNext
  <2>7. CASE \/ Accept(u) \/ NicknameReadError(u) \/ CommandError(u) \/ NoEffect(u) \/ Ping(u)
             \/ \E n \in Names : NicknameInvalid(u, n)
    BY <2>7, NoticeSteps DEF Abstract!RNext
  <2> QED
    BY <1>1, <2>1, <2>2, <2>3, <2>4, <2>5, <2>6, <2>7 DEF Handler
<1>2. CASE UNCHANGED vars
  BY <1>2 DEF vars, Abstract!rvars, Present, Member, HasReadLoop
<1> QED
  BY <1>1, <1>2 DEF Next

\* The server with its pointers, maps and failure paths does nothing that the
\* rooms specification does not allow.
THEOREM Refinement == Spec => ImplementsRooms
<1>1. Init => Abstract!RInit
  BY DEF Init, Abstract!RInit, Present, Member, HasReadLoop
<1> QED
  BY <1>1, RefinementStep, ServerInvariant, PTL DEF Spec, ImplementsRooms, Abstract!RSpec

-----------------------------------------------------------------------------
(***************************************************************************)
(* ServerStop.                                                             *)
(***************************************************************************)

\* The tables keep their shapes.  Of the invariant of ChatServer little more is
\* left once the two threads interfere: channels may be empty or detached.
Shapes ==
  /\ phase \in [Users -> Phases]
  /\ connections \subseteq Users
  /\ joined \in [Users -> SUBSET Chans]
  /\ channels \in [Names -> Chans \cup {null}]
  /\ users \in [Chans -> SUBSET Users]

\* What a user of W has in channels_ has the user.
Members(W) == \A u \in W : \A c \in joined[u] : u \in users[c]

\* Where the console thread is at no user.
AtRest == console \in {"prompt", "walk", "join", "done"}

\* The inductive invariant: until stop() is called it is that of ChatServer, and
\* of what it says of membership these parts outlive the call: for everybody while
\* the console thread is between two users, and for all but the one it is at.
SInv ==
  /\ Shapes
  /\ JoinedIsMember
  /\ AtRest => Members(Users)
  /\ console = "prompt" => IInv

-----------------------------------------------------------------------------
\* What leave does to the tables, whatever state they are in.
LEMMA LeaveAnywhere ==
  ASSUME Shapes, NEW W \in SUBSET Users, Members(W), NEW u \in Users, NEW C \in SUBSET Chans, leave(u, C)
  PROVE  /\ joined' \in [Users -> SUBSET Chans]
         /\ channels' \in [Names -> Chans \cup {null}]
         /\ users' \in [Chans -> SUBSET Users]
         /\ Members(W)'
<1>1. /\ joined' \in [Users -> SUBSET Chans]
      /\ channels' \in [Names -> Chans \cup {null}]
      /\ users' \in [Chans -> SUBSET Users]
  BY DEF Shapes, leave
<1>2. Members(W)'
  BY DEF Shapes, Members, leave
<1> QED
  BY <1>1, <1>2

\* What join does, for a channel found in the map or newly allocated.
LEMMA JoinAnywhere ==
  ASSUME Shapes, NEW W \in SUBSET Users, Members(W), NEW u \in Users, NEW c \in Chans,
         \/ join(u, c, users[c])
         \/ join(u, c, {}) /\ \A v \in Users : c \notin joined[v]
  PROVE  /\ joined' \in [Users -> SUBSET Chans]
         /\ users' \in [Chans -> SUBSET Users]
         /\ Members(W)'
<1>1. /\ joined' \in [Users -> SUBSET Chans]
      /\ users' \in [Chans -> SUBSET Users]
  BY DEF Shapes, join
<1>2. Members(W)'
  BY DEF Shapes, Members, join
<1> QED
  BY <1>1, <1>2

\* A handler of the io thread keeps the tables' shapes and membership, also
\* between two steps of the console thread.
LEMMA IoKeepsTables ==
  ASSUME Shapes, NEW W \in SUBSET Users, Members(W), NEW u \in Users, Accept(u) \/ Handler(u)
  PROVE  Shapes' /\ Members(W)'
<1> DEFINE Kept == UNCHANGED <<joined, channels, users>>
<1>0. joined[u] \in SUBSET Chans
  BY DEF Shapes
<1>1. CASE \/ Accept(u) \/ NicknameReadError(u) \/ CommandError(u) \/ NoEffect(u) \/ Ping(u)
           \/ \E n \in Names : \/ NicknameValid(u, n) \/ NicknameInvalid(u, n)
                               \/ NickCommand(u, n) \/ Text(u, n)
  <2>1. phase' \in [Users -> Phases] /\ connections' \subseteq Users
    BY <1>1 DEF Accept, NicknameReadError, CommandError, NoEffect, Ping, NicknameValid,
                NicknameInvalid, NickCommand, Text, ReadAgain, Shapes, Phases
  <2>2. Kept
    BY <1>1 DEF Accept, NicknameReadError, CommandError, NoEffect, Ping, NicknameValid,
                NicknameInvalid, NickCommand, Text
  <2> QED
    BY <2>1, <2>2 DEF Shapes, Members
<1>2. ASSUME NEW n \in Names, JoinExisting(u, n) PROVE Shapes' /\ Members(W)'
  <2>1. channels[n] \in Chans
    BY <1>2 DEF JoinExisting, Shapes
  <2>2. /\ join(u, channels[n], users[channels[n]]) /\ ReadAgain(u)
        /\ UNCHANGED <<connections, channels>>
    BY <1>2 DEF JoinExisting
  <2> QED
    BY <2>1, <2>2, JoinAnywhere DEF Shapes, ReadAgain, Phases
<1>3. ASSUME NEW n \in Names, JoinNew(u, n) PROVE Shapes' /\ Members(W)'
  <2>1. PICK c \in Chans : /\ channels' = [channels EXCEPT ![n] = c]
                           /\ join(u, c, {}) /\ Unallocated(c)
    BY <1>3 DEF JoinNew
  <2>2. ReadAgain(u) /\ UNCHANGED connections
    BY <1>3 DEF JoinNew
  <2> QED
    BY <2>1, <2>2, JoinAnywhere DEF Unallocated, Shapes, ReadAgain, Phases
<1>4. ASSUME NEW n \in Names, LeaveCommand(u, n) PROVE Shapes' /\ Members(W)'
  <2>1. {channels[n]} \in SUBSET Chans
    BY <1>4 DEF LeaveCommand, Shapes
  <2>2. leave(u, {channels[n]}) /\ ReadAgain(u) /\ UNCHANGED connections
    BY <1>4 DEF LeaveCommand
  <2> QED
    BY <2>1, <2>2, LeaveAnywhere DEF Shapes, ReadAgain, Phases
<1>5. CASE BadHeader(u) \/ ReadError(u) \/ WriteError(u) \/ PingTimeout(u)
  <2>1. leave(u, joined[u])
    BY <1>5 DEF BadHeader, ReadError, WriteError, PingTimeout, manager_stop, leave_all_channels
  <2>2. phase' \in [Users -> Phases] /\ connections' \subseteq Users
    BY <1>5 DEF BadHeader, ReadError, WriteError, PingTimeout, manager_stop, ReadAgain,
                Shapes, Phases
  <2> QED
    BY <1>0, <2>1, <2>2, LeaveAnywhere DEF Shapes
<1> QED
  BY <1>1, <1>2, <1>3, <1>4, <1>5 DEF Handler

\* Before stop() both threads' steps are those of ChatServer.
LEMMA IoKeepsServer ==
  ASSUME IInv, NEW u \in Users, Accept(u) \/ Handler(u)
  PROVE  IInv'
<1>1. [Next]_vars
  BY DEF Next
<1> QED
  BY <1>1, TypeStep, TablesStep, NamesStep, StrandedStep DEF IInv

-----------------------------------------------------------------------------
\* A server that was just started.
LEMMA InitSInv == SInit => SInv
<1> SUFFICES ASSUME SInit PROVE SInv
  OBVIOUS
<1>1. IInv
  BY InitIInv DEF SInit
<1>2. Shapes
  BY <1>1 DEF IInv, TypeOK, Shapes
<1>3. JoinedIsMember /\ Members(Users)
  BY DEF SInit, Init, JoinedIsMember, Members
<1> QED
  BY <1>1, <1>2, <1>3 DEF SInv

\* A step of the console thread takes the user it is at out of users_ and clears
\* what that user has in channels_ before it goes on; others it leaves alone.
LEMMA ConsoleStep ==
  ASSUME SInv, StopBegin \/ StopStep \/ Exit \/ Terminated
  PROVE  SInv'
<1> USE DEF SInv
<1>1. Members(Users \ {cur})
  BY DEF JoinedIsMember, Members
<1>2. ASSUME UNCHANGED <<phase, joined, channels, users>>, connections' \subseteq connections,
             console' # "prompt", UNCHANGED cur, AtRest' => AtRest
      PROVE  SInv'
  BY <1>2 DEF Shapes, JoinedIsMember, Members
<1>3. CASE StopBegin \/ LeaveTest \/ LeaveEnd \/ StopEnd \/ Exit \/ Terminated
           \/ (\E c \in Chans : LeaveNotice(c))
  BY <1>2, <1>3 DEF StopBegin, LeaveTest, LeaveEnd, StopEnd, Exit, Terminated, LeaveNotice,
                    AtRest, allvars, vars, svars
<1>4. ASSUME NEW u \in Users, StopUser(u) PROVE SInv'
  <2>1. Members(Users)
    BY <1>4 DEF StopUser, AtRest
  <2> QED
    BY <1>4, <2>1 DEF StopUser, AtRest, Shapes, JoinedIsMember, Members
<1>5. CASE EraseChannel
  <2>1. Shapes' /\ console' = "expel" /\ UNCHANGED cur
    BY <1>5 DEF EraseChannel, Shapes
  <2>2. JoinedIsMember'
    BY <1>1, <1>5, <2>1 DEF EraseChannel, Shapes, JoinedIsMember, Members
  <2> QED
    BY <2>1, <2>2 DEF AtRest
<1>6. CASE EraseUser
  <2>1. Shapes' /\ console' = "test" /\ UNCHANGED cur
    BY <1>6 DEF EraseUser, Shapes
  <2>2. JoinedIsMember'
    BY <1>1, <1>6, <2>1 DEF EraseUser, Shapes, JoinedIsMember, Members
  <2> QED
    BY <2>1, <2>2 DEF AtRest
<1>7. CASE LeaveRemove
  BY <1>1, <1>7 DEF LeaveRemove, AtRest, Shapes, JoinedIsMember, Members
<1>8. CASE ClearChannels
  <2>1. Shapes' /\ console' = "walk"
    BY <1>8 DEF ClearChannels, Shapes
  <2>2. Members(Users)'
    BY <1>1, <1>8 DEF ClearChannels, Shapes, Members
  <2> QED
    BY <2>1, <2>2 DEF JoinedIsMember, Members
<1> QED
  BY <1>3, <1>4, <1>5, <1>6, <1>7, <1>8 DEF StopStep

\* Every step of either thread keeps the invariant.
LEMMA SInvStep == SInv /\ [SNext]_allvars => SInv'
<1> SUFFICES ASSUME SInv, [SNext]_allvars PROVE SInv'
  OBVIOUS
<1>1. ASSUME NEW u \in Users, IoStep(u) PROVE SInv'
  <2>1. (Accept(u) \/ Handler(u)) /\ UNCHANGED <<console, cur>>
    BY <1>1 DEF IoStep, svars
  <2>2. Users \ {cur} \in SUBSET Users /\ Users \in SUBSET Users
    OBVIOUS
  <2>3. Members(Users \ {cur}) => Shapes' /\ Members(Users \ {cur})'
    BY <2>1, <2>2, IoKeepsTables DEF SInv
  <2>4. Members(Users) => Members(Users)'
    BY <2>1, <2>2, IoKeepsTables DEF SInv
  <2> QED
    BY <2>1, <2>3, <2>4, IoKeepsServer DEF SInv, AtRest, JoinedIsMember, Members
<1>2. CASE UNCHANGED allvars
  <2>1. UNCHANGED vars /\ UNCHANGED <<console, cur>>
    BY <1>2 DEF allvars, svars
  <2>2. IInv => IInv'
    BY <2>1, TypeStep, TablesStep, NamesStep, StrandedStep DEF IInv
  <2> QED
    BY <2>1, <2>2 DEF SInv, vars, Shapes, AtRest, JoinedIsMember, Members
<1> QED
  BY <1>1, <1>2, ConsoleStep DEF SNext

\* Whatever handlers run between the steps of stop_all(): what outlives the call
\* of stop(), and what holds until then.
THEOREM StopInvariant == SSpec => []SInv
BY InitSInv, SInvStep, PTL DEF SSpec

\* A channel in a user's channels_ has the user, unless the console thread is just
\* stopping that user: what a /join between its erasures leaves is cleared.
THEOREM JoinedIsMemberTheorem == SSpec => []JoinedIsMember
BY StopInvariant, PTL DEF SInv

\* Until the operator stops the server the tables are as consistent as in
\* ChatServer: the second thread does them no harm by being there.
THEOREM ConsistentUntilStop == SSpec => [](console = "prompt" => IInv)
BY StopInvariant, PTL DEF SInv

=============================================================================
