-------------------------- MODULE AddressingProofs --------------------------
(***************************************************************************)
(* Proofs about Addressing: for any clients, names and lines, and however  *)
(* often clients come, go and change their names.                          *)
(***************************************************************************)
EXTENDS Addressing, TLAPS

\* Shapes.
TablesType ==
  /\ client \in [Clients -> {"out", "in", "closed"}]
  /\ active_target \in [Clients -> Names \cup {none}]
  /\ name \in [Clients -> AllNames \cup {none}]
  /\ members \in [AllNames -> SUBSET Clients]
  /\ DOMAIN up = Clients /\ DOMAIN shown = Clients

\* Who has a connection is known to the server by a name.
Named == \A c \in Clients : client[c] # "out" => name[c] # none

\* Users and channels share one name space, in which no name is used twice.
OneNameSpace ==
  \A c \in Clients : name[c] # none =>
    /\ members[name[c]] = {}
    /\ \A d \in Clients : name[d] = name[c] => d = c

\* The target went through the constructor; a text is a whole line.
Addressed(m) ==
  /\ m.wanted \in Names /\ m.target = truncate(m.wanted, target_max_length)
  /\ IF m.type = "text" THEN m.content \in Lines /\ m.content <= content_max_length ELSE m.arg \in Names

MailAddressed == \A c \in Clients : up[c] # <<>> => client[c] # "out" /\ Addressed(up[c][1])

\* What is printed names its writer as the server knew it, cut to the limit.
Signed(m) ==
  /\ m.arg[1] \in Clients /\ m.arg[2] \in AllNames
  /\ m.source = truncate(m.arg[2], source_max_length)

PrintedSigned == \A c \in Clients : shown[c] # none => Signed(shown[c])

IInv == TablesType /\ Named /\ OneNameSpace /\ MailAddressed /\ PrintedSigned

-----------------------------------------------------------------------------
(***************************************************************************)
(* Names.                                                                  *)
(***************************************************************************)

\* A name has a length, also when it was cut.
LEMMA NamesHaveLengths == \A n \in AllNames : n.len \in Nat
<1>1. ASSUME NEW n \in Names PROVE n \in [stem : Stems, len : Nat]
  BY AddressingAssumption DEF Names, Name
<1>2. ASSUME NEW n \in Names, NEW k \in Nat PROVE truncate(n, k) \in [stem : Stems, len : Nat]
  BY <1>1 DEF truncate
<1>3. source_max_length - 1 \in Nat /\ source_max_length \in Nat
  BY DEF source_max_length
<1>4. ASSUME NEW n \in Names, NEW k \in {source_max_length - 1, source_max_length}
      PROVE  truncate(n, k) \in [stem : Stems, len : Nat]
  BY <1>2, <1>3
<1> QED
  BY <1>1, <1>4 DEF AllNames

\* A name within the limit is not cut.
LEMMA ShortNameKept ==
  ASSUME NEW n \in AllNames, n.len <= source_max_length
  PROVE  truncate(n, source_max_length) = n
<1>1. ~(n.len > source_max_length)
  BY NamesHaveLengths DEF source_max_length
<1> QED
  BY <1>1 DEF truncate

\* What is typed, and what it is cut to, are names.
LEMMA CutNames ==
  ASSUME NEW n \in Names
  PROVE  n \in AllNames /\ nick_buffer(n) \in AllNames /\ truncate(n, target_max_length) \in AllNames
BY DEF AllNames, nick_buffer, target_max_length

\* What the constructor makes of a line as long as main() lets through.
LEMMA Constructed ==
  ASSUME NEW source, NEW target \in Names, NEW content \in Nat, content <= content_max_length, NEW type, NEW arg,
         IF type = "text" THEN content \in Lines ELSE arg \in Names
  PROVE  Addressed(chat_message(source, target, content, type, arg, target))
<1>1. truncatedLen(content, content_max_length) = content
  BY DEF truncatedLen, content_max_length
<1> QED
  BY <1>1 DEF chat_message, Addressed

\* What the server sends on.
LEMMA SentOn ==
  ASSUME IInv, NEW c \in Clients, up[c] # <<>>, up[c][1].type = "text"
  PROVE  LET f == Forwarded(c, up[c][1]) IN
         /\ f.arg = <<c, name[c]>> /\ f.wanted = up[c][1].wanted /\ f.content = up[c][1].content
         /\ f.source = truncate(name[c], source_max_length) /\ name[c] \in AllNames
<1> DEFINE m == up[c][1]
<1>1. Addressed(m) /\ client[c] # "out" /\ name[c] \in AllNames
  BY DEF IInv, MailAddressed, Named, TablesType
<1>2. m.content \in Lines /\ m.content <= content_max_length /\ m.content \in Nat
  BY <1>1, AddressingAssumption DEF Addressed
<1> HIDE DEF m
<1>3. truncatedLen(m.content, content_max_length) = m.content
  BY <1>2 DEF truncatedLen, content_max_length
<1>4. LET f == Forwarded(c, m) IN
      /\ f.arg = <<c, name[c]>> /\ f.wanted = m.wanted /\ f.content = m.content
      /\ f.source = truncate(name[c], source_max_length)
  BY <1>3 DEF Forwarded, chat_message
<1> QED
  BY <1>1, <1>4 DEF m

-----------------------------------------------------------------------------
(***************************************************************************)
(* The invariant.                                                          *)
(***************************************************************************)

\* Nobody is connected.
LEMMA InitIInv == Init => IInv
<1> SUFFICES ASSUME Init PROVE IInv
  OBVIOUS
<1>1. TablesType
  BY DEF Init, TablesType
<1>2. \A c \in Clients : client[c] = "out" /\ name[c] = none /\ up[c] = <<>> /\ shown[c] = none
  BY DEF Init
<1> QED
  BY <1>1, <1>2 DEF IInv, Named, OneNameSpace, MailAddressed, PrintedSigned

\* A client gets a name that is free.
LEMMA ConnectStep ==
  ASSUME IInv, NEW c \in Clients, NEW n \in Names, Connect(c, n)
  PROVE  IInv'
<1> USE DEF IInv
<1>1. PICK b \in AllNames : b = nick_buffer(n)
  BY CutNames
<1>2. /\ name' = [name EXCEPT ![c] = b] /\ members[b] = {} /\ client' = [client EXCEPT ![c] = "in"]
      /\ \A d \in Clients : name[d] # b
  BY <1>1 DEF Connect, valid_id, UsersNamed
<1>3. UNCHANGED <<active_target, up, members, shown>>
  BY DEF Connect
<1>4. b # none
  BY AddressingAssumption
<1>5. TablesType'
  BY <1>2, <1>3 DEF TablesType
<1>6. Named'
  BY <1>2, <1>4 DEF Named, TablesType
<1>7. OneNameSpace'
  BY <1>2, <1>3 DEF OneNameSpace, TablesType
<1>8. MailAddressed'
  BY <1>2, <1>3 DEF MailAddressed, TablesType, Addressed
<1>9. PrintedSigned'
  BY <1>3 DEF PrintedSigned, Signed
<1> QED
  BY <1>5, <1>6, <1>7, <1>8, <1>9

\* Lines that are typed: a target, a message, or the end.
LEMMA LineStep ==
  ASSUME IInv, NEW c \in Clients,
         \/ \E n \in Names : Target(c, n) \/ \E type \in {"join", "leave", "nick"} : Write(c, n.len, type, n)
         \/ \E l \in Lines : Write(c, l, "text", none) \/ Quit(c, l)
  PROVE  IInv'
<1> USE DEF IInv
<1>1. UNCHANGED <<name, members, shown>> /\ client[c] = "in"
  BY DEF Target, Write, Quit, Line
<1>2. TablesType' /\ Named'
  BY <1>1 DEF TablesType, Named, Target, Write, Quit
<1>3. OneNameSpace' /\ PrintedSigned'
  BY <1>1 DEF OneNameSpace, PrintedSigned, Signed
<1>4. MailAddressed'
  <2>1. CASE \E n \in Names : Target(c, n)
    BY <2>1 DEF Target, MailAddressed, Addressed
  <2>2. CASE \E l \in Lines : Quit(c, l)
    <3>1. client' = [client EXCEPT ![c] = "closed"] /\ (up' = up \/ up' = [up EXCEPT ![c] = <<>>])
      BY <2>2 DEF Quit
    <3> QED
      BY <1>1, <3>1 DEF MailAddressed, Addressed, TablesType
  <2>3. ASSUME NEW l \in Nat, NEW type, NEW arg, Write(c, l, type, arg), IF type = "text" THEN l \in Lines ELSE arg \in Names
        PROVE  MailAddressed'
    <3>1. active_target[c] \in Names /\ l <= content_max_length /\ UNCHANGED client
      BY <2>3 DEF Write, TablesType
    <3>2. PICK m : m = chat_message(nick[c], active_target[c], l, type, arg, active_target[c])
      OBVIOUS
    <3>3. Addressed(m)
      BY <2>3, <3>1, <3>2, Constructed
    <3>4. up' = [up EXCEPT ![c] = <<m>>]
      BY <2>3, <3>2 DEF Write
    <3> QED
      BY <1>1, <3>1, <3>3, <3>4 DEF MailAddressed, TablesType, Addressed
  <2>4. CASE \E l \in Lines : Write(c, l, "text", none)
    BY <2>3, <2>4, AddressingAssumption
  <2>5. CASE \E n \in Names, type \in {"join", "leave", "nick"} : Write(c, n.len, type, n)
    <3>1. \A n \in Names : n.len \in Nat
      BY NamesHaveLengths, CutNames
    <3> QED
      BY <2>3, <2>5, <3>1
  <2> QED
    BY <2>1, <2>2, <2>4, <2>5
<1> QED
  BY <1>2, <1>3, <1>4

\* A text is printed by its receivers, with the name of its writer.
LEMMA TextStep ==
  ASSUME IInv, NEW c \in Clients, Text(c)
  PROVE  IInv'
<1> USE DEF IInv
<1>1. UNCHANGED <<client, active_target, name, members>> /\ up[c] # <<>> /\ up' = [up EXCEPT ![c] = <<>>]
  BY DEF Text, Received
<1>2. TablesType'
  BY <1>1 DEF TablesType, Text
<1>3. Named' /\ OneNameSpace'
  BY <1>1 DEF Named, OneNameSpace
<1>4. MailAddressed'
  BY <1>1 DEF MailAddressed, Addressed, TablesType
<1>5. PrintedSigned'
  <2>1. PICK f : f = Forwarded(c, up[c][1])
    OBVIOUS
  <2>2. f.arg = <<c, name[c]>> /\ f.source = truncate(name[c], source_max_length) /\ name[c] \in AllNames
    BY <1>1, <2>1, SentOn DEF Text
  <2>3. Signed(f)
    BY <2>2 DEF Signed
  <2>4. \A d \in Clients : shown'[d] = f \/ shown'[d] = shown[d]
    BY <2>1 DEF Text
  <2> QED
    BY <2>3, <2>4 DEF PrintedSigned, Signed
<1> QED
  BY <1>2, <1>3, <1>4, <1>5

\* Commands: a name that is taken is given to nobody else.
LEMMA CommandStep ==
  ASSUME IInv, NEW c \in Clients, Join(c) \/ Leave(c) \/ Nick(c)
  PROVE  IInv'
<1> USE DEF IInv
<1>1. UNCHANGED <<client, active_target, shown>> /\ up[c] # <<>> /\ up' = [up EXCEPT ![c] = <<>>]
  BY DEF Join, Leave, Nick, Received
<1>2. PICK n \in AllNames : n = up[c][1].arg
  BY <1>1, CutNames DEF MailAddressed, Addressed, Join, Leave, Nick
<1>3. MailAddressed'
  BY <1>1 DEF MailAddressed, Addressed, TablesType
<1>4. PrintedSigned'
  BY <1>1 DEF PrintedSigned, Signed
<1>5. n # none /\ client[c] # "out"
  BY <1>1, <1>2, AddressingAssumption DEF MailAddressed
<1>6. CASE Join(c)
  <2>1. /\ name' = name
        /\ \/ members' = [members EXCEPT ![n] = @ \cup {c}] /\ \A d \in Clients : name[d] # n
           \/ members' = members
    <3>1. members[n] # {} => \A d \in Clients : name[d] # n
      BY <1>5 DEF OneNameSpace
    <3> QED
      BY <1>2, <1>6, <3>1 DEF Join, valid_id, UsersNamed
  <2>2. TablesType' /\ Named'
    BY <1>1, <2>1 DEF TablesType, Named
  <2>3. OneNameSpace'
    BY <2>1 DEF OneNameSpace, TablesType
  <2> QED
    BY <1>3, <1>4, <2>2, <2>3
<1>7. CASE Leave(c)
  <2>1. name' = name /\ members' = [members EXCEPT ![n] = @ \ {c}]
    BY <1>2, <1>7 DEF Leave
  <2>2. TablesType' /\ Named'
    BY <1>1, <2>1 DEF TablesType, Named
  <2>3. OneNameSpace'
    BY <2>1 DEF OneNameSpace, TablesType
  <2> QED
    BY <1>3, <1>4, <2>2, <2>3
<1>8. CASE Nick(c)
  <2>1. /\ members' = members
        /\ \/ name' = [name EXCEPT ![c] = n] /\ members[n] = {} /\ \A d \in Clients : name[d] # n
           \/ name' = name
    BY <1>2, <1>8 DEF Nick, valid_id, UsersNamed
  <2>2. TablesType' /\ Named'
    BY <1>1, <1>5, <2>1 DEF TablesType, Named
  <2>3. OneNameSpace'
    BY <2>1 DEF OneNameSpace, TablesType
  <2> QED
    BY <1>3, <1>4, <2>2, <2>3
<1> QED
  BY <1>6, <1>7, <1>8

\* Who is stopped has no name and is in no channel.
LEMMA StopStep ==
  ASSUME IInv, NEW c \in Clients, Stop(c)
  PROVE  IInv'
<1> USE DEF IInv
<1>1. /\ up' = up /\ up[c] = <<>> /\ client' = [client EXCEPT ![c] = "out"] /\ name' = [name EXCEPT ![c] = none]
      /\ active_target' = [active_target EXCEPT ![c] = none] /\ shown' = [shown EXCEPT ![c] = none]
      /\ members' = [n \in AllNames |-> members[n] \ {c}]
  BY DEF Stop
<1>2. TablesType'
  BY <1>1 DEF TablesType
<1>3. Named' /\ OneNameSpace'
  BY <1>1 DEF TablesType, Named, OneNameSpace
<1>4. MailAddressed'
  BY <1>1 DEF TablesType, MailAddressed, Addressed
<1>5. PrintedSigned'
  BY <1>1 DEF TablesType, PrintedSigned, Signed
<1> QED
  BY <1>2, <1>3, <1>4, <1>5

\* Every step keeps the invariant.
LEMMA IInvStep == IInv /\ [Next]_vars => IInv'
<1> SUFFICES ASSUME IInv, [Next]_vars PROVE IInv'
  OBVIOUS
<1>1. CASE UNCHANGED vars
  BY <1>1 DEF vars, IInv, TablesType, Named, OneNameSpace, MailAddressed, Addressed, PrintedSigned, Signed
<1>2. CASE Next
  <2>1. PICK c \in Clients :
          \/ \E n \in Names :
               \/ Connect(c, n) \/ Target(c, n)
               \/ \E type \in {"join", "leave", "nick"} : Write(c, n.len, type, n)
          \/ \E l \in Lines : Write(c, l, "text", none) \/ Quit(c, l)
          \/ Text(c) \/ Join(c) \/ Leave(c) \/ Nick(c) \/ Stop(c)
    BY <1>2 DEF Next
  <2> QED
    BY <2>1, ConnectStep, LineStep, TextStep, CommandStep, StopStep
<1> QED
  BY <1>1, <1>2

\* The tables, the messages on their way and what is printed agree about names.
THEOREM AddressingInvariant == Spec => []IInv
<1> QED
  BY InitIInv, IInvStep, PTL DEF Spec

(***************************************************************************)
(* An answer to the name that was printed reaches the writer and nobody    *)
(* else, as long as the writer keeps that name and it was not cut: for any *)
(* number of clients, and however names change hands.                      *)
(***************************************************************************)
THEOREM ReplyReachesWriterTheorem == Spec => []ReplyReachesWriter
<1>1. IInv => ReplyReachesWriter
  <2> SUFFICES ASSUME IInv, NEW c \in Clients, shown[c] # none, name[shown[c].arg[1]] = shown[c].arg[2],
                      shown[c].arg[2].len <= source_max_length
               PROVE  Receivers(c, shown[c].source) = {shown[c].arg[1]}
    BY DEF ReplyReachesWriter
  <2>1. PICK w \in Clients, n \in AllNames : w = shown[c].arg[1] /\ n = shown[c].arg[2]
    BY DEF IInv, PrintedSigned, Signed
  <2>2. name[w] = n /\ n.len <= source_max_length /\ n # none
    BY <2>1, AddressingAssumption
  <2>3. shown[c].source = n
    BY <2>1, <2>2, ShortNameKept DEF IInv, PrintedSigned, Signed
  <2>4. members[n] = {} /\ UsersNamed(n) = {w}
    BY <2>2 DEF IInv, OneNameSpace, UsersNamed
  <2> QED
    BY <2>1, <2>3, <2>4 DEF Receivers
<1> QED
  BY AddressingInvariant, <1>1, PTL

(***************************************************************************)
(* Only those a text was meant for print it, as far as the target as typed *)
(* was not cut; and they print the line that was typed.                    *)
(***************************************************************************)
THEOREM OnlyTheTargetReadsTheorem == Spec => OnlyTheTargetReads
<1> DEFINE Meant ==
      \A c \in Clients : shown'[c] # shown[c] /\ shown'[c] # none =>
        LET n == shown'[c].wanted IN
        /\ n.len <= target_max_length => name[c] = n \/ {c, shown'[c].arg[1]} \subseteq members[n]
        /\ shown'[c].content \in Lines
<1>1. IInv /\ [Next]_vars => [Meant]_vars
  <2> SUFFICES ASSUME IInv, Next, NEW d \in Clients, shown'[d] # shown[d], shown'[d] # none
               PROVE  LET n == shown'[d].wanted IN
                      /\ n.len <= target_max_length => name[d] = n \/ {d, shown'[d].arg[1]} \subseteq members[n]
                      /\ shown'[d].content \in Lines
    OBVIOUS
  <2>1. PICK c \in Clients : Text(c)
    <3>1. PICK c \in Clients :
          \/ \E n \in Names :
               \/ Connect(c, n) \/ Target(c, n)
               \/ \E type \in {"join", "leave", "nick"} : Write(c, n.len, type, n)
          \/ \E l \in Lines : Write(c, l, "text", none) \/ Quit(c, l)
          \/ Text(c) \/ Join(c) \/ Leave(c) \/ Nick(c) \/ Stop(c)
      BY DEF Next
    <3>2. ~Stop(c)
      BY DEF Stop, IInv, TablesType
    <3>3. shown' # shown
      OBVIOUS
    <3> QED
      BY <3>1, <3>2, <3>3 DEF Connect, Target, Write, Quit, Join, Leave, Nick
  <2>2. PICK f : f = Forwarded(c, up[c][1])
    OBVIOUS
  <2>3. up[c] # <<>> /\ up[c][1].type = "text" /\ shown'[d] = f /\ d \in Receivers(c, up[c][1].target)
    BY <2>1, <2>2 DEF Text, Received
  <2>4. f.arg[1] = c /\ f.wanted = up[c][1].wanted /\ f.content = up[c][1].content
    <3>1. f.arg = <<c, name[c]>> /\ f.wanted = up[c][1].wanted /\ f.content = up[c][1].content
      BY <2>2, <2>3, SentOn
    <3> QED
      BY <3>1
  <2>5. Addressed(up[c][1])
    BY <2>3 DEF IInv, MailAddressed
  <2>6. f.content \in Lines
    BY <2>3, <2>4, <2>5 DEF Addressed
  <2>7. ASSUME f.wanted.len <= target_max_length
        PROVE  name[d] = f.wanted \/ {d, c} \subseteq members[f.wanted]
    <3>1. f.wanted \in AllNames
      BY <2>4, <2>5, CutNames DEF Addressed
    <3>2. up[c][1].target = f.wanted
      BY <2>4, <2>5, <2>7, <3>1, ShortNameKept DEF Addressed, target_max_length
    <3> QED
      BY <2>3, <3>2 DEF Receivers, UsersNamed
  <2> QED
    BY <2>3, <2>4, <2>6, <2>7
<1> QED
  BY AddressingInvariant, <1>1, PTL DEF Spec, OnlyTheTargetReads

=============================================================================
