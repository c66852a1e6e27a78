-------------------------- MODULE HandshakeProofs ---------------------------
(***************************************************************************)
(* Proofs about Handshake, for any sets of clients and of nicknames.       *)
(***************************************************************************)
EXTENDS Handshake, TLAPS

Halves == Picks \cup {blank}

Shapes ==
  /\ client \in [Clients -> {"picking", "waiting", "in", "gone"}]
  /\ pick \in [Clients -> Halves]
  /\ arrived \in [Clients -> 0..2]
  /\ conn \in [Clients -> {"none", "backlog", "reading", "read", "user", "stopped"}]
  /\ got \in [Clients -> 0..2]
  /\ nick_buffer \in [1..2 -> Halves]
  /\ name \in [Clients -> [1..2 -> Halves]]
  /\ answer \in [Clients -> {"none", "valid", "invalid", "closed"}]
  /\ mixed \in [Clients -> BOOLEAN]

\* got counts what the read of an open nickname has taken, and is reset after it.
GotInStep ==
  \A c \in Clients :
    /\ conn[c] \in {"none", "backlog", "user", "stopped"} => got[c] = 0
    /\ conn[c] = "reading" => got[c] <= arrived[c]
    /\ conn[c] = "read" => got[c] = 2

\* While c's nickname is read the halves that came are its own, unless it was disturbed.
BufferOwn ==
  \A c \in Clients : conn[c] \in {"reading", "read"} /\ ~mixed[c] =>
    \A k \in 1..2 : k <= got[c] => nick_buffer[k] = pick[c]

\* Who is registered has a name of its own, who is not has none.
NamesOwn ==
  \A c \in Clients :
    /\ conn[c] # "user" => name[c] = noname
    /\ conn[c] = "user" => {name[c][1], name[c][2]} \subseteq WellFormed
                           /\ \A d \in Clients \ {c} : name[d] # name[c]

\* An answer is on its way only to a client that waits for it; "valid" only from a
\* connection that was made a user.
AnswersAwaited ==
  \A c \in Clients :
    /\ answer[c] # "none" => client[c] = "waiting"
    /\ client[c] = "in" \/ answer[c] = "valid" => conn[c] \in {"user", "stopped"}

IInv == Shapes /\ GotInStep /\ BufferOwn /\ NamesOwn /\ AnswersAwaited /\ OwnNameUndisturbed

-----------------------------------------------------------------------------
\* No name at all is a pair of halves, and none that valid_id accepts.
LEMMA NoName ==
  /\ noname \in [1..2 -> Halves]
  /\ noname[1] = blank /\ noname[2] = blank
  /\ blank \notin WellFormed
BY NicksAssumption DEF noname, Halves

\* Two names with the same halves are the same.
LEMMA NameByHalves ==
  ASSUME NEW S, NEW f \in [1..2 -> S], NEW a \in S, f[1] = a, f[2] = a
  PROVE  f = <<a, a>>
<1>1. \A k \in 1..2 : f[k] = <<a, a>>[k]
  OBVIOUS
<1>2. DOMAIN f = 1..2 /\ DOMAIN <<a, a>> = 1..2
  OBVIOUS
<1> QED
  BY <1>1, <1>2

\* Reading takes halves of the client's own pick and leaves the others alone.
LEMMA ReadType ==
  ASSUME Shapes, NEW c \in Clients
  PROVE  /\ Read(c, nick_buffer) \in [1..2 -> Halves]
         /\ \A k \in 1..2 : Read(c, nick_buffer)[k] =
              IF got[c] < k /\ k <= arrived[c] THEN pick[c] ELSE nick_buffer[k]
BY DEF Read, Shapes

\* Who is not marked as disturbed by c's read was not before, and is c, or has no
\* nickname read under way, or c read nothing.
LEMMA DisturbedType ==
  ASSUME Shapes, NEW c \in Clients
  PROVE  /\ Disturbed(c) \in [Clients -> BOOLEAN]
         /\ \A d \in Clients : ~Disturbed(c)[d] =>
              ~mixed[d] /\ (d = c \/ conn[d] \notin {"reading", "read"} \/ ~(arrived[c] > got[c]))
BY DEF Disturbed, Shapes

\* The nickname handler: a name that valid_id accepts is nobody else's, and the
\* answer goes to a client that waits.
LEMMA NicknameStep ==
  ASSUME IInv, NEW c \in Clients, NEW nm \in [1..2 -> Halves],
         conn[c] \in {"reading", "read"}, Nickname(c, nm), UNCHANGED client
  PROVE  /\ name' \in [Clients -> [1..2 -> Halves]]
         /\ conn' = [conn EXCEPT ![c] = conn'[c]] /\ conn'[c] \in {"none", "user"}
         /\ conn'[c] = "user" => name' = [name EXCEPT ![c] = nm]
         /\ conn'[c] = "none" => name' = name
         /\ answer' \in [Clients -> {"none", "valid", "invalid", "closed"}]
         /\ NamesOwn' /\ AnswersAwaited'
<1> USE DEF IInv
<1>1. CASE valid_id(nm)
  <2>1. /\ name' = [name EXCEPT ![c] = nm]
        /\ conn' = [conn EXCEPT ![c] = "user"]
        /\ answer' = [answer EXCEPT ![c] = IF client[c] = "waiting" THEN "valid" ELSE @]
    BY <1>1 DEF Nickname, Reply
  <2>2. {nm[1], nm[2]} \subseteq WellFormed /\ \A d \in Clients : name[d] # nm
    BY <1>1 DEF valid_id
  <2>3. NamesOwn'
    <3>1. nm # noname
      BY <2>2, NoName
    <3> QED
      BY <2>1, <2>2, <3>1 DEF NamesOwn, Shapes
  <2>4. AnswersAwaited'
    BY <2>1 DEF AnswersAwaited, Shapes
  <2> QED
    BY <2>1, <2>3, <2>4 DEF Shapes
<1>2. CASE ~valid_id(nm)
  <2>1. /\ name' = name
        /\ conn' = [conn EXCEPT ![c] = "none"]
        /\ answer' = [answer EXCEPT ![c] = IF client[c] = "waiting" THEN "invalid" ELSE @]
    BY <1>2 DEF Nickname, Reply
  <2>2. NamesOwn'
    BY <2>1 DEF NamesOwn, Shapes
  <2>3. AnswersAwaited'
    BY <2>1 DEF AnswersAwaited, Shapes
  <2> QED
    BY <2>1, <2>2, <2>3 DEF Shapes
<1> QED
  BY <1>1, <1>2

-----------------------------------------------------------------------------
\* Nobody has connected yet.
LEMMA InitIInv == Init => IInv
<1> SUFFICES ASSUME Init PROVE IInv
  OBVIOUS
<1>1. Shapes
  BY NoName DEF Init, Shapes, Halves
<1>2. GotInStep /\ BufferOwn /\ NamesOwn /\ AnswersAwaited /\ OwnNameUndisturbed
  BY DEF Init, GotInStep, BufferOwn, NamesOwn, AnswersAwaited, OwnNameUndisturbed
<1> QED
  BY <1>1, <1>2 DEF IInv

\* What the clients do, and the network: names and buffer are the server's.
LEMMA ClientStep ==
  ASSUME IInv, NEW c \in Clients,
         \/ \E n \in Picks : Connect(c, n)
         \/ Arrive(c) \/ Answer(c) \/ Quit(c) \/ Restart(c)
  PROVE  IInv'
<1> USE DEF IInv
<1>1. ASSUME NEW n \in Picks, Connect(c, n) PROVE IInv'
  <2>1. Shapes'
    BY <1>1 DEF Connect, Shapes, Halves
  <2>2. GotInStep' /\ BufferOwn'
    BY <1>1 DEF Connect, Shapes, GotInStep, BufferOwn
  <2>3. NamesOwn' /\ AnswersAwaited'
    BY <1>1 DEF Connect, Shapes, NamesOwn, AnswersAwaited
  <2>4. OwnNameUndisturbed'
    BY <1>1 DEF Connect, Shapes, OwnNameUndisturbed
  <2> QED
    BY <2>1, <2>2, <2>3, <2>4
<1>2. CASE Arrive(c)
  <2>1. Shapes' /\ GotInStep'
    BY <1>2 DEF Arrive, Shapes, GotInStep
  <2>2. BufferOwn' /\ NamesOwn' /\ AnswersAwaited' /\ OwnNameUndisturbed'
    BY <1>2 DEF Arrive, BufferOwn, NamesOwn, AnswersAwaited, OwnNameUndisturbed
  <2> QED
    BY <2>1, <2>2
<1>3. CASE Answer(c) \/ Quit(c) \/ Restart(c)
  <2>1. Shapes'
    BY <1>3 DEF Answer, Quit, Restart, Shapes
  <2>2. AnswersAwaited'
    <3>1. CASE Answer(c)
      BY <3>1 DEF Answer, Shapes, AnswersAwaited
    <3>2. CASE Quit(c)
      BY <3>2 DEF Quit, Shapes, AnswersAwaited
    <3>3. CASE Restart(c)
      BY <3>3 DEF Restart, Shapes, AnswersAwaited
    <3> QED
      BY <1>3, <3>1, <3>2, <3>3
  <2>3. GotInStep' /\ BufferOwn' /\ NamesOwn' /\ OwnNameUndisturbed'
    BY <1>3 DEF Answer, Quit, Restart, GotInStep, BufferOwn, NamesOwn, OwnNameUndisturbed
  <2> QED
    BY <2>1, <2>2, <2>3
<1> QED
  BY <1>1, <1>2, <1>3

\* The accept handler takes what is there of a nickname.
LEMMA AcceptStep ==
  ASSUME IInv, NEW c \in Clients, Accept(c)
  PROVE  IInv'
<1> USE DEF IInv
<1>1. Shapes'
  BY ReadType, DisturbedType DEF Accept, Shapes
<1>2. got[c] = 0
  BY DEF Accept, GotInStep
<1>3. GotInStep'
  BY DEF Accept, Shapes, GotInStep
<1>4. BufferOwn'
  <2> SUFFICES ASSUME NEW d \in Clients, conn'[d] \in {"reading", "read"}, ~mixed'[d],
                      NEW k \in 1..2, k <= got'[d]
               PROVE  nick_buffer'[k] = pick'[d]
    BY DEF BufferOwn
  <2>1. CASE d = c
    BY <1>2, <2>1, ReadType DEF Accept, Shapes
  <2>2. CASE d # c
    <3>1. /\ ~Disturbed(c)[d] /\ conn[d] \in {"reading", "read"} /\ k <= got[d]
      BY <2>2, DisturbedType DEF Accept, Shapes
    <3>2. ~mixed[d] /\ ~(arrived[c] > got[c])
      BY <2>2, <3>1, DisturbedType
    <3>3. nick_buffer'[k] = nick_buffer[k]
      <4>1. nick_buffer' = Read(c, nick_buffer)
        BY DEF Accept
      <4>2. arrived[c] \in 0..2 /\ got[c] \in 0..2
        BY DEF Shapes
      <4>3. ~(got[c] < k /\ k <= arrived[c])
        BY <3>2, <4>2
      <4> QED
        BY <4>1, <4>3, ReadType
    <3> QED
      BY <3>1, <3>2, <3>3 DEF Accept, BufferOwn
  <2> QED
    BY <2>1, <2>2
<1>5. NamesOwn' /\ AnswersAwaited'
  BY DEF Accept, Shapes, NamesOwn, AnswersAwaited
<1>6. OwnNameUndisturbed'
  BY DisturbedType DEF Accept, Shapes, OwnNameUndisturbed
<1> QED
  BY <1>1, <1>3, <1>4, <1>5, <1>6

\* A later part of a nickname, or the rest of it.
LEMMA ReadSomeStep ==
  ASSUME IInv, NEW c \in Clients, ReadSome(c)
  PROVE  IInv'
<1> USE DEF IInv
<1>0. /\ conn[c] = "reading" /\ got[c] < arrived[c]
      /\ nick_buffer' = Read(c, nick_buffer) /\ mixed' = Disturbed(c)
      /\ UNCHANGED <<client, pick, arrived, accepting>>
  BY DEF ReadSome
<1>1. nick_buffer' \in [1..2 -> Halves] /\ mixed' \in [Clients -> BOOLEAN]
  BY <1>0, ReadType, DisturbedType
\* Who reads on undisturbed is c, whose halves the buffer holds up to arrived[c].
<1>2. \A d \in Clients : conn[d] \in {"reading", "read"} /\ ~mixed'[d] =>
        d = c /\ \A k \in 1..2 : k <= arrived[c] => nick_buffer'[k] = pick[c]
  <2> SUFFICES ASSUME NEW d \in Clients, conn[d] \in {"reading", "read"}, ~mixed'[d]
               PROVE  d = c /\ \A k \in 1..2 : k <= arrived[c] => nick_buffer'[k] = pick[c]
    OBVIOUS
  <2>1. d = c /\ ~mixed[c]
    BY <1>0, DisturbedType
  <2>2. ASSUME NEW k \in 1..2, k <= arrived[c] PROVE nick_buffer'[k] = pick[c]
    <3>1. k <= got[c] => nick_buffer[k] = pick[c]
      BY <1>0, <2>1 DEF BufferOwn
    <3>2. Read(c, nick_buffer)[k] = IF got[c] < k /\ k <= arrived[c] THEN pick[c] ELSE nick_buffer[k]
      BY ReadType
    <3>3. got[c] \in Nat
      BY DEF Shapes
    <3> QED
      BY <1>0, <2>2, <3>1, <3>2, <3>3
  <2> QED
    BY <2>1, <2>2
<1>3. \A d \in Clients : mixed[d] => mixed'[d]
  BY <1>0 DEF Disturbed
<1>4. CASE arrived[c] = 2
  <2>1. got' = [got EXCEPT ![c] = 0] /\ Nickname(c, nick_buffer')
    BY <1>4 DEF ReadSome
  <2>2. /\ name' \in [Clients -> [1..2 -> Halves]]
        /\ conn' = [conn EXCEPT ![c] = conn'[c]] /\ conn'[c] \in {"none", "user"}
        /\ conn'[c] = "user" => name' = [name EXCEPT ![c] = nick_buffer']
        /\ conn'[c] = "none" => name' = name
        /\ answer' \in [Clients -> {"none", "valid", "invalid", "closed"}]
        /\ NamesOwn' /\ AnswersAwaited'
    BY <1>0, <1>1, <2>1, NicknameStep
  <2>3. Shapes'
    BY <1>0, <1>1, <2>1, <2>2 DEF Shapes
  <2>4. GotInStep'
    BY <1>0, <2>1, <2>2 DEF Shapes, GotInStep
  <2>5. BufferOwn'
    BY <1>0, <1>2, <2>2 DEF Shapes, BufferOwn
  <2>6. OwnNameUndisturbed'
    <3> SUFFICES ASSUME NEW d \in Clients, conn'[d] = "user", ~mixed'[d]
                 PROVE  name'[d] = <<pick'[d], pick'[d]>>
      BY DEF OwnNameUndisturbed
    <3>1. CASE d = c
      <4>1. nick_buffer'[1] = pick[c] /\ nick_buffer'[2] = pick[c]
        BY <1>0, <1>2, <1>4, <3>1
      <4>2. pick[c] \in Halves
        BY DEF Shapes
      <4>3. nick_buffer' = <<pick[c], pick[c]>>
        BY <1>1, <4>1, <4>2, NameByHalves
      <4> QED
        BY <1>0, <2>2, <3>1, <4>3 DEF Shapes
    <3>2. CASE d # c
      <4>1. conn[d] = "user" /\ ~mixed[d] /\ name'[d] = name[d]
        BY <1>3, <2>2, <3>2 DEF Shapes
      <4> QED
        BY <1>0, <4>1 DEF OwnNameUndisturbed
    <3> QED
      BY <3>1, <3>2
  <2> QED
    BY <2>2, <2>3, <2>4, <2>5, <2>6
<1>5. CASE arrived[c] # 2
  <2>1. got' = [got EXCEPT ![c] = arrived[c]] /\ UNCHANGED <<name, conn, answer>>
    BY <1>5 DEF ReadSome
  <2>2. Shapes' /\ GotInStep'
    BY <1>0, <1>1, <2>1 DEF Shapes, GotInStep
  <2>3. BufferOwn'
    BY <1>0, <1>2, <2>1 DEF Shapes, BufferOwn
  <2>4. NamesOwn' /\ AnswersAwaited'
    BY <1>0, <2>1 DEF NamesOwn, AnswersAwaited
  <2>5. OwnNameUndisturbed'
    BY <1>0, <1>3, <2>1 DEF OwnNameUndisturbed
  <2> QED
    BY <2>2, <2>3, <2>4, <2>5
<1> QED
  BY <1>4, <1>5

\* The queued nickname handler finds the buffer as it is by now.
LEMMA ReadWholeStep ==
  ASSUME IInv, NEW c \in Clients, ReadWhole(c)
  PROVE  IInv'
<1> USE DEF IInv
<1>0. /\ conn[c] = "read" /\ got' = [got EXCEPT ![c] = 0] /\ Nickname(c, nick_buffer)
      /\ UNCHANGED <<client, pick, arrived, nick_buffer, accepting, mixed>>
  BY DEF ReadWhole
<1>1. nick_buffer \in [1..2 -> Halves]
  BY DEF Shapes
<1>2. /\ name' \in [Clients -> [1..2 -> Halves]]
      /\ conn' = [conn EXCEPT ![c] = conn'[c]] /\ conn'[c] \in {"none", "user"}
      /\ conn'[c] = "user" => name' = [name EXCEPT ![c] = nick_buffer]
      /\ conn'[c] = "none" => name' = name
      /\ answer' \in [Clients -> {"none", "valid", "invalid", "closed"}]
      /\ NamesOwn' /\ AnswersAwaited'
  BY <1>0, <1>1, NicknameStep
<1>3. Shapes'
  <2>1. conn' \in [Clients -> {"none", "backlog", "reading", "read", "user", "stopped"}]
    BY <1>2 DEF Shapes
  <2>2. got' \in [Clients -> 0..2]
    BY <1>0 DEF Shapes
  <2> QED
    BY <1>0, <1>2, <2>1, <2>2 DEF Shapes
<1>4. GotInStep'
  BY <1>0, <1>2 DEF Shapes, GotInStep
<1>5. BufferOwn'
  BY <1>0, <1>2 DEF Shapes, BufferOwn
<1>6. OwnNameUndisturbed'
  <2> SUFFICES ASSUME NEW d \in Clients, conn'[d] = "user", ~mixed[d]
               PROVE  name'[d] = <<pick[d], pick[d]>>
    BY <1>0 DEF OwnNameUndisturbed
  <2>1. CASE d = c
    <3>1. got[c] = 2
      BY <1>0 DEF GotInStep
    <3>2. nick_buffer[1] = pick[c] /\ nick_buffer[2] = pick[c]
      BY <1>0, <2>1, <3>1 DEF BufferOwn
    <3>3. pick[c] \in Halves
      BY DEF Shapes
    <3>4. nick_buffer = <<pick[c], pick[c]>>
      BY <1>1, <3>2, <3>3, NameByHalves
    <3> QED
      BY <1>2, <2>1, <3>4 DEF Shapes
  <2>2. CASE d # c
    <3>1. conn[d] = "user" /\ name'[d] = name[d]
      BY <1>2, <2>2 DEF Shapes
    <3> QED
      BY <3>1 DEF OwnNameUndisturbed
  <2> QED
    BY <2>1, <2>2
<1> QED
  BY <1>2, <1>3, <1>4, <1>5, <1>6

\* A nickname that is not read to its end leaves no user behind.
LEMMA FailStep ==
  ASSUME IInv, NEW c \in Clients, AcceptError(c) \/ ReadError(c)
  PROVE  IInv'
<1> USE DEF IInv
<1>0. /\ conn[c] \in {"backlog", "reading"} /\ conn' = [conn EXCEPT ![c] = "none"]
      /\ got' = [got EXCEPT ![c] = 0]
      /\ answer' = [answer EXCEPT ![c] = IF client[c] = "waiting" THEN "closed" ELSE @]
      /\ UNCHANGED <<client, pick, arrived, nick_buffer, name, mixed>>
  <2>1. CASE AcceptError(c)
    <3>1. got[c] = 0 /\ got = [got EXCEPT ![c] = got[c]]
      BY <2>1 DEF AcceptError, GotInStep, Shapes
    <3> QED
      BY <2>1, <3>1 DEF AcceptError, Reply
  <2>2. CASE ReadError(c)
    BY <2>2 DEF ReadError, Reply
  <2> QED
    BY <2>1, <2>2
<1>1. Shapes' /\ GotInStep'
  BY <1>0 DEF Shapes, GotInStep
<1>2. BufferOwn' /\ OwnNameUndisturbed'
  BY <1>0 DEF Shapes, BufferOwn, OwnNameUndisturbed
<1>3. NamesOwn' /\ AnswersAwaited'
  BY <1>0 DEF Shapes, NamesOwn, AnswersAwaited
<1> QED
  BY <1>1, <1>2, <1>3

\* A user that is stopped is taken off, with its name.
LEMMA StoppedStep ==
  ASSUME IInv, NEW c \in Clients, Stopped(c)
  PROVE  IInv'
<1> USE DEF IInv
<1>1. Shapes' /\ GotInStep'
  BY NoName DEF Stopped, Reply, Shapes, GotInStep
<1>2. BufferOwn' /\ OwnNameUndisturbed'
  BY DEF Stopped, Shapes, BufferOwn, OwnNameUndisturbed
<1>3. NamesOwn'
  <2>1. \A d \in Clients : conn[d] = "user" => name[d] # noname
    BY NoName DEF NamesOwn
  <2> QED
    BY <2>1 DEF Stopped, Shapes, NamesOwn
<1>4. AnswersAwaited'
  BY DEF Stopped, Reply, Shapes, AnswersAwaited
<1> QED
  BY <1>1, <1>2, <1>3, <1>4

-----------------------------------------------------------------------------
\* One buffer serves all nickname reads, and still: who is not disturbed is read
\* right, and who is answered "valid" is registered, alone under its name, until the
\* server stops it; any connection may fail at any time.
THEOREM HandshakeInvariant == Spec => []IInv
<1>1. IInv /\ [Next]_vars => IInv'
  <2> SUFFICES ASSUME IInv, [Next]_vars PROVE IInv'
    OBVIOUS
  <2>1. CASE UNCHANGED vars
    BY <2>1 DEF vars, IInv, Shapes, GotInStep, BufferOwn, NamesOwn, AnswersAwaited,
                OwnNameUndisturbed
  <2> QED
    BY <2>1, ClientStep, AcceptStep, ReadSomeStep, ReadWholeStep, FailStep, StoppedStep DEF Next
<1> QED
  BY <1>1, InitIInv, PTL DEF Spec

\* A client whose nickname was read while no other was read into nick_buffer_ is
\* registered under the nickname it picked.
THEOREM OwnNameTheorem == Spec => []OwnNameUndisturbed
BY HandshakeInvariant, PTL DEF IInv

\* A client told "valid" is a user of the server, under a name no other has, until
\* the server stops it.
THEOREM ValidTheorem == Spec => []ValidMeansRegistered
<1>1. IInv => ValidMeansRegistered
  BY DEF IInv, NamesOwn, AnswersAwaited, ValidMeansRegistered
<1> QED
  BY <1>1, HandshakeInvariant, PTL

=============================================================================
