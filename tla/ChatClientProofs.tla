-------------------------- MODULE ChatClientProofs --------------------------
(***************************************************************************)
(* Proofs about ChatClient and, for a process with one socket, about       *)
(* MessageBuffers: for any number of messages and any bounds.              *)
(***************************************************************************)
EXTENDS ChatClient, DataLemmas

\* Shapes, and no more than the two parts of a message are sent of it.
BuffersType ==
  /\ written \in [Sockets -> Nat]
  /\ write_msgs \in [Sockets -> Seq({socket} \X Nat)]
  /\ writer \in [Sockets -> {"idle", "busy", "failed"}]
  /\ parts \in [Sockets -> 0..2]
  /\ wire \in [Sockets -> Seq((0..2) \X ({socket} \X Nat))]

\* How many messages have left write_msgs_.
Gone == written[socket] - Len(write_msgs[socket])

\* write_msgs_ holds the last messages written, in order, and is empty only when no
\* write is outstanding and none has failed.
Backlog ==
  /\ Gone \in Nat
  /\ \A i \in 1..Len(write_msgs[socket]) : write_msgs[socket][i] = <<socket, Gone + i>>
  /\ writer[socket] = "idle" <=> write_msgs[socket] = <<>>

\* The static strings hold the message that is being sent: with one socket nobody else
\* can have filled them since.
StaticOwn == writer[socket] = "busy" => static = <<socket, Gone + 1>>

\* The socket has taken both parts of the messages that left, and some of the first.
Taken == Len(wire[socket]) = 2 * Gone + IF writer[socket] = "idle" THEN 0 ELSE parts[socket]

BInv == BuffersType /\ Backlog /\ StaticOwn /\ Taken /\ StreamIntact

\* A read is aborted, or fails at once, because the socket is closed.
FailedIsClosed == reader \in {"aborted", "failed"} => ~open

\* How often the end of the read loop has called close().
ReaderCloses ==
  IF reader \in {"header", "message", "aborted"} THEN 0 ELSE IF reader = "ended" /\ ~open THEN 2 ELSE 1

\* Each call of close() has its cause; one of them has closed the socket.
ClosesCaused ==
  HowMany(posted, {"close"}) + (IF open THEN 0 ELSE 1) <=
    (IF main = "lines" THEN 0 ELSE 1) + (IF writer[socket] = "failed" THEN 1 ELSE 0) + ReaderCloses

CInv == BInv /\ ClosesInOrder /\ FailedIsClosed /\ ClosesCaused

-----------------------------------------------------------------------------
(***************************************************************************)
(* The one socket of the process.                                          *)
(***************************************************************************)

\* Nothing is written yet.
LEMMA InitBInv == Init => BInv
<1> SUFFICES ASSUME Init PROVE BInv
  OBVIOUS
<1>1. socket \in Sockets
  BY SocketAssumption
<1>2. BuffersType
  <2>1. <<>> \in Seq({socket} \X Nat) /\ <<>> \in Seq((0..2) \X ({socket} \X Nat))
    BY EmptySeq
  <2> QED
    BY <2>1 DEF Init, BuffersType
<1>3. /\ written[socket] = 0 /\ write_msgs[socket] = <<>> /\ writer[socket] = "idle" /\ wire[socket] = <<>>
      /\ Len(<<>>) = 0 /\ 1..0 = {}
  BY <1>1 DEF Init
<1>4. Gone = 0
  <2>1. Len(write_msgs[socket]) = 0
    BY <1>3
  <2>2. written[socket] = 0
    BY <1>3
  <2> QED
    BY <2>1, <2>2 DEF Gone
<1>5. Backlog /\ StaticOwn /\ Taken
  BY <1>3, <1>4 DEF Backlog, StaticOwn, Taken
<1>6. StreamIntact
  BY <1>3, SocketAssumption DEF StreamIntact
<1> QED
  BY <1>2, <1>5, <1>6 DEF BInv

\* What the type says of the socket.
LEMMA SocketType ==
  ASSUME BInv
  PROVE  /\ socket \in Sockets
         /\ written[socket] \in Nat /\ write_msgs[socket] \in Seq({socket} \X Nat)
         /\ Len(write_msgs[socket]) \in Nat
         /\ writer[socket] \in {"idle", "busy", "failed"} /\ parts[socket] \in 0..2
         /\ wire[socket] \in Seq((0..2) \X ({socket} \X Nat)) /\ Len(wire[socket]) \in Nat
BY SocketAssumption, LenProperties DEF BInv, BuffersType

\* A message is written: it is started at once if it is the only one.
LEMMA WriteKeeps ==
  ASSUME BInv, Write(socket)
  PROVE  BInv'
<1> DEFINE n == written[socket]
           msgs == write_msgs[socket]
<1>1. /\ socket \in Sockets /\ n \in Nat /\ msgs \in Seq({socket} \X Nat) /\ Len(msgs) \in Nat
      /\ <<socket, n + 1>> \in {socket} \X Nat
  BY SocketType
<1>2. /\ written' = [written EXCEPT ![socket] = n + 1]
      /\ write_msgs' = [write_msgs EXCEPT ![socket] = Append(msgs, <<socket, n + 1>>)]
      /\ wire' = wire
  BY DEF Write
<1>3. /\ msgs = <<>> =>
           /\ static' = <<socket, n + 1>>
           /\ writer' = [writer EXCEPT ![socket] = "busy"]
           /\ parts' = [parts EXCEPT ![socket] = 0]
      /\ msgs # <<>> => UNCHANGED <<static, writer, parts>>
  BY DEF Write, do_write
<1>4. Append(msgs, <<socket, n + 1>>) \in Seq({socket} \X Nat)
  BY <1>1, AppendProperties
<1>5. BuffersType'
  <2>1. written' \in [Sockets -> Nat]
    BY <1>1, <1>2 DEF BInv, BuffersType
  <2>2. write_msgs' \in [Sockets -> Seq({socket} \X Nat)]
    BY <1>2, <1>4 DEF BInv, BuffersType
  <2>3. writer' \in [Sockets -> {"idle", "busy", "failed"}] /\ parts' \in [Sockets -> 0..2]
    <3>1. writer \in [Sockets -> {"idle", "busy", "failed"}] /\ parts \in [Sockets -> 0..2]
      BY DEF BInv, BuffersType
    <3>2. CASE msgs = <<>>
      <4> HIDE DEF msgs
      <4> QED
        BY <1>3, <3>1, <3>2
    <3>3. CASE msgs # <<>>
      <4> HIDE DEF msgs
      <4> QED
        BY <1>3, <3>1, <3>3
    <3> QED
      BY <3>2, <3>3
  <2> QED
    BY <1>2, <2>1, <2>2, <2>3 DEF BInv, BuffersType
<1>6. /\ written'[socket] = n + 1
      /\ write_msgs'[socket] = Append(msgs, <<socket, n + 1>>)
      /\ Len(write_msgs'[socket]) = Len(msgs) + 1
      /\ \A i \in 1..Len(msgs) + 1 :
           write_msgs'[socket][i] = IF i <= Len(msgs) THEN msgs[i] ELSE <<socket, n + 1>>
  BY <1>1, <1>2, AppendProperties DEF BInv, BuffersType
<1>7. /\ Gone \in Nat /\ Gone = n - Len(msgs) /\ Gone' = Gone
      /\ \A i \in 1..Len(msgs) : msgs[i] = <<socket, Gone + i>>
  <2>1. Gone \in Nat /\ \A i \in 1..Len(msgs) : msgs[i] = <<socket, Gone + i>>
    BY DEF BInv, Backlog
  <2>2. Gone = n - Len(msgs)
    BY DEF Gone
  <2>3. Gone' = (n + 1) - (Len(msgs) + 1)
    BY <1>6 DEF Gone
  <2>4. Gone' = Gone
    <3> HIDE DEF n, msgs
    <3> QED
      BY <1>1, <2>2, <2>3
  <2> QED
    BY <2>1, <2>2, <2>4
<1>8. Backlog'
  <2>1. \A i \in 1..Len(write_msgs'[socket]) : write_msgs'[socket][i] = <<socket, Gone + i>>
    <3> SUFFICES ASSUME NEW i \in 1..Len(msgs) + 1 PROVE write_msgs'[socket][i] = <<socket, Gone + i>>
      BY <1>6
    <3>1. CASE i \in 1..Len(msgs)
      <4>1. i <= Len(msgs)
        BY <1>1, <3>1
      <4> QED
        BY <1>6, <1>7, <3>1, <4>1
    <3>2. CASE i \notin 1..Len(msgs)
      <4>1. i = Len(msgs) + 1 /\ ~(i <= Len(msgs)) /\ Gone + i = n + 1
        <5>1. n \in Nat /\ Len(msgs) \in Nat /\ Gone \in Nat /\ Gone = n - Len(msgs)
          BY <1>1, <1>7
        <5> HIDE DEF n, msgs
        <5> QED
          BY <3>2, <5>1
      <4> QED
        BY <1>6, <4>1
    <3> QED
      BY <3>1, <3>2
  <2>2. writer'[socket] # "idle"
    BY <1>1, <1>3 DEF BInv, BuffersType, Backlog
  <2>3. write_msgs'[socket] # <<>>
    BY <1>1, <1>6
  <2> QED
    BY <1>7, <2>1, <2>2, <2>3 DEF Backlog
<1>9. StaticOwn' /\ Taken'
  <2>1. CASE msgs = <<>>
    <3>1. Gone = n /\ writer[socket] = "idle"
      BY <1>1, <1>7, <2>1 DEF BInv, Backlog
    <3>2. static' = <<socket, n + 1>> /\ writer'[socket] = "busy" /\ parts'[socket] = 0
      BY <1>1, <1>3, <2>1 DEF BInv, BuffersType
    <3> QED
      BY <1>2, <1>7, <3>1, <3>2 DEF BInv, StaticOwn, Taken
  <2>2. CASE msgs # <<>>
    BY <1>2, <1>3, <1>7, <2>2 DEF BInv, StaticOwn, Taken
  <2> QED
    BY <2>1, <2>2
<1>10. StreamIntact'
  BY <1>2 DEF BInv, StreamIntact
<1> QED
  BY <1>5, <1>8, <1>9, <1>10 DEF BInv

\* The socket takes a part: it is the next one of the message that is being sent.
LEMMA SendKeeps ==
  ASSUME BInv, Send(socket)
  PROVE  BInv'
<1> DEFINE p == parts[socket]
           sent == wire[socket]
<1>1. /\ socket \in Sockets /\ p \in {0, 1} /\ Gone \in Nat
      /\ sent \in Seq((0..2) \X ({socket} \X Nat)) /\ Len(sent) = 2 * Gone + p
      /\ writer[socket] = "busy" /\ static = <<socket, Gone + 1>>
  BY SocketType DEF Send, BInv, Backlog, StaticOwn, Taken
<1>2. /\ wire' = [wire EXCEPT ![socket] = Append(sent, <<p, static>>)]
      /\ parts' = [parts EXCEPT ![socket] = p + 1]
      /\ UNCHANGED <<written, write_msgs, writer, static>>
  BY DEF Send
<1>3. <<p, static>> \in (0..2) \X ({socket} \X Nat)
  BY <1>1
<1>4. Append(sent, <<p, static>>) \in Seq((0..2) \X ({socket} \X Nat))
  BY <1>1, <1>3, AppendProperties
<1>5. BuffersType'
  <2>1. wire' \in [Sockets -> Seq((0..2) \X ({socket} \X Nat))]
    BY <1>2, <1>4 DEF BInv, BuffersType
  <2>2. parts' \in [Sockets -> 0..2]
    <3>1. p + 1 \in 0..2
      BY <1>1
    <3> QED
      BY <1>2, <3>1 DEF BInv, BuffersType
  <2> QED
    BY <1>2, <2>1, <2>2 DEF BInv, BuffersType
<1>6. /\ wire'[socket] = Append(sent, <<p, static>>) /\ parts'[socket] = p + 1
      /\ Len(wire'[socket]) = Len(sent) + 1
      /\ \A i \in 1..Len(sent) + 1 :
           wire'[socket][i] = IF i <= Len(sent) THEN sent[i] ELSE <<p, static>>
  BY <1>1, <1>2, <1>3, AppendProperties DEF BInv, BuffersType
<1>7. Gone' = Gone /\ Backlog' /\ StaticOwn'
  BY <1>2 DEF BInv, Gone, Backlog, StaticOwn
<1>8. Taken'
  BY <1>1, <1>2, <1>6, <1>7 DEF Taken
<1>9. StreamIntact'
  <2> SUFFICES ASSUME NEW i \in 1..Len(wire'[socket])
               PROVE  wire'[socket][i] = <<(i - 1) % 2, <<socket, (i + 1) \div 2>>>>
    BY SocketAssumption DEF StreamIntact
  <2>1. CASE i <= Len(sent)
    <3>1. i \in 1..Len(sent)
      BY <1>1, <2>1
    <3> QED
      BY <1>1, <1>6, <2>1, <3>1 DEF BInv, StreamIntact
  <2>2. CASE ~(i <= Len(sent))
    <3>1. i = 2 * Gone + p + 1
      BY <1>1, <1>6, <2>2
    <3>2. (i - 1) % 2 = p /\ (i + 1) \div 2 = Gone + 1
      <4>1. CASE p = 0
        BY <1>1, <3>1, <4>1
      <4>2. CASE p = 1
        BY <1>1, <3>1, <4>2
      <4> QED
        BY <1>1, <4>1, <4>2
    <3>3. i \in 1..Len(sent) + 1
      BY <1>1, <1>6
    <3>4. wire'[socket][i] = <<p, static>>
      BY <1>6, <2>2, <3>3
    <3> QED
      BY <1>1, <3>2, <3>4
  <2> QED
    BY <2>1, <2>2
<1> QED
  BY <1>5, <1>7, <1>8, <1>9 DEF BInv

\* A message is sent: the next one, if there is one, fills the static strings.
LEMMA SentKeeps ==
  ASSUME BInv, Sent(socket)
  PROVE  BInv'
<1> DEFINE n == written[socket]
           msgs == write_msgs[socket]
<1>1. /\ socket \in Sockets /\ n \in Nat /\ msgs \in Seq({socket} \X Nat) /\ Len(msgs) \in Nat
      /\ writer[socket] = "busy" /\ parts[socket] = 2
      /\ Gone \in Nat /\ Gone = n - Len(msgs)
      /\ msgs # <<>> /\ \A i \in 1..Len(msgs) : msgs[i] = <<socket, Gone + i>>
  BY SocketType DEF Sent, BInv, Backlog, Gone
<1>2. PICK rest \in Seq({socket} \X Nat) :
        /\ rest = Tail(msgs) /\ Len(rest) = Len(msgs) - 1 /\ Len(msgs) >= 1
        /\ \A i \in 1..Len(msgs) - 1 : rest[i] = msgs[i + 1]
  <2>1. /\ Tail(msgs) \in Seq({socket} \X Nat) /\ Len(Tail(msgs)) = Len(msgs) - 1 /\ Len(msgs) >= 1
        /\ \A i \in 1..Len(msgs) - 1 : Tail(msgs)[i] = msgs[i + 1]
    BY <1>1, HeadTailProperties, LenProperties
  <2> QED
    BY <2>1
<1>3. /\ write_msgs' = [write_msgs EXCEPT ![socket] = rest]
      /\ UNCHANGED <<written, wire>>
  BY <1>2 DEF Sent
<1>4. /\ Len(msgs) > 1 =>
           /\ static' = msgs[2]
           /\ writer' = [writer EXCEPT ![socket] = "busy"]
           /\ parts' = [parts EXCEPT ![socket] = 0]
      /\ ~(Len(msgs) > 1) => writer' = [writer EXCEPT ![socket] = "idle"] /\ UNCHANGED <<parts, static>>
  BY DEF Sent, do_write
<1>5. BuffersType'
  <2>1. write_msgs' \in [Sockets -> Seq({socket} \X Nat)]
    BY <1>2, <1>3 DEF BInv, BuffersType
  <2>2. writer' \in [Sockets -> {"idle", "busy", "failed"}] /\ parts' \in [Sockets -> 0..2]
    <3>1. writer \in [Sockets -> {"idle", "busy", "failed"}] /\ parts \in [Sockets -> 0..2]
      BY DEF BInv, BuffersType
    <3> HIDE DEF msgs
    <3>2. CASE Len(msgs) > 1
      <4>1. writer' = [writer EXCEPT ![socket] = "busy"] /\ parts' = [parts EXCEPT ![socket] = 0]
        BY <1>4, <3>2
      <4>2. writer' \in [Sockets -> {"idle", "busy", "failed"}]
        BY <3>1, <4>1
      <4>3. parts' \in [Sockets -> 0..2]
        <5>1. 0 \in 0..2
          OBVIOUS
        <5> QED
          BY <3>1, <4>1, <5>1
      <4> QED
        BY <4>2, <4>3
    <3>3. CASE ~(Len(msgs) > 1)
      <4>1. writer' = [writer EXCEPT ![socket] = "idle"] /\ parts' = parts
        BY <1>4, <3>3
      <4> QED
        BY <3>1, <4>1
    <3> QED
      BY <3>2, <3>3
  <2> QED
    BY <1>3, <2>1, <2>2 DEF BInv, BuffersType
<1>6. write_msgs'[socket] = rest /\ Gone' = Gone + 1
  BY <1>1, <1>2, <1>3 DEF BInv, BuffersType, Gone
<1>7. /\ Len(msgs) \in Nat /\ Len(rest) = Len(msgs) - 1 /\ Len(msgs) >= 1
      /\ Gone \in Nat /\ Gone' = Gone + 1
  BY <1>1, <1>2, <1>6
<1>8. Backlog' /\ StaticOwn' /\ Taken'
  <2>1. \A i \in 1..Len(rest) : rest[i] = <<socket, (Gone + 1) + i>>
    <3> SUFFICES ASSUME NEW i \in 1..Len(rest) PROVE rest[i] = <<socket, (Gone + 1) + i>>
      OBVIOUS
    <3>1. i \in 1..Len(msgs) - 1 /\ i + 1 \in 1..Len(msgs) /\ Gone + (i + 1) = (Gone + 1) + i
      BY <1>1, <1>2
    <3> QED
      BY <1>1, <1>2, <3>1
  <2>2. Len(wire[socket]) = 2 * Gone + 2
    BY <1>1 DEF BInv, Taken
  <2>3. Backlog' <=> (writer'[socket] = "idle" <=> rest = <<>>)
    <3>1. Gone' = Gone + 1 /\ Gone + 1 \in Nat /\ write_msgs'[socket] = rest
      BY <1>1, <1>6
    <3> HIDE DEF msgs
    <3> QED
      BY <2>1, <3>1 DEF Backlog
  <2>4. CASE Len(msgs) > 1
    <3>1. static' = <<socket, Gone + 2>>
      <4>1. 2 \in 1..Len(msgs)
        BY <1>1, <2>4
      <4>2. msgs[2] = <<socket, Gone + 2>>
        BY <1>1, <4>1
      <4> HIDE DEF msgs
      <4> QED
        BY <1>4, <2>4, <4>2
    <3>2. writer'[socket] = "busy" /\ parts'[socket] = 0
      BY <1>1, <1>4, <2>4 DEF BInv, BuffersType
    <3>3. rest # <<>>
      <4> HIDE DEF msgs
      <4>1. Len(rest) # 0
        BY <1>7, <2>4
      <4> QED
        BY <4>1, EmptySeq
    <3>4. Gone' + 1 = Gone + 2 /\ 2 * Gone' + 0 = 2 * Gone + 2
      BY <1>7
    <3>5. StaticOwn' /\ Taken'
      BY <1>3, <2>2, <3>1, <3>2, <3>4 DEF StaticOwn, Taken
    <3> QED
      BY <2>3, <3>2, <3>3, <3>5
  <2>5. CASE ~(Len(msgs) > 1)
    <3>1. writer'[socket] = "idle"
      BY <1>1, <1>4, <2>5 DEF BInv, BuffersType
    <3>2. rest = <<>>
      <4>1. Len(rest) = 0
        <5> HIDE DEF msgs
        <5> QED
          BY <1>7, <2>5
      <4> QED
        BY <1>2, <4>1, EmptySeq
    <3>3. 2 * Gone' + 0 = 2 * Gone + 2
      BY <1>7
    <3>4. StaticOwn' /\ Taken'
      BY <1>3, <2>2, <3>1, <3>3 DEF StaticOwn, Taken
    <3> QED
      BY <2>3, <3>1, <3>2, <3>4
  <2> QED
    BY <2>4, <2>5
<1>9. StreamIntact'
  BY <1>3 DEF BInv, StreamIntact
<1> QED
  BY <1>5, <1>8, <1>9 DEF BInv

\* A write fails: nothing is written any more.
LEMMA FailedKeeps ==
  ASSUME BInv, Failed(socket)
  PROVE  BInv'
<1>1. /\ writer' = [writer EXCEPT ![socket] = "failed"] /\ writer[socket] = "busy"
      /\ UNCHANGED <<written, write_msgs, parts, static, wire>>
  BY DEF Failed
<1>2. writer'[socket] = "failed" /\ writer' \in [Sockets -> {"idle", "busy", "failed"}]
  BY <1>1, SocketAssumption DEF BInv, BuffersType
<1>3. BuffersType' /\ Gone' = Gone
  BY <1>1, <1>2 DEF BInv, BuffersType, Gone
<1>4. Backlog' /\ StaticOwn' /\ Taken'
  BY <1>1, <1>2, <1>3 DEF BInv, Backlog, StaticOwn, Taken
<1>5. StreamIntact'
  BY <1>1 DEF BInv, StreamIntact
<1> QED
  BY <1>3, <1>4, <1>5 DEF BInv

\* No step of the buffers breaks their invariant.
LEMMA NextBInv == BInv /\ [Next]_vars => BInv'
<1>1. Next => Write(socket) \/ Send(socket) \/ Sent(socket) \/ Failed(socket)
  BY SocketAssumption DEF Next
<1>2. ASSUME BInv, UNCHANGED vars PROVE BInv'
  <2>1. UNCHANGED <<written, write_msgs, writer, parts, static, wire>>
    BY <1>2 DEF vars
  <2> QED
    BY <1>2, <2>1 DEF BInv, BuffersType, Backlog, Gone, StaticOwn, Taken, StreamIntact
<1> QED
  BY <1>1, <1>2, WriteKeeps, SendKeeps, SentKeeps, FailedKeeps

\* README.md: "your following messages will be delivered".  In a process with one
\* socket the peer gets the messages in order and whole, however many there are.
THEOREM OneSocketIntact == Spec => []StreamIntact
<1>1. BInv => StreamIntact
  BY DEF BInv
<1> QED
  BY <1>1, InitBInv, NextBInv, PTL DEF Spec

-----------------------------------------------------------------------------
(***************************************************************************)
(* The client.                                                             *)
(***************************************************************************)

\* The client does with its socket what MessageBuffers says.
LEMMA ClientStep == [CNext]_allvars => [Next]_vars
<1>1. socket \in Sockets
  BY SocketAssumption
<1>2. PostedWrite => Write(socket)
  BY DEF PostedWrite
<1>3. WritePart => Send(socket)
  BY DEF WritePart
<1>4. WriteDone => Sent(socket)
  BY DEF WriteDone
<1>5. WriteError => Failed(socket)
  BY DEF WriteError
<1>6. Line \/ QuitLine \/ Join \/ PostedClose \/ RunReturns \/ PeerEnds => UNCHANGED vars
  BY DEF Line, QuitLine, Join, PostedClose, RunReturns, PeerEnds
<1>7. HeaderRead \/ HeaderUnreadable \/ MessageRead \/ PingRead \/ DecodeError \/ ReadAborted \/ ReadError
        => UNCHANGED vars
  BY DEF HeaderRead, HeaderUnreadable, MessageRead, PingRead, DecodeError, ReadAborted, ReadError
<1>8. Terminated \/ UNCHANGED allvars => UNCHANGED vars
  BY DEF Terminated, allvars
<1> QED
  BY <1>1, <1>2, <1>3, <1>4, <1>5, <1>6, <1>7, <1>8 DEF CNext, Next

\* A function is posted behind the others.
LEMMA PostCounted ==
  ASSUME CTypeOK, NEW f \in {"write", "close"}, post(f)
  PROVE  /\ posted' \in Seq({"write", "close"})
         /\ HowMany(posted', {"close"}) = HowMany(posted, {"close"}) + (IF f = "close" THEN 1 ELSE 0)
         /\ HowMany(posted', {"write"}) = HowMany(posted, {"write"}) + (IF f = "write" THEN 1 ELSE 0)
         /\ HowMany(posted, {"close"}) \in Nat /\ HowMany(posted, {"write"}) \in Nat
<1>1. posted \in Seq({"write", "close"}) /\ posted' = Append(posted, f)
  BY DEF CTypeOK, post
<1>2. posted' \in Seq({"write", "close"})
  BY <1>1, AppendProperties
<1>3. HowMany(posted, {"close"}) \in Nat /\ HowMany(posted, {"write"}) \in Nat
  BY <1>1, HowManyType
<1>4. \A H : HowMany(posted', H) = HowMany(posted, H) + (IF f \in H THEN 1 ELSE 0)
  BY <1>1, HowManyAppend
<1> QED
  BY <1>2, <1>3, <1>4

\* The function posted first is run.
LEMMA RunCounted ==
  ASSUME CTypeOK, posted # <<>>, NEW f, Head(posted) = f, posted' = Tail(posted)
  PROVE  /\ posted' \in Seq({"write", "close"})
         /\ HowMany(posted', {"close"}) = HowMany(posted, {"close"}) - (IF f = "close" THEN 1 ELSE 0)
         /\ HowMany(posted', {"write"}) = HowMany(posted, {"write"}) - (IF f = "write" THEN 1 ELSE 0)
         /\ HowMany(posted', {"close"}) \in Nat /\ HowMany(posted', {"write"}) \in Nat
         /\ HowMany(posted, {"close"}) \in Nat /\ HowMany(posted, {"write"}) \in Nat
<1>1. posted \in Seq({"write", "close"})
  BY DEF CTypeOK
<1>2. posted' \in Seq({"write", "close"})
  BY <1>1, HeadTailProperties
<1>3. /\ HowMany(posted', {"close"}) \in Nat /\ HowMany(posted', {"write"}) \in Nat
      /\ HowMany(posted, {"close"}) \in Nat /\ HowMany(posted, {"write"}) \in Nat
  BY <1>1, <1>2, HowManyType
<1>4. \A H : HowMany(posted, H) = HowMany(posted', H) + (IF f \in H THEN 1 ELSE 0)
  BY <1>1, HowManyTail
<1> QED
  BY <1>2, <1>3, <1>4

\* Only a failed write makes the writer failed, and that is for good.
LEMMA WriterKept ==
  ASSUME BInv
  PROVE  /\ Write(socket) => /\ writer'[socket] = "failed" <=> writer[socket] = "failed"
                             /\ written'[socket] = written[socket] + 1
         /\ Send(socket) \/ Sent(socket) =>
              /\ writer'[socket] = "failed" <=> writer[socket] = "failed"
              /\ written'[socket] = written[socket]
         /\ Failed(socket) => /\ writer'[socket] = "failed" /\ writer[socket] # "failed"
                              /\ written'[socket] = written[socket]
<1>1. /\ socket \in Sockets /\ writer \in [Sockets -> {"idle", "busy", "failed"}]
      /\ written \in [Sockets -> Nat]
  BY SocketAssumption DEF BInv, BuffersType
<1>2. write_msgs[socket] = <<>> => writer[socket] = "idle"
  BY DEF BInv, Backlog
<1>3. ASSUME Write(socket)
      PROVE  /\ writer'[socket] = "failed" <=> writer[socket] = "failed"
             /\ written'[socket] = written[socket] + 1
  <2>1. written' = [written EXCEPT ![socket] = written[socket] + 1]
    BY <1>3 DEF Write
  <2>2. \/ writer' = writer
        \/ writer[socket] = "idle" /\ writer' = [writer EXCEPT ![socket] = "busy"]
    BY <1>2, <1>3 DEF Write, do_write
  <2> QED
    BY <1>1, <2>1, <2>2
<1>4. ASSUME Send(socket)
      PROVE  writer' = writer /\ written' = written
  BY <1>4 DEF Send
<1>5. ASSUME Sent(socket)
      PROVE  writer[socket] = "busy" /\ writer'[socket] # "failed" /\ written' = written
  <2>1. /\ writer[socket] = "busy" /\ written' = written
        /\ \/ writer' = [writer EXCEPT ![socket] = "busy"]
           \/ writer' = [writer EXCEPT ![socket] = "idle"]
    BY <1>5 DEF Sent, do_write
  <2> QED
    BY <1>1, <2>1
<1>6. ASSUME Failed(socket)
      PROVE  writer'[socket] = "failed" /\ writer[socket] = "busy" /\ written' = written
  BY <1>1, <1>6 DEF Failed
<1> QED
  BY <1>3, <1>4, <1>5, <1>6

\* What a step has to keep.
LEMMA ClientKeeps ==
  ASSUME BInv', main' \in {"lines", "joining", "done"}, io' \in {"running", "returned"},
         posted' \in Seq({"write", "close"}), reader' \in Readers, open' \in BOOLEAN,
         peer' \in {"up", "eof", "reset"}, crashed' \in BOOLEAN, garbled' \in BOOLEAN,
         Typed' <= MaxMessages, CrashNeedsCause', FailedIsClosed', ClosesCaused',
         reader' = "ended" => ~open' \/ crashed' \/ HowMany(posted', {"close"}) # 0
  PROVE  CInv'
<1>1. writer'[socket] \in {"idle", "busy", "failed"}
  BY SocketAssumption DEF BInv, BuffersType
<1>2. HowMany(posted', {"close"}) \in Nat
  BY HowManyType
<1>3. HowMany(posted', {"close"}) <= 3
  <2>1. ReaderCloses' \in 0..2 /\ (open' => ReaderCloses' <= 1)
    BY DEF ReaderCloses, FailedIsClosed, Readers
  <2> QED
    BY <1>2, <2>1 DEF ClosesCaused
<1>4. CTypeOK'
  BY <1>1, <1>3 DEF CTypeOK
<1>5. (\E i \in 1..Len(posted') : posted'[i] = "close") <=> HowMany(posted', {"close"}) # 0
  BY HowManyType
<1>6. DeafIsClosing'
  BY <1>5 DEF DeafIsClosing
<1> QED
  BY <1>4, <1>6 DEF CInv, ClosesInOrder

\* The client is connected.
LEMMA InitCInv == CInit => CInv
<1> SUFFICES ASSUME CInit PROVE CInv
  OBVIOUS
<1>1. BInv
  BY InitBInv DEF CInit
<1>2. posted = <<>> /\ <<>> \in Seq({"write", "close"}) /\ Len(<<>>) = 0 /\ 1..0 = {}
  BY EmptySeq DEF CInit
<1>3. HowMany(posted, {"close"}) = 0 /\ HowMany(posted, {"write"}) = 0
  BY <1>2, HowManyEmpty
<1>4. written[socket] = 0 /\ writer[socket] = "idle"
  BY SocketAssumption DEF CInit, Init
<1>5. CTypeOK
  <2>1. Typed <= MaxMessages
    BY <1>3, <1>4, MaxMessagesAssumption DEF Typed
  <2>2. posted \in Seq({"write", "close"})
    BY <1>2
  <2>3. HowMany(posted, {"close"}) <= 3
    BY <1>3
  <2> QED
    BY <1>4, <2>1, <2>2, <2>3 DEF CInit, CTypeOK, Readers
<1>6. CrashNeedsCause /\ DeafIsClosing /\ FailedIsClosed
  BY DEF CInit, CrashNeedsCause, DeafIsClosing, FailedIsClosed
<1>7. ClosesCaused
  BY <1>3, <1>4 DEF CInit, ClosesCaused, ReaderCloses
<1> QED
  BY <1>1, <1>5, <1>6, <1>7 DEF CInv, ClosesInOrder

\* What the parts of the invariant say, as numbers.
LEMMA ClientFacts ==
  ASSUME CInv
  PROVE  /\ BInv /\ CTypeOK /\ Typed <= MaxMessages
         /\ HowMany(posted, {"close"}) \in Nat /\ HowMany(posted, {"write"}) \in Nat
         /\ written[socket] \in Nat
         /\ CrashNeedsCause /\ FailedIsClosed /\ ClosesCaused
         /\ reader = "ended" => ~open \/ crashed \/ HowMany(posted, {"close"}) # 0
<1>1. BInv /\ CTypeOK /\ CrashNeedsCause /\ DeafIsClosing /\ FailedIsClosed /\ ClosesCaused
  BY DEF CInv, ClosesInOrder
<1>2. posted \in Seq({"write", "close"}) /\ Typed <= MaxMessages
  BY <1>1 DEF CTypeOK
<1>3. HowMany(posted, {"close"}) \in Nat /\ HowMany(posted, {"write"}) \in Nat
  BY <1>2, HowManyType
<1>4. HowMany(posted, {"close"}) = 0 <=> \A i \in 1..Len(posted) : posted[i] \notin {"close"}
  BY <1>2, HowManyType
<1>5. written[socket] \in Nat
  BY <1>1, SocketType
<1> QED
  BY <1>1, <1>2, <1>3, <1>4, <1>5 DEF DeafIsClosing

\* main() posts what its lines ask for.
LEMMA MainStep ==
  ASSUME CInv, BInv', Line \/ QuitLine \/ Join
  PROVE  CInv'
<1>1. /\ CTypeOK /\ Typed <= MaxMessages
      /\ HowMany(posted, {"close"}) \in Nat /\ HowMany(posted, {"write"}) \in Nat
      /\ written[socket] \in Nat
      /\ CrashNeedsCause /\ FailedIsClosed /\ ClosesCaused
      /\ reader = "ended" => ~open \/ crashed \/ HowMany(posted, {"close"}) # 0
  BY ClientFacts
<1>2. written' = written /\ writer' = writer /\ UNCHANGED <<io, reader, open, peer, crashed, garbled>>
  BY DEF Line, QuitLine, Join, vars
<1>3. ReaderCloses' = ReaderCloses /\ CrashNeedsCause' /\ FailedIsClosed'
  BY <1>1, <1>2 DEF ReaderCloses, CrashNeedsCause, FailedIsClosed
<1>4. ReaderCloses \in Nat
  BY <1>1 DEF CTypeOK, Readers, ReaderCloses
<1>5. CASE Line
  <2>1. post("write") /\ UNCHANGED main /\ Typed < MaxMessages
    BY <1>5 DEF Line
  <2>2. /\ posted' \in Seq({"write", "close"})
        /\ HowMany(posted', {"close"}) = HowMany(posted, {"close"})
        /\ HowMany(posted', {"write"}) = HowMany(posted, {"write"}) + 1
    BY <1>1, <2>1, PostCounted
  <2>3. Typed' <= MaxMessages
    BY <1>1, <1>2, <2>1, <2>2, MaxMessagesAssumption DEF Typed
  <2>4. ClosesCaused'
    BY <1>1, <1>2, <1>3, <2>1, <2>2 DEF ClosesCaused
  <2> QED
    BY <1>1, <1>2, <1>3, <2>1, <2>2, <2>3, <2>4, ClientKeeps DEF CTypeOK
<1>6. CASE QuitLine
  <2>1. post("close") /\ main = "lines" /\ main' = "joining"
    BY <1>6 DEF QuitLine
  <2>2. /\ posted' \in Seq({"write", "close"})
        /\ HowMany(posted', {"close"}) = HowMany(posted, {"close"}) + 1
        /\ HowMany(posted', {"write"}) = HowMany(posted, {"write"})
    BY <1>1, <2>1, PostCounted
  <2>3. Typed' <= MaxMessages
    BY <1>1, <1>2, <2>2 DEF Typed
  <2>4. ClosesCaused'
    BY <1>1, <1>2, <1>3, <1>4, <2>1, <2>2 DEF ClosesCaused
  <2> QED
    BY <1>1, <1>2, <1>3, <2>1, <2>2, <2>3, <2>4, ClientKeeps DEF CTypeOK
<1>7. CASE Join
  <2>1. main = "joining" /\ main' = "done" /\ UNCHANGED posted
    BY <1>7 DEF Join
  <2>2. Typed' <= MaxMessages /\ ClosesCaused'
    BY <1>1, <1>2, <1>3, <2>1 DEF Typed, ClosesCaused
  <2> QED
    BY <1>1, <1>2, <1>3, <2>1, <2>2, ClientKeeps DEF CTypeOK
<1> QED
  BY <1>5, <1>6, <1>7

\* A posted function runs.
LEMMA PostedStep ==
  ASSUME CInv, BInv', PostedWrite \/ PostedClose
  PROVE  CInv'
<1>1. /\ BInv /\ CTypeOK /\ Typed <= MaxMessages
      /\ HowMany(posted, {"close"}) \in Nat /\ HowMany(posted, {"write"}) \in Nat
      /\ written[socket] \in Nat
      /\ CrashNeedsCause /\ FailedIsClosed /\ ClosesCaused
      /\ reader = "ended" => ~open \/ crashed \/ HowMany(posted, {"close"}) # 0
  BY ClientFacts
<1>2. UNCHANGED <<main, io, peer, garbled>> /\ ~crashed /\ posted # <<>> /\ posted' = Tail(posted)
  BY DEF PostedWrite, PostedClose, Running
<1>3. ReaderCloses \in Nat
  BY <1>1 DEF CTypeOK, Readers, ReaderCloses
<1>4. CASE PostedWrite
  <2>1. Head(posted) = "write" /\ Write(socket) /\ UNCHANGED <<reader, open, crashed>>
    BY <1>4 DEF PostedWrite
  <2>2. /\ posted' \in Seq({"write", "close"})
        /\ HowMany(posted', {"close"}) = HowMany(posted, {"close"})
        /\ HowMany(posted', {"write"}) = HowMany(posted, {"write"}) - 1
    BY <1>1, <1>2, <2>1, RunCounted
  <2>3. (writer'[socket] = "failed" <=> writer[socket] = "failed") /\ written'[socket] = written[socket] + 1
    BY <1>1, <2>1, WriterKept
  <2>4. ReaderCloses' = ReaderCloses /\ CrashNeedsCause' /\ FailedIsClosed'
    BY <1>1, <1>2, <2>1 DEF ReaderCloses, CrashNeedsCause, FailedIsClosed
  <2>5. Typed' <= MaxMessages
    <3>1. Typed' = (written[socket] + 1) + (HowMany(posted, {"write"}) - 1)
      BY <2>2, <2>3 DEF Typed
    <3> QED
      BY <1>1, <3>1, MaxMessagesAssumption DEF Typed
  <2>6. ClosesCaused'
    BY <1>1, <1>2, <2>1, <2>2, <2>3, <2>4 DEF ClosesCaused
  <2> QED
    BY <1>1, <1>2, <2>1, <2>2, <2>4, <2>5, <2>6, ClientKeeps DEF CTypeOK
<1>5. CASE PostedClose
  <2>1. Head(posted) = "close" /\ written' = written /\ writer' = writer
    BY <1>5 DEF PostedClose, vars
  <2>2. /\ posted' \in Seq({"write", "close"})
        /\ HowMany(posted', {"close"}) = HowMany(posted, {"close"}) - 1
        /\ HowMany(posted', {"write"}) = HowMany(posted, {"write"})
        /\ HowMany(posted', {"close"}) \in Nat
    BY <1>1, <1>2, <2>1, RunCounted
  <2>3. \/ ~open /\ UNCHANGED <<open, reader, crashed>>
        \/ open /\ peer = "reset" /\ crashed' = TRUE /\ UNCHANGED <<open, reader>>
        \/ /\ open /\ open' = FALSE /\ UNCHANGED crashed
           /\ \/ reader' = reader
              \/ reader \in {"header", "message"} /\ reader' = "aborted"
    BY <1>1, <1>5 DEF PostedClose, CTypeOK
  <2>4. reader' \in Readers /\ open' \in BOOLEAN /\ crashed' \in BOOLEAN
    BY <1>1, <2>3 DEF CTypeOK, Readers
  <2>5. CrashNeedsCause' /\ FailedIsClosed'
    BY <1>1, <1>2, <2>3 DEF CrashNeedsCause, FailedIsClosed
  <2>6. ReaderCloses' \in Nat /\ ReaderCloses' >= ReaderCloses
    BY <1>1, <2>3 DEF ReaderCloses, CTypeOK, Readers
  <2>7. Typed' <= MaxMessages
    BY <1>1, <2>1, <2>2 DEF Typed
  <2>8. ClosesCaused'
    BY <1>1, <1>2, <1>3, <2>1, <2>2, <2>3, <2>6 DEF ClosesCaused
  <2>9. reader' = "ended" => ~open' \/ crashed' \/ HowMany(posted', {"close"}) # 0
    BY <2>3
  <2> QED
    BY <1>1, <1>2, <2>2, <2>4, <2>5, <2>7, <2>8, <2>9, ClientKeeps DEF CTypeOK
<1> QED
  BY <1>4, <1>5

\* The read loop: what it reads, and how it ends.
LEMMA ReaderStep ==
  ASSUME CInv, BInv',
         HeaderRead \/ HeaderUnreadable \/ MessageRead \/ PingRead \/ DecodeError \/ ReadAborted \/ ReadError
  PROVE  CInv'
<1>1. /\ BInv /\ CTypeOK /\ Typed <= MaxMessages
      /\ HowMany(posted, {"close"}) \in Nat /\ HowMany(posted, {"write"}) \in Nat
      /\ written[socket] \in Nat
      /\ CrashNeedsCause /\ FailedIsClosed /\ ClosesCaused
      /\ reader = "ended" => ~open \/ crashed \/ HowMany(posted, {"close"}) # 0
  BY ClientFacts
<1>2. written' = written /\ writer' = writer /\ UNCHANGED <<main, io, open, peer>>
  BY DEF HeaderRead, HeaderUnreadable, MessageRead, PingRead, DecodeError, ReadAborted, ReadError, vars
<1>3. ReaderCloses \in Nat
  BY <1>1 DEF CTypeOK, Readers, ReaderCloses
<1>4. CASE HeaderRead \/ MessageRead
  <2>1. /\ reader \in {"header", "message"} /\ UNCHANGED <<posted, crashed, garbled>>
        /\ \/ open /\ reader' \in {"header", "message"}
           \/ ~open /\ reader' = "failed"
    BY <1>4 DEF HeaderRead, MessageRead, read
  <2>2. reader' \in Readers /\ CrashNeedsCause' /\ FailedIsClosed'
    BY <1>1, <1>2, <2>1 DEF Readers, CrashNeedsCause, FailedIsClosed
  <2>3. ReaderCloses' \in Nat /\ ReaderCloses' >= ReaderCloses
    BY <2>1 DEF ReaderCloses
  <2>4. Typed' <= MaxMessages /\ ClosesCaused'
    BY <1>1, <1>2, <1>3, <2>1, <2>3 DEF Typed, ClosesCaused
  <2> QED
    BY <1>1, <1>2, <2>1, <2>2, <2>4, ClientKeeps DEF CTypeOK
<1>5. CASE PingRead
  <2>1. /\ reader = "message" /\ UNCHANGED <<crashed, garbled>> /\ post("write") /\ Typed < MaxMessages
        /\ \/ open /\ reader' = "header"
           \/ ~open /\ reader' = "failed"
    BY <1>5 DEF PingRead, read
  <2>2. /\ posted' \in Seq({"write", "close"})
        /\ HowMany(posted', {"close"}) = HowMany(posted, {"close"})
        /\ HowMany(posted', {"write"}) = HowMany(posted, {"write"}) + 1
    BY <1>1, <2>1, PostCounted
  <2>3. reader' \in Readers /\ CrashNeedsCause' /\ FailedIsClosed'
    BY <1>1, <1>2, <2>1 DEF Readers, CrashNeedsCause, FailedIsClosed
  <2>4. ReaderCloses' \in Nat /\ ReaderCloses' >= ReaderCloses
    BY <2>1 DEF ReaderCloses
  <2>5. Typed' <= MaxMessages
    BY <1>1, <1>2, <2>1, <2>2, MaxMessagesAssumption DEF Typed
  <2>6. ClosesCaused'
    BY <1>1, <1>2, <1>3, <2>1, <2>2, <2>4 DEF ClosesCaused
  <2> QED
    BY <1>1, <1>2, <2>1, <2>2, <2>3, <2>5, <2>6, ClientKeeps DEF CTypeOK
<1>6. CASE HeaderUnreadable
  <2>1. /\ reader = "header" /\ UNCHANGED crashed /\ garbled' = TRUE /\ post("close")
        /\ \/ open /\ reader' = "empty"
           \/ ~open /\ reader' = "failed"
    BY <1>6 DEF HeaderUnreadable, read
  <2>2. /\ posted' \in Seq({"write", "close"})
        /\ HowMany(posted', {"close"}) = HowMany(posted, {"close"}) + 1
        /\ HowMany(posted', {"write"}) = HowMany(posted, {"write"})
    BY <1>1, <2>1, PostCounted
  <2>3. reader' \in Readers /\ CrashNeedsCause' /\ FailedIsClosed'
    BY <1>1, <1>2, <2>1 DEF Readers, CrashNeedsCause, FailedIsClosed
  <2>4. ReaderCloses = 0 /\ ReaderCloses' = 1
    BY <2>1 DEF ReaderCloses
  <2>5. Typed' <= MaxMessages
    BY <1>1, <1>2, <2>2 DEF Typed
  <2>6. ClosesCaused'
    BY <1>1, <1>2, <2>2, <2>4 DEF ClosesCaused
  <2> QED
    BY <1>1, <1>2, <2>1, <2>2, <2>3, <2>5, <2>6, ClientKeeps DEF CTypeOK
<1>7. CASE DecodeError
  <2>1. UNCHANGED <<posted, reader>> /\ crashed' = TRUE /\ garbled' = TRUE
    BY <1>7 DEF DecodeError
  <2>2. ReaderCloses' = ReaderCloses /\ CrashNeedsCause' /\ FailedIsClosed'
    BY <1>1, <1>2, <2>1 DEF ReaderCloses, CrashNeedsCause, FailedIsClosed
  <2>3. Typed' <= MaxMessages /\ ClosesCaused'
    BY <1>1, <1>2, <2>1, <2>2 DEF Typed, ClosesCaused
  <2> QED
    BY <1>1, <1>2, <2>1, <2>2, <2>3, ClientKeeps DEF CTypeOK
<1>8. CASE ReadAborted
  <2>1. UNCHANGED <<posted, crashed, garbled>> /\ reader = "aborted" /\ reader' = "ended" /\ ~open
    BY <1>1, <1>8 DEF ReadAborted, FailedIsClosed
  <2>2. CrashNeedsCause' /\ FailedIsClosed' /\ reader' \in Readers
    BY <1>1, <1>2, <2>1 DEF CrashNeedsCause, FailedIsClosed, Readers
  <2>3. ReaderCloses' = 2 /\ ReaderCloses = 0
    BY <1>2, <2>1 DEF ReaderCloses
  <2>4. Typed' <= MaxMessages /\ ClosesCaused'
    BY <1>1, <1>2, <2>1, <2>3 DEF Typed, ClosesCaused
  <2> QED
    BY <1>1, <1>2, <2>1, <2>2, <2>4, ClientKeeps DEF CTypeOK
<1>9. CASE ReadError
  <2>1. /\ UNCHANGED <<crashed, garbled>> /\ reader' = "ended" /\ post("close")
        /\ \/ reader = "failed" /\ ~open
           \/ reader \in {"header", "message"} /\ open
    BY <1>1, <1>9 DEF ReadError, FailedIsClosed
  <2>2. /\ posted' \in Seq({"write", "close"})
        /\ HowMany(posted', {"close"}) = HowMany(posted, {"close"}) + 1
        /\ HowMany(posted', {"write"}) = HowMany(posted, {"write"})
    BY <1>1, <2>1, PostCounted
  <2>3. CrashNeedsCause' /\ FailedIsClosed' /\ reader' \in Readers
    BY <1>1, <1>2, <2>1 DEF CrashNeedsCause, FailedIsClosed, Readers
  <2>4. ReaderCloses' = ReaderCloses + 1
    BY <1>2, <2>1 DEF ReaderCloses
  <2>5. Typed' <= MaxMessages
    BY <1>1, <1>2, <2>2 DEF Typed
  <2>6. ClosesCaused'
    BY <1>1, <1>2, <1>3, <2>2, <2>4 DEF ClosesCaused
  <2>7. HowMany(posted', {"close"}) # 0
    BY <1>1, <2>2
  <2> QED
    BY <1>1, <1>2, <2>1, <2>2, <2>3, <2>5, <2>6, <2>7, ClientKeeps DEF CTypeOK
<1> QED
  BY <1>4, <1>5, <1>6, <1>7, <1>8, <1>9

\* The socket, the end of run(), and the peer.
LEMMA SocketStep ==
  ASSUME CInv, BInv', WritePart \/ WriteDone \/ WriteError \/ RunReturns \/ PeerEnds
  PROVE  CInv'
<1>1. /\ BInv /\ CTypeOK /\ Typed <= MaxMessages
      /\ HowMany(posted, {"close"}) \in Nat /\ HowMany(posted, {"write"}) \in Nat
      /\ written[socket] \in Nat
      /\ CrashNeedsCause /\ FailedIsClosed /\ ClosesCaused
      /\ reader = "ended" => ~open \/ crashed \/ HowMany(posted, {"close"}) # 0
  BY ClientFacts
<1>2. UNCHANGED <<main, reader, open, crashed, garbled>>
  BY DEF WritePart, WriteDone, WriteError, RunReturns, PeerEnds, cvars
<1>3. /\ io' \in {"running", "returned"} /\ peer' \in {"up", "eof", "reset"}
      /\ (peer = "reset" => peer' = "reset")
  BY <1>1 DEF WritePart, WriteDone, WriteError, RunReturns, PeerEnds, cvars, CTypeOK
<1>4. /\ ReaderCloses' = ReaderCloses /\ ReaderCloses \in Nat
      /\ CrashNeedsCause' /\ FailedIsClosed'
  BY <1>1, <1>2, <1>3 DEF ReaderCloses, CrashNeedsCause, FailedIsClosed, CTypeOK, Readers
<1>5. CASE WriteError
  <2>1. Failed(socket) /\ post("close")
    BY <1>5 DEF WriteError
  <2>2. /\ posted' \in Seq({"write", "close"})
        /\ HowMany(posted', {"close"}) = HowMany(posted, {"close"}) + 1
        /\ HowMany(posted', {"write"}) = HowMany(posted, {"write"})
    BY <1>1, <2>1, PostCounted
  <2>3. writer'[socket] = "failed" /\ writer[socket] # "failed" /\ written'[socket] = written[socket]
    BY <1>1, <2>1, WriterKept
  <2>4. Typed' <= MaxMessages
    BY <1>1, <2>2, <2>3 DEF Typed
  <2>5. ClosesCaused'
    BY <1>1, <1>2, <1>4, <2>2, <2>3 DEF ClosesCaused
  <2>6. HowMany(posted', {"close"}) # 0
    BY <1>1, <2>2
  <2> QED
    BY <1>1, <1>2, <1>3, <1>4, <2>2, <2>4, <2>5, <2>6, ClientKeeps DEF CTypeOK
<1>6. CASE WritePart \/ WriteDone \/ RunReturns \/ PeerEnds
  <2>1. UNCHANGED posted
    BY <1>6 DEF WritePart, WriteDone, RunReturns, PeerEnds, cvars
  <2>2. (writer'[socket] = "failed" <=> writer[socket] = "failed") /\ written'[socket] = written[socket]
    <3>1. CASE WritePart \/ WriteDone
      BY <1>1, <3>1, WriterKept DEF WritePart, WriteDone
    <3>2. CASE RunReturns \/ PeerEnds
      BY <3>2 DEF RunReturns, PeerEnds, vars
    <3> QED
      BY <1>6, <3>1, <3>2
  <2>3. Typed' <= MaxMessages
    BY <1>1, <2>1, <2>2 DEF Typed
  <2>4. ClosesCaused'
    BY <1>1, <1>2, <1>4, <2>1, <2>2 DEF ClosesCaused
  <2> QED
    BY <1>1, <1>2, <1>3, <1>4, <2>1, <2>3, <2>4, ClientKeeps DEF CTypeOK
<1> QED
  BY <1>5, <1>6

\* No step of the client breaks the invariant.
LEMMA NextCInv == CInv /\ [CNext]_allvars => CInv'
<1> SUFFICES ASSUME CInv, [CNext]_allvars PROVE CInv'
  OBVIOUS
<1>1. BInv'
  BY ClientStep, NextBInv DEF CInv
<1>2. CASE UNCHANGED allvars
  <2>1. /\ written' = written /\ writer' = writer
        /\ UNCHANGED <<main, io, posted, reader, open, peer, crashed, garbled>>
    BY <1>2 DEF allvars, vars, cvars
  <2> QED
    BY <1>1, <2>1
       DEF CInv, ClosesInOrder, CTypeOK, Typed, CrashNeedsCause, DeafIsClosing, FailedIsClosed, ClosesCaused,
           ReaderCloses
<1> QED
  BY <1>1, <1>2, MainStep, PostedStep, ReaderStep, SocketStep DEF CNext, Terminated

-----------------------------------------------------------------------------
(***************************************************************************)
(* What holds of every client.                                             *)
(***************************************************************************)

\* The invariant holds from connect() to the end of the process.
THEOREM ClientInvariant == CSpec => []CInv
  BY InitCInv, NextCInv, PTL DEF CSpec

\* The client uses its buffers as MessageBuffers says.
THEOREM ClientBuffers == CSpec => Init /\ [][Next]_vars
<1>1. CInit => Init
  BY DEF CInit
<1> QED
  BY <1>1, ClientStep, PTL DEF CSpec

\* However the client ends, the server gets its messages in order, and whole up to the
\* last.
THEOREM ClientStreamIntact == CSpec => []StreamIntact
<1>1. CInv => StreamIntact
  BY DEF CInv, BInv
<1> QED
  BY <1>1, ClientInvariant, PTL

\* close() is pending at most three times, closes what is no longer read, and does not
\* end the process by an exception of its own.
THEOREM ClosesInOrderTheorem == CSpec => []ClosesInOrder
<1>1. CInv => ClosesInOrder
  BY DEF CInv
<1> QED
  BY <1>1, ClientInvariant, PTL
=============================================================================
