----------------------------- MODULE PartsProofs -----------------------------
(***************************************************************************)
(* Proofs about parts that are modelled by themselves: chat_session for    *)
(* any number of writes and of messages from the peer, the ping timer for  *)
(* any frequency, number of retries and latency, the counters of the       *)
(* logging library for any statements, chat_message and message for any    *)
(* texts and contents, PerformanceTracker for any times, the program's     *)
(* arguments for any lists of them, dates for any formats, and log files   *)
(* for any names, directories and lines.                                   *)
(***************************************************************************)
EXTENDS ChatSession, PingTimer, LogCounters, ChatMessage, Message, LogTimer, LogArgs, LogTime, LogDisk, DataLemmas

-----------------------------------------------------------------------------
\* A sequence of one element.
LEMMA TheOnlyOne ==
  ASSUME NEW S, NEW s \in Seq(S), Len(s) <= 1, s # <<>>
  PROVE  Len(s) = 1 /\ DOMAIN s = {1} /\ Head(s) = s[1] /\ s[1] \in S /\ Tail(s) = <<>>
<1>1. Len(s) # 0
  BY EmptySeq
<1>2. Len(s) = 1 /\ DOMAIN s = {1}
  BY <1>1, LenProperties
<1>3. Tail(s) \in Seq(S) /\ Len(Tail(s)) = 0 /\ Head(s) = s[1]
  BY <1>2, HeadTailProperties
<1>4. Tail(s) = <<>>
  BY <1>3, EmptySeq
<1> QED
  BY <1>2, <1>3, <1>4

\* What is put behind nothing.
LEMMA AppendToNothing ==
  ASSUME NEW S, NEW e \in S
  PROVE  Append(<<>>, e) \in Seq(S) /\ Len(Append(<<>>, e)) = 1 /\ Append(<<>>, e)[1] = e /\ DOMAIN Append(<<>>, e) = {1}
  OBVIOUS

-----------------------------------------------------------------------------
(***************************************************************************)
(* chat_session.                                                           *)
(***************************************************************************)

\* Shapes.
SessionType ==
  /\ queue \in Seq(Nat) /\ outbox \in Seq(Nat) /\ outbound \in Seq(Nat)
  /\ writes \in Seq([what : Nat, timely : BOOLEAN])
  /\ reads \in Seq([what : {"header", "message", "nothing"}, timely : BOOLEAN])
  /\ write_calls \in Nat

\* The message that is being written is the first of write_msgs_; nothing is written of none.
WritingFirst == writes # <<>> => outbox # <<>> /\ writes[1].what = outbox[1]

\* What the peer got and what is in write_msgs_ are the first messages, in order.
Placed == \A i \in DOMAIN outbox : outbox[i] = Len(outbound) + i

\* How many messages have been taken from the posted functions.
Started == Len(outbound) + Len(outbox)

(***************************************************************************)
(* The posted messages are those that follow, in order; a close is between *)
(* them, at place p, or there is none and p is the place behind them.  Of  *)
(* a program that went on without an object nothing is said.               *)
(***************************************************************************)
PostedAround(p) ==
  /\ \A i \in 1..Len(queue) : i < p => queue[i] = Started + i
  /\ \A i \in 1..Len(queue) : i > p => queue[i] = Started + i - 1
  /\ IF p <= Len(queue) THEN queue[p] = Close /\ write_calls = Started + Len(queue) - 1
     ELSE write_calls = Started + Len(queue)

PostedInOrder == touched = "no" => \E p \in 1..(Len(queue) + 1) : PostedAround(p)

ChInv == SessionType /\ WritingFirst /\ Placed /\ PostedInOrder /\ SessionSafe

\* The session with one read outstanding, and nothing written.
LEMMA SessionInit == ChInit => ChInv
<1> SUFFICES ASSUME ChInit PROVE ChInv
  OBVIOUS
<1>1. SessionType
  BY EmptySeq DEF ChInit, SessionType
<1>2. Len(queue) = 0 /\ Len(outbox) = 0 /\ Len(outbound) = 0 /\ Len(writes) = 0 /\ Len(reads) = 1
  BY DEF ChInit
<1>3. WritingFirst /\ Placed
  BY DEF ChInit, WritingFirst, Placed
<1>4. PostedAround(1)
  BY <1>2 DEF ChInit, PostedAround, Started
<1>5. PostedInOrder
  BY <1>2, <1>4 DEF PostedInOrder
<1>6. SessionSafe
  BY <1>2 DEF ChInit, SessionSafe, SessionInOrder, QuietAfterError
<1> QED
  BY <1>1, <1>3, <1>5, <1>6 DEF ChInv

\* The owner's calls put their functions behind the others.
LEMMA SessionCalls ==
  ASSUME ChInv, touched = "no", session_write \/ close_socket
  PROVE  ChInv'
<1> USE DEF ChInv
<1>1. UNCHANGED <<outbox, writes, reads, outbound, ended, touched>> /\ Started' = Started /\ owned /\ owned' = owned
  BY DEF session_write, close_socket, Started
<1>2. Started \in Nat /\ Len(queue) \in Nat /\ write_calls \in Nat /\ queue \in Seq(Nat)
  BY LenProperties DEF SessionType, Started
<1>3. PICK p \in 1..(Len(queue) + 1) : PostedAround(p)
  BY DEF PostedInOrder
<1>4. CASE session_write
  <2>1. write_calls' = write_calls + 1 /\ queue' = Append(queue, write_calls + 1)
    BY <1>4 DEF session_write
  <2>2. /\ Len(queue') = Len(queue) + 1 /\ queue'[Len(queue) + 1] = write_calls + 1
        /\ \A i \in 1..Len(queue) : queue'[i] = queue[i]
    BY <1>2, <2>1, AppendProperties
  <2>3. queue' \in Seq(Nat)
    BY <1>2, <2>1, AppendProperties
  <2>4. PICK q \in 1..(Len(queue) + 2) : q = IF p = Len(queue) + 1 THEN p + 1 ELSE p
    BY <1>2, <1>3
  <2>5. ASSUME NEW i \in 1..Len(queue'), i # q
        PROVE  queue'[i] = IF i < q THEN Started + i ELSE Started + i - 1
    <3>1. CASE i \in 1..Len(queue)
      BY <1>2, <1>3, <2>2, <2>4, <2>5, <3>1 DEF PostedAround
    <3>2. CASE i = Len(queue) + 1
      <4>1. p <= Len(queue) => write_calls + 1 = Started + i - 1
        BY <1>2, <1>3, <3>2 DEF PostedAround
      <4>2. p = Len(queue) + 1 => write_calls + 1 = Started + i
        BY <1>2, <1>3, <3>2 DEF PostedAround
      <4> QED
        BY <1>2, <1>3, <2>2, <2>4, <2>5, <3>2, <4>1, <4>2
    <3> QED
      BY <1>2, <2>2, <2>5, <3>1, <3>2
  <2>6. IF q <= Len(queue') THEN queue'[q] = Close /\ write_calls' = Started + Len(queue') - 1
        ELSE write_calls' = Started + Len(queue')
    <3>1. CASE p <= Len(queue)
      BY <1>2, <1>3, <2>1, <2>2, <2>4, <3>1 DEF PostedAround
    <3>2. CASE p = Len(queue) + 1
      BY <1>2, <1>3, <2>1, <2>2, <2>4, <3>2 DEF PostedAround
    <3> QED
      BY <1>2, <1>3, <3>1, <3>2
  <2>7. PostedAround(q)' /\ q \in 1..(Len(queue') + 1)
    <3>1. \A i \in 1..Len(queue') : i < q => queue'[i] = Started + i
      BY <1>2, <2>2, <2>4, <2>5
    <3>2. \A i \in 1..Len(queue') : i > q => queue'[i] = Started + i - 1
      BY <1>2, <2>2, <2>4, <2>5
    <3>3. q \in 1..(Len(queue') + 1)
      BY <1>2, <2>2, <2>4
    <3> QED
      BY <1>1, <2>6, <3>1, <3>2, <3>3 DEF PostedAround
  <2>8. SessionType'
    BY <1>1, <1>2, <2>1, <2>3 DEF SessionType
  <2> QED
    BY <1>1, <2>7, <2>8 DEF WritingFirst, Placed, PostedInOrder, SessionSafe, SessionInOrder, QuietAfterError
<1>5. CASE close_socket
  <2>1. write_calls' = write_calls /\ queue' = Append(queue, Close) /\ ~Contains(queue, Close)
    BY <1>5 DEF close_socket
  <2>2. /\ Len(queue') = Len(queue) + 1 /\ queue'[Len(queue) + 1] = Close
        /\ \A i \in 1..Len(queue) : queue'[i] = queue[i]
    BY <1>2, <2>1, AppendProperties DEF Close
  <2>3. queue' \in Seq(Nat)
    BY <1>2, <2>1, AppendProperties DEF Close
  <2>4. p = Len(queue) + 1
    BY <1>2, <1>3, <2>1 DEF PostedAround, Contains
  <2>7. PostedAround(p)' /\ p \in 1..(Len(queue') + 1)
    <3>1. write_calls = Started + Len(queue)
      BY <1>2, <1>3, <2>4 DEF PostedAround
    <3>2. p <= Len(queue') /\ queue'[p] = Close /\ write_calls' = Started + Len(queue') - 1
      BY <1>2, <2>1, <2>2, <2>4, <3>1
    <3>3. ASSUME NEW i \in 1..Len(queue'), i < p PROVE queue'[i] = Started + i
      <4>1. i \in 1..Len(queue)
        BY <1>2, <2>2, <2>4, <3>3
      <4> QED
        BY <1>3, <2>2, <3>3, <4>1 DEF PostedAround
    <3>4. \A i \in 1..Len(queue') : ~(i > p)
      BY <1>2, <2>2, <2>4
    <3> QED
      BY <1>1, <1>2, <2>2, <2>4, <3>2, <3>3, <3>4 DEF PostedAround
  <2>8. SessionType'
    BY <1>1, <1>2, <2>1, <2>3 DEF SessionType
  <2>10. PostedInOrder'
    BY <2>7 DEF PostedInOrder
  <2> QED
    BY <1>1, <2>8, <2>10 DEF WritingFirst, Placed, SessionSafe, SessionInOrder, QuietAfterError
<1> QED
  BY <1>4, <1>5

\* The next posted function writes the next message, or closes the socket.
LEMMA SessionPosted ==
  ASSUME ChInv, touched = "no", Posted
  PROVE  ChInv'
<1> USE DEF ChInv
<1>1. UNCHANGED <<owned, write_calls, reads, outbound, inbound, ended>> /\ queue # <<>> /\ queue' = Tail(queue)
  BY DEF Posted
<1>2. queue \in Seq(Nat) /\ outbox \in Seq(Nat) /\ outbound \in Seq(Nat) /\ Len(queue) \in Nat /\ Len(outbox) \in Nat
      /\ Len(outbound) \in Nat /\ write_calls \in Nat
  BY LenProperties DEF SessionType
<1>3. /\ queue' \in Seq(Nat) /\ Len(queue') = Len(queue) - 1 /\ Len(queue) > 0
      /\ \A i \in 1..Len(queue) - 1 : queue'[i] = queue[i + 1]
      /\ Head(queue) = queue[1] /\ Head(queue) \in Nat
  BY <1>1, <1>2, HeadTailProperties, EmptySeq
<1>4. PICK p \in 1..(Len(queue) + 1) : PostedAround(p)
  BY DEF PostedInOrder
<1>5. CASE ~Alive
  <2>1. touched' = "posted" /\ UNCHANGED <<outbox, writes, socket>>
    BY <1>5 DEF Posted
  <2>2. ~owned /\ writes = <<>> /\ reads = <<>>
    BY <1>5 DEF Alive
  <2>3. SessionType' /\ PostedInOrder'
    BY <1>1, <1>2, <1>3, <2>1 DEF SessionType, PostedInOrder
  <2>4. SessionSafe'
    BY <1>1, <2>1, <2>2 DEF SessionSafe, SessionInOrder, QuietAfterError
  <2> QED
    BY <1>1, <2>1, <2>3, <2>4 DEF WritingFirst, Placed
<1>6. CASE Alive /\ Head(queue) = Close
  <2>1. UNCHANGED <<outbox, writes, touched>> /\ Started' = Started
    BY <1>1, <1>6 DEF Posted, PostedClosing, Started
  <2>2. Started \in Nat
    BY <1>2 DEF Started
  <2>3. p = 1
    <3>1. p > 1 => queue[1] = Started + 1
      BY <1>2, <1>3, <1>4 DEF PostedAround
    <3> QED
      BY <1>2, <1>3, <1>4, <1>6, <2>2, <3>1 DEF Close
  <2>4. /\ \A i \in 1..Len(queue) : i > 1 => queue[i] = Started + i - 1
        /\ write_calls = Started + Len(queue) - 1
    BY <1>2, <1>3, <1>4, <2>3 DEF PostedAround
  <2>5. PICK q \in 1..(Len(queue') + 1) : q = Len(queue') + 1
    BY <1>2, <1>3
  <2>7. PostedAround(q)'
    <3>1. ASSUME NEW i \in 1..Len(queue') PROVE queue'[i] = Started + i
      <4>1. i + 1 \in 1..Len(queue) /\ i + 1 > 1 /\ queue'[i] = queue[i + 1]
        <5>1. i \in 1..Len(queue) - 1
          BY <1>3
        <5>2. queue'[i] = queue[i + 1]
          BY <1>3, <5>1
        <5>3. i + 1 \in 1..Len(queue) /\ i + 1 > 1
          BY <1>2, <5>1
        <5> QED
          BY <5>2, <5>3
      <4>2. queue[i + 1] = Started + (i + 1) - 1
        BY <2>4, <4>1
      <4> QED
        BY <2>2, <4>1, <4>2
    <3>2. write_calls' = Started + Len(queue')
      BY <1>1, <1>2, <1>3, <2>2, <2>4
    <3>3. ~(q <= Len(queue')) /\ \A i \in 1..Len(queue') : ~(i > q)
      BY <1>2, <1>3, <2>5
    <3> QED
      BY <2>1, <3>1, <3>2, <3>3 DEF PostedAround
  <2>6. SessionType' /\ PostedInOrder'
    BY <1>1, <1>2, <1>3, <2>1, <2>7 DEF SessionType, PostedInOrder
  <2> QED
    BY <1>1, <2>1, <2>6 DEF WritingFirst, Placed, SessionSafe, SessionInOrder, QuietAfterError
<1>7. CASE Alive /\ Head(queue) # Close
  <2>1. /\ outbox' = Append(outbox, Head(queue)) /\ UNCHANGED <<socket, touched>>
        /\ writes' = IF outbox = <<>> THEN do_write(outbox', writes) ELSE writes
    BY <1>7 DEF Posted, PostedMessage
  <2>2. /\ outbox' \in Seq(Nat) /\ outbox' # <<>> /\ Len(outbox') = Len(outbox) + 1
        /\ outbox'[Len(outbox) + 1] = Head(queue)
        /\ \A i \in 1..Len(outbox) : outbox'[i] = outbox[i]
    BY <1>2, <1>3, <2>1, AppendProperties
  <2>3. Started \in Nat /\ Started' = Started + 1 /\ Started = Len(outbound) + Len(outbox)
    BY <1>1, <1>2, <2>2 DEF Started
  <2>4. p > 1 /\ Head(queue) = Started + 1
    <3>1. p # 1
      BY <1>2, <1>3, <1>4, <1>7 DEF PostedAround
    <3> QED
      BY <1>2, <1>3, <1>4, <3>1 DEF PostedAround
  <2>5. Placed'
    <3>1. \A i \in 1..Len(outbox) : outbox[i] = Len(outbound) + i
      BY <1>2 DEF Placed
    <3>2. outbox'[Len(outbox) + 1] = Len(outbound) + (Len(outbox) + 1)
      BY <1>2, <2>2, <2>3, <2>4
    <3>3. \A i \in 1..(Len(outbox) + 1) : outbox'[i] = Len(outbound) + i
      <4> SUFFICES ASSUME NEW i \in 1..(Len(outbox) + 1) PROVE outbox'[i] = Len(outbound) + i
        OBVIOUS
      <4>1. CASE i \in 1..Len(outbox)
        <5>1. outbox'[i] = outbox[i] /\ outbox[i] = Len(outbound) + i
          BY <2>2, <3>1, <4>1
        <5> QED
          BY <5>1
      <4>2. CASE i = Len(outbox) + 1
        BY <3>2, <4>2
      <4>3. i \in 1..Len(outbox) \/ i = Len(outbox) + 1
        BY <1>2
      <4> QED
        BY <4>1, <4>2, <4>3
    <3>4. DOMAIN outbox' = 1..(Len(outbox) + 1) /\ Len(outbound)' = Len(outbound)
      BY <1>1, <2>2, LenProperties
    <3> QED
      BY <3>3, <3>4 DEF Placed
  <2>6. /\ writes' \in Seq([what : Nat, timely : BOOLEAN]) /\ WritingFirst' /\ Len(writes') <= 1
        /\ writes' = <<>> => writes = <<>>
    <3>1. CASE outbox = <<>>
      <4>1. writes = <<>>
        BY <3>1 DEF WritingFirst
      <4>2. Head(outbox') = Head(queue) /\ outbox'[1] = Head(queue)
        BY <1>2, <1>3, <2>1, <2>2, <3>1, HeadTailProperties
      <4>3. writes' = <<Op(Head(queue))>>
        BY <2>1, <3>1, <4>1, <4>2 DEF do_write
      <4>4. Op(Head(queue)) \in [what : Nat, timely : BOOLEAN] /\ Op(Head(queue)).what = Head(queue)
        BY <1>3 DEF Op
      <4>5. writes' \in Seq([what : Nat, timely : BOOLEAN]) /\ Len(writes') = 1 /\ writes'[1].what = outbox'[1]
        BY <4>2, <4>3, <4>4
      <4> QED
        BY <2>2, <4>1, <4>5 DEF WritingFirst
    <3>2. CASE outbox # <<>>
      <4>1. writes' = writes
        BY <2>1, <3>2
      <4>2. outbox'[1] = outbox[1]
        BY <1>2, <2>2, <3>2, EmptySeq
      <4> QED
        BY <2>2, <3>2, <4>1, <4>2 DEF WritingFirst, SessionType, SessionSafe, SessionInOrder
    <3> QED
      BY <3>1, <3>2
  <2>7. SessionType'
    BY <1>1, <1>2, <1>3, <2>2, <2>6 DEF SessionType
  <2>8. PostedInOrder'
    <3>1. PICK q \in 1..(Len(queue') + 1) : p = q + 1
      <4>1. p \in Nat /\ p <= Len(queue) + 1 /\ Len(queue) \in Nat /\ Len(queue') = Len(queue) - 1
        BY <1>2, <1>3, <1>4
      <4>2. p - 1 \in 1..(Len(queue') + 1) /\ p = (p - 1) + 1
        BY <2>4, <4>1
      <4> QED
        BY <4>2
    <3>2. \A i \in 1..Len(queue') : i < q => queue'[i] = Started + 1 + i
      <4>1. \A j \in 1..Len(queue) : j < p => queue[j] = Started + j
        BY <1>4 DEF PostedAround
      <4> SUFFICES ASSUME NEW i \in 1..Len(queue'), i < q PROVE queue'[i] = Started + 1 + i
        OBVIOUS
      <4>2. i \in 1..Len(queue) - 1 /\ i + 1 \in 1..Len(queue) /\ i + 1 < p
        BY <1>2, <1>3, <3>1
      <4>3. queue'[i] = queue[i + 1] /\ queue[i + 1] = Started + (i + 1)
        BY <1>3, <4>1, <4>2
      <4> QED
        BY <2>3, <4>2, <4>3
    <3>3. \A i \in 1..Len(queue') : i > q => queue'[i] = Started + 1 + i - 1
      <4>1. \A j \in 1..Len(queue) : j > p => queue[j] = Started + j - 1
        BY <1>4 DEF PostedAround
      <4> SUFFICES ASSUME NEW i \in 1..Len(queue'), i > q PROVE queue'[i] = Started + 1 + i - 1
        OBVIOUS
      <4>2. i \in 1..Len(queue) - 1 /\ i + 1 \in 1..Len(queue) /\ i + 1 > p
        BY <1>2, <1>3, <3>1
      <4>3. queue'[i] = queue[i + 1] /\ queue[i + 1] = Started + (i + 1) - 1
        BY <1>3, <4>1, <4>2
      <4> QED
        BY <2>3, <4>2, <4>3
    <3>4. IF q <= Len(queue') THEN queue'[q] = Close /\ write_calls = Started + 1 + Len(queue') - 1
          ELSE write_calls = Started + 1 + Len(queue')
      <4>1. IF p <= Len(queue) THEN queue[p] = Close /\ write_calls = Started + Len(queue) - 1
            ELSE write_calls = Started + Len(queue)
        BY <1>4 DEF PostedAround
      <4>2. CASE p <= Len(queue)
        <5>1. q <= Len(queue') /\ q \in 1..Len(queue) - 1
          BY <1>2, <1>3, <3>1, <4>2
        <5>2. queue'[q] = Close
          BY <1>3, <3>1, <4>1, <4>2, <5>1
        <5>3. write_calls = Started + 1 + Len(queue') - 1
          <6>1. Len(queue') = Len(queue) - 1 /\ Len(queue) \in Nat /\ Started \in Nat
            BY <1>2, <1>3, <2>3
          <6>2. write_calls = Started + Len(queue) - 1
            BY <4>1, <4>2
          <6> QED
            BY <6>1, <6>2
        <5> QED
          BY <5>1, <5>2, <5>3
      <4>3. CASE ~(p <= Len(queue))
        <5>1. ~(q <= Len(queue'))
          BY <1>2, <1>3, <1>4, <3>1, <4>3
        <5>2. write_calls = Started + 1 + Len(queue')
          BY <1>2, <1>3, <2>3, <4>1, <4>3
        <5> QED
          BY <5>1, <5>2
      <4> QED
        BY <4>2, <4>3
    <3>5. PostedAround(q)'
      BY <1>1, <2>3, <3>2, <3>3, <3>4 DEF PostedAround
    <3> QED
      BY <3>5 DEF PostedInOrder
  <2> QED
    BY <1>1, <2>1, <2>5, <2>6, <2>7, <2>8 DEF SessionSafe, SessionInOrder, QuietAfterError
<1> QED
  BY <1>5, <1>6, <1>7

\* The handlers of reads: no message is taken after an error, and the object is there.
LEMMA SessionReads ==
  ASSUME ChInv, touched = "no", HeaderHandler \/ MessageHandler \/ NoMessage \/ ReadFails
  PROVE  ChInv'
<1> USE DEF ChInv
<1>1. UNCHANGED <<owned, queue, write_calls, outbox, writes, outbound>> /\ reads # <<>> /\ Alive
  BY DEF HeaderHandler, MessageHandler, NoMessage, ReadFails, Alive
<1>2. Len(reads) = 1 /\ DOMAIN reads = {1} /\ Tail(reads) = <<>> /\ Head(reads) = reads[1]
  <2>1. reads \in Seq([what : {"header", "message", "nothing"}, timely : BOOLEAN]) /\ Len(reads) <= 1
    BY DEF SessionType, SessionSafe, SessionInOrder
  <2> QED
    BY <1>1, <2>1, TheOnlyOne
<1>3. ended => reads[1].what = "nothing"
  BY <1>2 DEF SessionSafe, QuietAfterError
<1>4. /\ reads' \in Seq([what : {"header", "message", "nothing"}, timely : BOOLEAN]) /\ Len(reads') <= 1
      /\ ended' => \A i \in DOMAIN reads' : reads'[i].what = "nothing"
  <2>1. CASE reads' = <<>>
    BY <2>1, EmptySeq
  <2>2. CASE reads' = Append(Tail(reads), OpOfNothing)
    <3>1. PICK e \in [what : {"header", "message", "nothing"}, timely : BOOLEAN] : e = OpOfNothing
      BY DEF OpOfNothing
    <3>2. reads' = Append(<<>>, e) /\ e.what = "nothing"
      BY <1>2, <2>2, <3>1 DEF OpOfNothing
    <3> QED
      BY <3>2, AppendToNothing
  <2>3. CASE \E w \in {"header", "message"} : reads' = Append(Tail(reads), Op(w)) /\ reads[1].what # "nothing" /\ ended' = ended
    <3>1. PICK w \in {"header", "message"} : reads' = Append(Tail(reads), Op(w)) /\ reads[1].what # "nothing" /\ ended' = ended
      BY <2>3
    <3>2. PICK e \in [what : {"header", "message", "nothing"}, timely : BOOLEAN] : e = Op(w)
      <4>1. Op(w) \in [what : {"header", "message", "nothing"}, timely : BOOLEAN]
        BY DEF Op
      <4> QED
        BY <4>1
    <3>3. reads' = Append(<<>>, e)
      BY <1>2, <3>1, <3>2
    <3>4. /\ reads' \in Seq([what : {"header", "message", "nothing"}, timely : BOOLEAN])
          /\ Len(reads') = 1
      BY <3>3, AppendToNothing
    <3>5. ~ended'
      BY <1>3, <3>1
    <3> QED
      BY <3>4, <3>5
  <2>4. CASE MessageHandler /\ Head(reads).what = "nothing"
    BY <2>4 DEF MessageHandler
  <2> QED
    BY <1>2, <2>1, <2>2, <2>3, <2>4 DEF HeaderHandler, MessageHandler, NoMessage, ReadFails
<1>5. touched' = "no" \/ touched' = "thrown"
  BY <1>1 DEF HeaderHandler, MessageHandler, NoMessage, ReadFails, Used
<1>6. SessionType' /\ WritingFirst' /\ Placed' /\ PostedInOrder'
  BY <1>1, <1>4, <1>5 DEF SessionType, WritingFirst, Placed, PostedInOrder, PostedAround, Started
<1>7. SessionSafe'
  BY <1>1, <1>4, <1>5 DEF SessionSafe, SessionInOrder, QuietAfterError
<1> QED
  BY <1>6, <1>7

\* The next message is written when the one before has been sent.
LEMMA SessionWritten ==
  ASSUME ChInv, touched = "no", WriteHandler
  PROVE  ChInv'
<1> USE DEF ChInv
<1>1. /\ UNCHANGED <<owned, queue, write_calls, reads, socket, ended>> /\ writes # <<>> /\ Alive
      /\ outbound' = Append(outbound, Head(writes).what) /\ outbox' = Tail(outbox)
      /\ writes' = IF outbox' = <<>> THEN Tail(writes) ELSE do_write(outbox', Tail(writes))
  BY DEF WriteHandler, Alive
<1>2. Len(writes) = 1 /\ Tail(writes) = <<>> /\ Head(writes) = writes[1] /\ writes[1].what \in Nat
  <2>1. writes \in Seq([what : Nat, timely : BOOLEAN]) /\ Len(writes) <= 1
    BY DEF SessionType, SessionSafe, SessionInOrder
  <2>2. /\ Len(writes) = 1 /\ Tail(writes) = <<>> /\ Head(writes) = writes[1]
        /\ writes[1] \in [what : Nat, timely : BOOLEAN]
    BY <1>1, <2>1, TheOnlyOne
  <2> QED
    BY <2>2
<1>3. /\ outbox \in Seq(Nat) /\ outbound \in Seq(Nat) /\ Len(outbox) \in Nat /\ Len(outbound) \in Nat
      /\ outbox # <<>> /\ Len(outbox) > 0 /\ writes[1].what = outbox[1] /\ outbox[1] = Len(outbound) + 1
  BY <1>1, EmptySeq, LenProperties DEF SessionType, WritingFirst, Placed
<1>4. /\ outbox' \in Seq(Nat) /\ Len(outbox') = Len(outbox) - 1 /\ \A i \in 1..Len(outbox) - 1 : outbox'[i] = outbox[i + 1]
  BY <1>1, <1>3, HeadTailProperties
<1>5. /\ outbound' \in Seq(Nat) /\ Len(outbound') = Len(outbound) + 1 /\ outbound'[Len(outbound) + 1] = Len(outbound) + 1
      /\ \A i \in 1..Len(outbound) : outbound'[i] = outbound[i]
  BY <1>1, <1>2, <1>3, AppendProperties
<1>6. Started' = Started
  BY <1>3, <1>4, <1>5 DEF Started
<1>7. Placed'
  <2>1. \A i \in 1..Len(outbox) : outbox[i] = Len(outbound) + i
    BY <1>3, LenProperties DEF Placed
  <2>2. ASSUME NEW i \in 1..Len(outbox') PROVE outbox'[i] = Len(outbound') + i
    BY <1>3, <1>4, <1>5, <2>1
  <2> QED
    BY <1>4, <2>2, LenProperties DEF Placed
<1>8. \A i \in DOMAIN outbound' : outbound'[i] = i
  <2>1. \A i \in 1..Len(outbound) : outbound[i] = i
    BY <1>3, LenProperties DEF SessionSafe, SessionInOrder
  <2>2. \A i \in 1..(Len(outbound) + 1) : i \in 1..Len(outbound) \/ i = Len(outbound) + 1
    BY <1>3
  <2>3. DOMAIN outbound' = 1..(Len(outbound) + 1)
    BY <1>5, LenProperties
  <2> QED
    BY <1>5, <2>1, <2>2, <2>3
<1>9. writes' \in Seq([what : Nat, timely : BOOLEAN]) /\ Len(writes') <= 1 /\ WritingFirst'
  <2>1. CASE outbox' = <<>>
    <3>1. writes' = <<>>
      BY <1>1, <1>2, <2>1
    <3> QED
      BY <3>1, EmptySeq DEF WritingFirst
  <2>2. CASE outbox' # <<>>
    <3>1. Head(outbox') = outbox'[1] /\ outbox'[1] \in Nat
      BY <1>4, <2>2, EmptySeq, HeadTailProperties
    <3>2. PICK m \in Nat : m = outbox'[1]
      BY <3>1
    <3>3. PICK e \in [what : Nat, timely : BOOLEAN] : e = Op(m)
      <4>1. Op(m) \in [what : Nat, timely : BOOLEAN]
        BY DEF Op
      <4> QED
        BY <4>1
    <3>4. writes' = Append(<<>>, e)
      BY <1>1, <1>2, <2>2, <3>1, <3>2, <3>3 DEF do_write
    <3>5. writes' \in Seq([what : Nat, timely : BOOLEAN]) /\ Len(writes') = 1 /\ writes'[1] = e
      BY <3>4, AppendToNothing
    <3>6. e.what = outbox'[1]
      BY <3>2, <3>3 DEF Op
    <3> QED
      BY <2>2, <3>5, <3>6 DEF WritingFirst
  <2> QED
    BY <2>1, <2>2
<1>10. touched' = "no"
  BY <1>1 DEF WriteHandler, Used
<1>11. SessionType' /\ PostedInOrder'
  BY <1>1, <1>4, <1>5, <1>6, <1>9, <1>10 DEF SessionType, PostedInOrder, PostedAround
<1>12. SessionSafe'
  BY <1>1, <1>8, <1>9, <1>10 DEF SessionSafe, SessionInOrder, QuietAfterError
<1> QED
  BY <1>7, <1>9, <1>11, <1>12

\* What fails is over; the owner lets go, and the peer goes.
LEMMA SessionOthers ==
  ASSUME ChInv, touched = "no", WriteFails \/ LetGo \/ PeerGone
  PROVE  ChInv'
<1> USE DEF ChInv
<1>1. UNCHANGED <<queue, write_calls, outbox, reads, outbound, ended>>
  BY DEF WriteFails, LetGo, PeerGone
<1>2. touched' = "no"
  BY DEF WriteFails, LetGo, PeerGone, Used, Alive
<1>3. writes' = writes \/ writes' = <<>>
  <2>1. CASE WriteFails
    <3>1. writes \in Seq([what : Nat, timely : BOOLEAN]) /\ Len(writes) <= 1 /\ writes # <<>>
      BY <2>1 DEF SessionType, SessionSafe, SessionInOrder, WriteFails
    <3>2. Tail(writes) = <<>>
      BY <3>1, TheOnlyOne
    <3> QED
      BY <2>1, <3>2 DEF WriteFails
  <2>2. CASE LetGo \/ PeerGone
    BY <2>2 DEF LetGo, PeerGone
  <2> QED
    BY <2>1, <2>2
<1>4. writes' \in Seq([what : Nat, timely : BOOLEAN]) /\ Len(writes') <= 1 /\ WritingFirst'
  <2>1. CASE writes' = writes
    BY <1>1, <2>1 DEF SessionType, SessionSafe, SessionInOrder, WritingFirst
  <2>2. CASE writes' = <<>>
    BY <2>2, EmptySeq DEF WritingFirst
  <2> QED
    BY <1>3, <2>1, <2>2
<1>5. SessionType' /\ Placed' /\ PostedInOrder'
  BY <1>1, <1>2, <1>4 DEF SessionType, Placed, PostedInOrder, PostedAround, Started
<1>6. SessionSafe'
  BY <1>1, <1>2, <1>4 DEF SessionSafe, SessionInOrder, QuietAfterError
<1> QED
  BY <1>4, <1>5, <1>6

(***************************************************************************)
(* What was written is sent in order and once, and what fails is the end   *)
(* of it; a read that failed is the last; and no handler of either runs on *)
(* a session that is gone: for any number of writes and any order of       *)
(* messages, failures and calls of the owner.                              *)
(***************************************************************************)
THEOREM SessionTheorem == ChInit /\ [][ChNext]_cvars => []SessionSafe
<1>1. ChInit => ChInv
  BY SessionInit
<1>2. ChInv /\ [ChNext]_cvars => ChInv'
  <2> SUFFICES ASSUME ChInv, [ChNext]_cvars PROVE ChInv'
    OBVIOUS
  <2>1. CASE ChNext
    BY <2>1, SessionCalls, SessionPosted, SessionReads, SessionWritten, SessionOthers DEF ChNext
  <2>2. CASE UNCHANGED cvars
    BY <2>2 DEF cvars, ChInv, SessionType, WritingFirst, Placed, PostedInOrder, PostedAround, Started, SessionSafe,
      SessionInOrder, QuietAfterError
  <2> QED
    BY <2>1, <2>2
<1>3. ChInv => SessionSafe
  BY DEF ChInv
<1> QED
  BY <1>1, <1>2, <1>3, PTL

-----------------------------------------------------------------------------
(***************************************************************************)
(* The ping timer.                                                         *)
(***************************************************************************)

\* How far the retries since the last answer have moved the expiry.
Moved == retries * retry_interval

\* The expiry is moved when it has come, by no more than the frequency; the clock passes it
\* only before the client comes.
ExpiryNear ==
  /\ expires_at <= now + ping_frequency
  /\ user = "on" => now <= expires_at \/ now = accepted

\* A pong that has come answers all pings, and its timer was set before it.
PongsAnswer ==
  user = "on" =>
    /\ pong_received <=> pinged = -1
    /\ pong_received => expires_at <= heard + ping_frequency
    /\ ~pong_received => expires_at <= heard + ping_frequency + ping_frequency + Moved

(***************************************************************************)
(* The retries are counted from the ping that is not answered, or from an  *)
(* earlier time if the client came late; and a prompt peer's pong is not   *)
(* overdue.                                                                *)
(***************************************************************************)
PingsCounted ==
  user = "on" /\ pinged # -1 =>
    /\ pinged + ping_frequency + Moved <= expires_at + accepted
    /\ prompt => now <= pinged + Latency

\* Before the client comes the timer has its first expiry.
NotStarted == user = "waiting" => expires_at = ping_frequency /\ retries = 0 /\ pinged = -1 /\ ~pong_received

TimerInv == TypeOK /\ PromptPeerKept /\ ExpiryNear /\ PongsAnswer /\ PingsCounted /\ NotStarted

\* Half the frequency is a number that is not greater.
LEMMA RetryInterval == retry_interval \in Nat /\ retry_interval <= ping_frequency
  BY TimerAssumption DEF retry_interval

\* Products of a number with the interval.
LEMMA Products ==
  ASSUME NEW k \in Nat, NEW r \in Nat, NEW n \in Nat, r <= n
  PROVE  r * k \in Nat /\ (r + 1) * k = r * k + k /\ r * k <= n * k /\ 0 * k = 0
<1>1. PICK d \in Nat : n = r + d
  OBVIOUS
<1>2. d * k \in Nat /\ r * k \in Nat
  OBVIOUS
<1>3. (r + d) * k = r * k + d * k
  OBVIOUS
<1> QED
  BY <1>1, <1>2, <1>3

\* Every time is a number.
LEMMA TimerNumbers ==
  ASSUME TypeOK
  PROVE  /\ now \in Nat /\ accepted \in Nat /\ heard \in Nat /\ expires_at \in Nat /\ pinged \in Int /\ retries \in Nat
         /\ accepted <= heard /\ heard <= now /\ pinged <= now /\ (pinged # -1 => pinged \in Nat)
         /\ ping_frequency \in Nat /\ ping_frequency > 0 /\ Latency \in Nat /\ MaxTime \in Nat /\ ping_retry_max \in Nat
         /\ Moved \in Nat /\ ping_retry_max * retry_interval \in Nat /\ Moved <= ping_retry_max * retry_interval
         /\ (retries + 1) * retry_interval = Moved + retry_interval
<1>1. retries \in Nat /\ ping_retry_max \in Nat /\ retries <= ping_retry_max /\ retry_interval \in Nat
  BY TimerAssumption, RetryInterval DEF TypeOK
<1>2. /\ retries * retry_interval \in Nat /\ (retries + 1) * retry_interval = retries * retry_interval + retry_interval
      /\ retries * retry_interval <= ping_retry_max * retry_interval
  BY <1>1, Products
<1>3. ping_retry_max * retry_interval \in Nat
  BY <1>1, Products
<1>4. /\ now \in Nat /\ accepted \in Nat /\ heard \in Nat /\ expires_at \in Nat /\ pinged \in Int /\ retries \in Nat
      /\ accepted <= heard /\ heard <= now /\ pinged <= now /\ (pinged # -1 => pinged \in Nat)
  BY TimerAssumption DEF TypeOK
<1> QED
  BY <1>1, <1>2, <1>3, <1>4, TimerAssumption DEF Moved

\* The clock begins with the object.
LEMMA TimerInit == Init => TimerInv
<1> SUFFICES ASSUME Init PROVE TimerInv
  OBVIOUS
<1>1. TypeOK
  <2>1. pong_received \in BOOLEAN /\ prompt \in BOOLEAN
    BY DEF Init
  <2>2. /\ now = 0 /\ accepted = 0 /\ heard = 0 /\ user = "waiting" /\ expires_at = ping_frequency
        /\ pinged = -1 /\ retries = 0
    BY DEF Init
  <2> QED
    BY <2>1, <2>2, TimerAssumption DEF TypeOK
<1> QED
  BY <1>1, TimerAssumption DEF Init, TimerInv, PromptPeerKept, ExpiryNear, PongsAnswer, PingsCounted, NotStarted

\* The client comes: the ping is sent now.
LEMMA TimerStart == TimerInv /\ Start => TimerInv'
<1> SUFFICES ASSUME TimerInv, Start PROVE TimerInv'
  OBVIOUS
<1> USE DEF TimerInv
<1>1. TypeOK /\ UNCHANGED <<now, expires_at, pong_received, retries, prompt>>
  BY DEF Start
<1>2. user' = "on" /\ accepted' = now /\ heard' = now /\ pinged' = now
  BY DEF Start, ping, NotStarted
<1>3. expires_at = ping_frequency /\ retries = 0 /\ ~pong_received
  BY DEF Start, NotStarted
<1>4. Moved = 0 /\ Moved' = Moved
  BY <1>1, <1>3, RetryInterval DEF Moved
<1>5. TypeOK'
  BY <1>1, <1>2, TimerNumbers DEF TypeOK
<1>6. PromptPeerKept' /\ NotStarted'
  BY <1>2 DEF PromptPeerKept, NotStarted
<1>7. ExpiryNear' /\ PongsAnswer' /\ PingsCounted'
  BY <1>1, <1>2, <1>3, <1>4, TimerNumbers DEF ExpiryNear, PongsAnswer, PingsCounted
<1> QED
  BY <1>5, <1>6, <1>7

\* A pong: nothing is unanswered.
LEMMA TimerPong == TimerInv /\ Pong => TimerInv'
<1> SUFFICES ASSUME TimerInv, Pong PROVE TimerInv'
  OBVIOUS
<1> USE DEF TimerInv
<1>1. TypeOK /\ UNCHANGED <<now, user, accepted, expires_at, retries, prompt>> /\ user = "on"
  BY DEF Pong
<1>2. pong_received' = TRUE /\ pinged' = -1 /\ heard' = now
  BY DEF Pong
<1>3. TypeOK'
  BY <1>1, <1>2, TimerNumbers DEF TypeOK
<1>4. PromptPeerKept' /\ NotStarted'
  BY <1>1 DEF PromptPeerKept, NotStarted
<1>5. ExpiryNear' /\ PongsAnswer' /\ PingsCounted'
  BY <1>1, <1>2, TimerNumbers DEF ExpiryNear, PongsAnswer, PingsCounted
<1> QED
  BY <1>3, <1>4, <1>5

\* The timer expires: the pong has come, or the retries go on.
LEMMA TimerExpiry == TimerInv /\ (Answered \/ Retry) => TimerInv'
<1> SUFFICES ASSUME TimerInv, Answered \/ Retry PROVE TimerInv'
  OBVIOUS
<1> USE DEF TimerInv
<1>1. TypeOK /\ UNCHANGED <<now, user, accepted, prompt, heard>> /\ user = "on" /\ expires_at <= now
  BY DEF Answered, Retry, Expired
<1>2. CASE Answered
  <2>1. pong_received /\ ~pong_received' /\ retries' = 0 /\ expires_at' = expires_at + ping_frequency
    BY <1>2 DEF Answered
  <2>2. pinged' = now
    BY <1>1, <1>2, <2>1 DEF Answered, ping, PongsAnswer
  <2>3. Moved' = 0
    BY <2>1, RetryInterval DEF Moved, retry_interval
  <2>4. TypeOK'
    <3>1. expires_at' \in Nat /\ retries' \in 0..ping_retry_max
      BY <1>1, <2>1, TimerNumbers
    <3>2. (pong_received \in BOOLEAN)' /\ (prompt \in BOOLEAN)'
      BY <1>1, <1>2 DEF TypeOK, Answered
    <3>3. (now \in 0..MaxTime /\ accepted \in 0..now /\ heard \in accepted..now)'
      BY <1>1 DEF TypeOK
    <3>4. (pinged \in {-1} \cup 0..now)' /\ (user \in {"waiting", "on", "off"})'
      BY <1>1, <2>2, TimerNumbers DEF TypeOK
    <3> QED
      BY <3>1, <3>2, <3>3, <3>4 DEF TypeOK
  <2>5. ExpiryNear'
    BY <1>1, <2>1, TimerNumbers DEF ExpiryNear
  <2>6. PongsAnswer'
    BY <1>1, <2>1, <2>2, <2>3, TimerNumbers DEF PongsAnswer
  <2>7. PingsCounted'
    BY <1>1, <2>1, <2>2, <2>3, TimerNumbers DEF PingsCounted, ExpiryNear
  <2> QED
    BY <1>1, <2>4, <2>5, <2>6, <2>7 DEF PromptPeerKept, NotStarted
<1>3. CASE Retry
  <2>1. /\ ~pong_received /\ pong_received' = pong_received /\ retries < ping_retry_max /\ retries' = retries + 1
        /\ expires_at' = expires_at + retry_interval
    BY <1>3 DEF Retry
  <2>2. pinged' = pinged /\ pinged # -1
    BY <1>1, <1>3, <2>1 DEF Retry, ping, PongsAnswer
  <2>3. Moved' = (retries + 1) * retry_interval
    BY <2>1 DEF Moved, retry_interval
  <2>4. Moved' = Moved + retry_interval /\ retry_interval \in Nat /\ retry_interval <= ping_frequency
    BY <1>1, <2>3, TimerNumbers, RetryInterval
  <2>5. TypeOK'
    <3>1. expires_at' \in Nat /\ retries' \in 0..ping_retry_max
      BY <1>1, <2>1, <2>4, TimerNumbers
    <3>2. (pong_received \in BOOLEAN)'
      BY <1>1, <2>1 DEF TypeOK
    <3>3. (prompt \in BOOLEAN)'
      BY <1>1 DEF TypeOK
    <3>4. (now \in 0..MaxTime /\ accepted \in 0..now /\ heard \in accepted..now)'
      BY <1>1 DEF TypeOK
    <3>5. (pinged \in {-1} \cup 0..now)' /\ (user \in {"waiting", "on", "off"})'
      BY <1>1, <2>2 DEF TypeOK
    <3> QED
      BY <3>1, <3>2, <3>3, <3>4, <3>5 DEF TypeOK
  <2>6. ExpiryNear'
    BY <1>1, <2>1, <2>4, TimerNumbers DEF ExpiryNear
  <2>7. PongsAnswer'
    BY <1>1, <2>1, <2>2, <2>4, TimerNumbers DEF PongsAnswer
  <2>8. PingsCounted'
    BY <1>1, <2>1, <2>2, <2>4, TimerNumbers DEF PingsCounted
  <2> QED
    BY <1>1, <2>5, <2>6, <2>7, <2>8 DEF PromptPeerKept, NotStarted
<1> QED
  BY <1>2, <1>3

\* The timeout: a prompt peer's pong would have come in time.
LEMMA TimerTimeout == TimerInv /\ Timeout => TimerInv'
<1> SUFFICES ASSUME TimerInv, Timeout PROVE TimerInv'
  OBVIOUS
<1> USE DEF TimerInv
<1>1. TypeOK /\ UNCHANGED <<now, accepted, expires_at, pong_received, retries, prompt, pinged, heard>> /\ user' = "off"
  BY DEF Timeout
<1>2. user = "on" /\ expires_at <= now /\ ~pong_received /\ retries = ping_retry_max
  BY <1>1, TimerNumbers DEF Timeout, Expired, TypeOK
<1>3. pinged # -1 /\ pinged + ping_frequency + Moved <= expires_at + accepted /\ (prompt => now <= pinged + Latency)
  BY <1>2 DEF PongsAnswer, PingsCounted
<1>4. LastExpiry = ping_frequency + Moved
  BY <1>2 DEF LastExpiry, Moved
<1>5. prompt => accepted + Latency >= LastExpiry
  BY <1>1, <1>2, <1>3, <1>4, TimerNumbers
<1>6. PromptPeerKept'
  BY <1>1, <1>5 DEF PromptPeerKept, LastExpiry, retry_interval
<1>7. TypeOK'
  BY <1>1 DEF TypeOK
<1> QED
  BY <1>1, <1>6, <1>7 DEF ExpiryNear, PongsAnswer, PingsCounted, NotStarted

\* Time passes, up to the expiry of a timer that runs.
LEMMA TimerTick == TimerInv /\ Tick => TimerInv'
<1> SUFFICES ASSUME TimerInv, Tick PROVE TimerInv'
  OBVIOUS
<1> USE DEF TimerInv
<1>1. /\ TypeOK /\ UNCHANGED <<user, accepted, expires_at, pong_received, retries, prompt, pinged, heard>>
      /\ now' = now + 1 /\ now < MaxTime
  BY DEF Tick
<1>2. Moved' = Moved
  BY <1>1 DEF Moved, retry_interval
<1>3. user = "on" => now < expires_at
  BY <1>1, TimerNumbers DEF Tick, Expired
<1>4. user = "on" /\ prompt /\ pinged # -1 => now < pinged + Latency
  BY DEF Tick
<1>5. TypeOK'
  BY <1>1, TimerNumbers DEF TypeOK
<1>6. ExpiryNear'
  BY <1>1, <1>3, TimerNumbers DEF ExpiryNear
<1>7. PongsAnswer' /\ NotStarted'
  BY <1>1, <1>2 DEF PongsAnswer, NotStarted
<1>8. PingsCounted'
  BY <1>1, <1>2, <1>4, TimerNumbers DEF PingsCounted
<1>9. PromptPeerKept'
  BY <1>1 DEF PromptPeerKept, LastExpiry, retry_interval
<1> QED
  BY <1>5, <1>6, <1>7, <1>8, <1>9

\* The next expiry, or the time at which the client came, bounds the silence.
LEMMA TimerSafe == TimerInv => OnlySilentTimedOut
<1> SUFFICES ASSUME TimerInv, user = "on" PROVE now <= heard + ping_frequency + LastExpiry
  BY DEF TimerInv, OnlySilentTimedOut, SilenceBounded
<1>1. TypeOK
  BY DEF TimerInv
<1>2. now <= expires_at \/ now = accepted
  BY DEF TimerInv, ExpiryNear
<1>3. expires_at <= heard + ping_frequency + ping_frequency + Moved
  BY <1>1, TimerNumbers DEF TimerInv, PongsAnswer
<1>4. LastExpiry = ping_frequency + ping_retry_max * retry_interval
  BY DEF LastExpiry
<1> QED
  BY <1>1, <1>2, <1>3, <1>4, TimerNumbers

(***************************************************************************)
(* A client that answers in time is kept, unless it came after the retries *)
(* of the timer that was set before it, and one that is silent is not kept *)
(* for longer than the timer's intervals add up to: for any frequency,     *)
(* number of retries and latency, whatever the order of pongs and          *)
(* expiries.                                                               *)
(***************************************************************************)
THEOREM TimerTheorem == Spec => []OnlySilentTimedOut
<1>1. Init => TimerInv
  BY TimerInit
<1>2. TimerInv /\ [Next]_vars => TimerInv'
  <2> SUFFICES ASSUME TimerInv, [Next]_vars PROVE TimerInv'
    OBVIOUS
  <2>1. CASE Next
    BY <2>1, TimerStart, TimerPong, TimerExpiry, TimerTimeout, TimerTick DEF Next
  <2>2. CASE UNCHANGED vars
    BY <2>2 DEF vars, TimerInv, TypeOK, PromptPeerKept, LastExpiry, ExpiryNear, PongsAnswer, PingsCounted, NotStarted, Moved
  <2> QED
    BY <2>1, <2>2
<1>3. TimerInv => OnlySilentTimedOut
  BY TimerSafe
<1> QED
  BY <1>1, <1>2, <1>3, PTL DEF Spec

-----------------------------------------------------------------------------
(***************************************************************************)
(* The counters of easylogging++.                                          *)
(***************************************************************************)

\* Quotient and remainder.
LEMMA Remainder ==
  ASSUME NEW a \in Nat, NEW n \in Nat \ {0}
  PROVE  \E q \in Int, r \in Nat : r < n /\ a % n = r /\ a = n * q + r
<1>1. a % n \in 0..(n - 1)
  OBVIOUS
<1>2. a \div n \in Int
  OBVIOUS
<1>3. a = n * (a \div n) + (a % n)
  BY <1>1, <1>2
<1> WITNESS a \div n \in Int, a % n \in Nat
<1> QED
  BY <1>1, <1>3

\* The remainder is what is left.
LEMMA RemainderIs ==
  ASSUME NEW q \in Int, NEW r \in Nat, NEW n \in Nat \ {0}, r < n
  PROVE  (n * q + r) % n = r
  OBVIOUS

\* Numbers with one remainder have one remainder when they are counted on.
LEMMA CountedOn ==
  ASSUME NEW a \in Nat, NEW b \in Nat, NEW n \in Nat \ {0}, a % n = b % n
  PROVE  (a + 1) % n = (b + 1) % n
<1>1. PICK q \in Int, r \in Nat : r < n /\ a % n = r /\ a = n * q + r
  BY Remainder
<1>2. PICK p \in Int : b = n * p + r
  <2>1. PICK p \in Int, t \in Nat : t < n /\ b % n = t /\ b = n * p + t
    BY Remainder
  <2>2. t = r
    BY <1>1, <2>1
  <2> QED
    BY <2>1, <2>2
<1>3. CASE r + 1 < n
  <2>1. a + 1 = n * q + (r + 1) /\ b + 1 = n * p + (r + 1)
    BY <1>1, <1>2
  <2>2. (n * q + (r + 1)) % n = r + 1
    BY <1>3, RemainderIs
  <2>3. (n * p + (r + 1)) % n = r + 1
    BY <1>3, RemainderIs
  <2> QED
    BY <2>1, <2>2, <2>3
<1>4. CASE r + 1 = n
  <2>1. a + 1 = n * (q + 1) + 0 /\ b + 1 = n * (p + 1) + 0
    BY <1>1, <1>2, <1>4
  <2>2. (n * (q + 1) + 0) % n = 0
    BY RemainderIs
  <2>3. (n * (p + 1) + 0) % n = 0
    BY RemainderIs
  <2> QED
    BY <2>1, <2>2, <2>3
<1> QED
  BY <1>1, <1>3, <1>4

\* What a counter is.
Counters == [file : {s.file : s \in Statements}, line : {s.line : s \in Statements}, hitCounts : Nat]

CountersType ==
  /\ counters \in Seq(Counters)
  /\ hits \in [Statements -> Nat] /\ logged \in [Statements -> BOOLEAN]

\* The i-th counter is the statement's.
IsOf(i, s) == counters[i].file = s.file /\ counters[i].line = s.line

\* No place has two counters.
OneOnAPlace ==
  \A i, j \in 1..Len(counters) :
    counters[i].file = counters[j].file /\ counters[i].line = counters[j].line => i = j

\* What the counter of a statement says of how often it was run.
Agrees(s, count, h) ==
  /\ s.kind = "every" /\ 1 <= s.n /\ s.n <= kMaxLogPerCounter => count <= kMaxLogPerCounter /\ count % s.n = h % s.n
  /\ s.kind = "after" => count = IF h >= s.n THEN s.n ELSE h
  /\ s.kind = "times" => count = h

\* A statement that was run has a counter that agrees, and the others have none.
Counted ==
  \A s \in Statements :
    \/ hits[s] = 0 /\ \A i \in 1..Len(counters) : ~IsOf(i, s)
    \/ \E i \in 1..Len(counters) : IsOf(i, s) /\ Agrees(s, counters[i].hitCounts, hits[s])

HInv == CountersType /\ OneOnAPlace /\ Counted /\ LoggedWhenDue

\* Of the places that fit, which are one or none, the first is taken.
LEMMA PlaceFound ==
  ASSUME HInv, NEW s \in Statements
  PROVE  \/ PlaceOf(s) = 0 /\ \A i \in 1..Len(counters) : ~IsOf(i, s)
         \/ PlaceOf(s) \in 1..Len(counters) /\ IsOf(PlaceOf(s), s)
<1> DEFINE I == {i \in 1..Len(counters) : counters[i].file = s.file /\ counters[i].line = s.line}
<1>1. PlaceOf(s) = IF I # {} THEN Min(I) ELSE 0
  BY DEF PlaceOf, SelectInSeq
<1>2. CASE I = {}
  BY <1>1, <1>2 DEF IsOf
<1>3. CASE I # {}
  <2>1. PICK i \in 1..Len(counters) : IsOf(i, s)
    BY <1>3 DEF IsOf
  <2>2. I = {i}
    BY <2>1 DEF IsOf, HInv, OneOnAPlace
  <2>3. Min({i}) = i
    <3>1. \A y \in {i} : i <= y
      OBVIOUS
    <3> QED
      BY <3>1 DEF Min
  <2> QED
    BY <1>1, <2>1, <2>2, <2>3
<1> QED
  BY <1>2, <1>3

\* The counter a statement uses, which may be a new one; and the others.
LEMMA CounterUsed ==
  ASSUME HInv, NEW s \in Statements
  PROVE  /\ Registered(s) \in Seq(Counters) /\ Its(s) \in 1..Len(Registered(s))
         /\ Registered(s)[Its(s)].file = s.file /\ Registered(s)[Its(s)].line = s.line
         /\ Agrees(s, Before(s), hits[s]) /\ Before(s) \in Nat
         /\ \A i \in 1..Len(Registered(s)) :
              i # Its(s) => i \in 1..Len(counters) /\ Registered(s)[i] = counters[i] /\ ~IsOf(i, s)
         /\ \A i \in 1..Len(counters) : i \in 1..Len(Registered(s)) /\ (~IsOf(i, s) => i # Its(s))
<1> USE DEF HInv
<1>1. counters \in Seq(Counters) /\ Len(counters) \in Nat /\ hits[s] \in Nat /\ s.n \in Nat
  BY LenProperties, CountsAssumption DEF CountersType
<1>2. CASE PlaceOf(s) = 0 /\ \A i \in 1..Len(counters) : ~IsOf(i, s)
  <2>1. PICK e \in Counters : e = [file |-> s.file, line |-> s.line, hitCounts |-> 0]
    BY DEF Counters
  <2>2. Registered(s) = Append(counters, e) /\ Its(s) = Len(counters) + 1
    BY <1>2, <2>1 DEF Registered, Its
  <2>3. /\ Registered(s) \in Seq(Counters) /\ Len(Registered(s)) = Len(counters) + 1
        /\ Registered(s)[Len(counters) + 1] = e /\ \A i \in 1..Len(counters) : Registered(s)[i] = counters[i]
    BY <1>1, <2>2, AppendProperties
  <2>4. Before(s) = 0
    BY <2>1, <2>2, <2>3 DEF Before
  <2>5. hits[s] = 0
    BY <1>2 DEF Counted
  <2>6. Agrees(s, 0, 0)
    BY <1>1, CountsAssumption DEF Agrees
  <2>7. \A i \in 1..Len(Registered(s)) : i # Its(s) => i \in 1..Len(counters)
    BY <1>1, <2>2, <2>3
  <2>8. \A i \in 1..Len(counters) : i \in 1..Len(Registered(s)) /\ i # Its(s)
    BY <1>1, <2>2, <2>3
  <2>9. Its(s) \in 1..Len(Registered(s))
    BY <1>1, <2>2, <2>3
  <2> QED
    BY <1>2, <2>1, <2>2, <2>3, <2>4, <2>5, <2>6, <2>7, <2>8, <2>9
<1>3. CASE PlaceOf(s) \in 1..Len(counters) /\ IsOf(PlaceOf(s), s)
  <2>1. Registered(s) = counters /\ Its(s) = PlaceOf(s)
    BY <1>1, <1>3 DEF Registered, Its
  <2>2. PICK i \in 1..Len(counters) : IsOf(i, s) /\ Agrees(s, counters[i].hitCounts, hits[s])
    BY <1>3 DEF Counted
  <2>3. i = PlaceOf(s)
    BY <1>3, <2>2 DEF IsOf, OneOnAPlace
  <2>4. counters[i].hitCounts \in Nat
    <3>1. counters[i] \in Counters
      BY <1>1
    <3> QED
      BY <3>1 DEF Counters
  <2>5. \A j \in 1..Len(counters) : j # PlaceOf(s) => ~IsOf(j, s)
    BY <1>3 DEF IsOf, OneOnAPlace
  <2> QED
    BY <1>1, <1>3, <2>1, <2>2, <2>3, <2>4, <2>5 DEF Before, IsOf
<1> QED
  BY <1>2, <1>3, PlaceFound

\* A run of a statement that counts and logs as it should.
LEMMA RunCounts ==
  ASSUME HInv, NEW s \in Statements, NEW count \in Nat, NEW logs \in BOOLEAN, Run(s, count, logs),
         Agrees(s, count, hits[s] + 1),
         s.n <= kMaxLogPerCounter => logs = Due(s)'
  PROVE  HInv'
<1> USE DEF HInv
<1>1. PICK R \in Seq(Counters) : R = Registered(s)
  BY CounterUsed
<1>2. PICK k \in 1..Len(R) : k = Its(s)
  BY <1>1, CounterUsed
<1>3. /\ R[k].file = s.file /\ R[k].line = s.line
      /\ \A i \in 1..Len(R) : i # k => i \in 1..Len(counters) /\ R[i] = counters[i] /\ ~IsOf(i, s)
      /\ \A i \in 1..Len(counters) : i \in 1..Len(R) /\ (~IsOf(i, s) => i # k)
  BY <1>1, <1>2, CounterUsed
<1>4. /\ counters' = [R EXCEPT ![k].hitCounts = count]
      /\ hits' = [hits EXCEPT ![s] = @ + 1] /\ logged' = [logged EXCEPT ![s] = logs]
  BY <1>1, <1>2 DEF Run
<1>5. /\ counters' \in Seq(Counters) /\ Len(counters') = Len(R)
      /\ counters'[k].file = s.file /\ counters'[k].line = s.line /\ counters'[k].hitCounts = count
      /\ \A i \in 1..Len(R) : i # k => counters'[i] = R[i]
  <2>1. R[k] \in Counters
    OBVIOUS
  <2>2. PICK e \in Counters : e = [R[k] EXCEPT !.hitCounts = count]
    BY <2>1 DEF Counters
  <2>3. e.file = s.file /\ e.line = s.line /\ e.hitCounts = count
    BY <1>3, <2>1, <2>2 DEF Counters
  <2>4. counters' = [R EXCEPT ![k] = e]
    BY <1>4, <2>2
  <2>5. counters' \in Seq(Counters) /\ Len(counters') = Len(R)
    BY <2>4, ExceptSeq
  <2> QED
    BY <2>3, <2>4, <2>5
<1>6. CountersType'
  BY <1>4, <1>5 DEF CountersType
<1>7. OneOnAPlace'
  <2>1. \A i \in 1..Len(R) : i # k => ~(counters'[i].file = s.file /\ counters'[i].line = s.line)
    BY <1>3, <1>5 DEF IsOf
  <2>2. \A i, j \in 1..Len(R) : i # k /\ j # k /\ counters'[i].file = counters'[j].file
                                 /\ counters'[i].line = counters'[j].line => i = j
    BY <1>3, <1>5 DEF OneOnAPlace
  <2> QED
    BY <1>5, <2>1, <2>2 DEF OneOnAPlace
<1>8. hits'[s] = hits[s] + 1 /\ hits[s] \in Nat /\ \A t \in Statements : t # s => hits'[t] = hits[t] /\ logged'[t] = logged[t]
  BY <1>4 DEF CountersType
<1>9. Counted'
  <2> SUFFICES ASSUME NEW t \in Statements
               PROVE  \/ hits'[t] = 0 /\ \A i \in 1..Len(counters') : ~(counters'[i].file = t.file /\ counters'[i].line = t.line)
                      \/ \E i \in 1..Len(counters') : /\ counters'[i].file = t.file /\ counters'[i].line = t.line
                                                       /\ Agrees(t, counters'[i].hitCounts, hits'[t])
    BY DEF Counted, IsOf, Agrees
  <2>1. CASE t = s
    BY <1>5, <1>8, <2>1
  <2>2. CASE t # s
    <3>1. ~(t.file = s.file /\ t.line = s.line)
      BY <2>2, OneOnALine
    <3>2. CASE hits[t] = 0 /\ \A i \in 1..Len(counters) : ~IsOf(i, t)
      <4>1. hits'[t] = 0
        BY <1>8, <2>2, <3>2
      <4>2. \A i \in 1..Len(R) : ~(counters'[i].file = t.file /\ counters'[i].line = t.line)
        <5> SUFFICES ASSUME NEW i \in 1..Len(R) PROVE ~(counters'[i].file = t.file /\ counters'[i].line = t.line)
          OBVIOUS
        <5>1. CASE i = k
          BY <1>5, <3>1, <5>1
        <5>2. CASE i # k
          BY <1>3, <1>5, <3>2, <5>2 DEF IsOf
        <5> QED
          BY <5>1, <5>2
      <4> QED
        BY <1>5, <4>1, <4>2
    <3>3. CASE \E i \in 1..Len(counters) : IsOf(i, t) /\ Agrees(t, counters[i].hitCounts, hits[t])
      <4>1. PICK i \in 1..Len(counters) : IsOf(i, t) /\ Agrees(t, counters[i].hitCounts, hits[t])
        BY <3>3
      <4>2. ~IsOf(i, s)
        BY <3>1, <4>1 DEF IsOf
      <4>3. i \in 1..Len(counters') /\ counters'[i] = counters[i]
        BY <1>3, <1>5, <4>2
      <4> QED
        BY <1>8, <2>2, <4>1, <4>3 DEF IsOf
    <3> QED
      BY <3>2, <3>3 DEF Counted
  <2> QED
    BY <2>1, <2>2
<1>10. LoggedWhenDue'
  <2> SUFFICES ASSUME NEW t \in Statements, hits'[t] > 0, t.n <= kMaxLogPerCounter
               PROVE  logged'[t] = Due(t)'
    BY DEF LoggedWhenDue
  <2>1. CASE t = s
    BY <1>4, <2>1 DEF CountersType
  <2>2. CASE t # s
    <3>1. logged[t] = Due(t) /\ logged'[t] = logged[t]
      BY <1>8, <2>2 DEF LoggedWhenDue
    <3>2. Due(t)' <=> Due(t)
      BY <1>8, <2>2 DEF Due
    <3> QED
      BY <3>1, <3>2 DEF Due
  <2> QED
    BY <2>1, <2>2
<1> QED
  BY <1>6, <1>7, <1>9, <1>10

\* LOG_EVERY_N: a counter that starts again goes on with the remainder.
LEMMA EveryStep ==
  ASSUME HInv, NEW s \in Statements, validateEveryN(s)
  PROVE  HInv'
<1>1. PICK b \in Nat : b = Before(s) /\ Agrees(s, b, hits[s])
  BY CounterUsed
<1>2. hits[s] \in Nat /\ s.n \in Nat /\ kMaxLogPerCounter \in Nat /\ hits' = [hits EXCEPT ![s] = @ + 1]
  BY CountsAssumption DEF HInv, CountersType, validateEveryN, Run
<1>3. hits'[s] = hits[s] + 1
  BY <1>2 DEF HInv, CountersType
<1>4. PICK count \in Nat : count = validateHitCounts(b, s.n)
  <2>1. s.n >= 1 => kMaxLogPerCounter % s.n \in Nat
    <3>1. ASSUME s.n >= 1 PROVE kMaxLogPerCounter % s.n \in Nat
      <4>1. s.n \in Nat \ {0}
        BY <1>2, <3>1
      <4> QED
        BY <1>2, <4>1, Remainder
    <3> QED
      BY <3>1
  <2>2. validateHitCounts(b, s.n) \in Nat
    BY <1>2, <2>1 DEF validateHitCounts
  <2> QED
    BY <2>2
<1>5. PICK logs \in BOOLEAN : logs <=> s.n >= 1 /\ count # 0 /\ count % s.n = 0
  OBVIOUS
<1>6. s.kind = "every" /\ Run(s, count, logs)
  <2>1. (s.n >= 1 /\ count # 0 /\ count % s.n = 0) = logs
    BY <1>5
  <2> QED
    BY <1>1, <1>4, <2>1 DEF validateEveryN
<1>7. ASSUME s.n >= 1, s.n <= kMaxLogPerCounter
      PROVE  count <= kMaxLogPerCounter /\ count # 0 /\ count % s.n = (hits[s] + 1) % s.n
  <2>1. s.n \in Nat \ {0} /\ b <= kMaxLogPerCounter /\ b % s.n = hits[s] % s.n
    BY <1>1, <1>2, <1>6, <1>7 DEF Agrees
  <2>2. (b + 1) % s.n = (hits[s] + 1) % s.n
    BY <1>2, <2>1, CountedOn
  <2>3. CASE b < kMaxLogPerCounter
    <3>1. count = b + 1
      BY <1>2, <1>4, <2>3 DEF validateHitCounts
    <3> QED
      BY <1>2, <2>2, <2>3, <3>1
  <2>4. CASE b = kMaxLogPerCounter
    <3>1. PICK q \in Int, r \in Nat : r < s.n /\ kMaxLogPerCounter % s.n = r /\ kMaxLogPerCounter = s.n * q + r
      BY <1>2, <2>1, Remainder
    <3>2. count = r + 1
      BY <1>2, <1>4, <1>7, <2>4, <3>1 DEF validateHitCounts
    <3>3. r % s.n = b % s.n
      <4>1. (s.n * 0 + r) % s.n = r
        BY <2>1, <3>1, RemainderIs
      <4>2. s.n * 0 + r = r
        BY <2>1
      <4> QED
        BY <2>4, <3>1, <4>1, <4>2
    <3>4. (r + 1) % s.n = (b + 1) % s.n
      BY <2>1, <3>3, CountedOn
    <3>5. count <= kMaxLogPerCounter
      BY <1>2, <1>7, <3>1, <3>2
    <3>6. count # 0
      BY <3>2
    <3> QED
      BY <2>2, <3>2, <3>4, <3>5, <3>6
  <2> QED
    BY <1>2, <2>1, <2>3, <2>4
<1>8. Agrees(s, count, hits[s] + 1)
  BY <1>6, <1>7 DEF Agrees
<1>9. ASSUME s.n <= kMaxLogPerCounter PROVE logs = Due(s)'
  <2>1. Due(s)' <=> s.n >= 1 /\ (hits[s] + 1) % s.n = 0
    BY <1>3, <1>6 DEF Due
  <2>2. logs <=> Due(s)'
    BY <1>5, <1>7, <1>9, <2>1
  <2> QED
    BY <2>2 DEF Due
<1> QED
  BY <1>6, <1>8, <1>9, RunCounts

\* LOG_AFTER_N and LOG_N_TIMES.
LEMMA CountStep ==
  ASSUME HInv, NEW s \in Statements, validateAfterN(s) \/ validateNTimes(s)
  PROVE  HInv'
<1>1. PICK b \in Nat : b = Before(s) /\ Agrees(s, b, hits[s])
  BY CounterUsed
<1>2. hits[s] \in Nat /\ s.n \in Nat /\ hits' = [hits EXCEPT ![s] = @ + 1]
  BY CountsAssumption DEF HInv, CountersType, validateAfterN, validateNTimes, Run
<1>3. hits'[s] = hits[s] + 1
  BY <1>2 DEF HInv, CountersType
<1>4. CASE validateAfterN(s)
  <2>1. PICK count \in Nat : count = IF b >= s.n THEN b ELSE b + 1
    OBVIOUS
  <2>2. PICK logs \in BOOLEAN : logs <=> b >= s.n
    OBVIOUS
  <2>3. s.kind = "after" /\ Run(s, count, logs)
    <3>1. (b >= s.n) = logs
      BY <2>2
    <3> QED
      BY <1>1, <1>4, <2>1, <3>1 DEF validateAfterN
  <2>4. b = IF hits[s] >= s.n THEN s.n ELSE hits[s]
    BY <1>1, <2>3 DEF Agrees
  <2>5. count = IF hits[s] + 1 >= s.n THEN s.n ELSE hits[s] + 1
    BY <1>2, <2>1, <2>4
  <2>6. Agrees(s, count, hits[s] + 1)
    BY <2>3, <2>5 DEF Agrees
  <2>7. logs <=> hits[s] + 1 > s.n
    BY <1>2, <2>2, <2>4
  <2>8. logs <=> Due(s)'
    BY <1>3, <2>3, <2>7 DEF Due
  <2>9. logs = Due(s)'
    BY <2>8 DEF Due
  <2> QED
    BY <2>3, <2>6, <2>9, RunCounts
<1>5. CASE validateNTimes(s)
  <2>1. PICK logs \in BOOLEAN : logs <=> b + 1 <= s.n
    OBVIOUS
  <2>2. s.kind = "times" /\ Run(s, b + 1, logs)
    <3>1. (b + 1 <= s.n) = logs
      BY <2>1
    <3> QED
      BY <1>1, <1>5, <3>1 DEF validateNTimes
  <2>3. b = hits[s] /\ b + 1 \in Nat
    BY <1>1, <2>2 DEF Agrees
  <2>4. Agrees(s, b + 1, hits[s] + 1)
    BY <2>2, <2>3 DEF Agrees
  <2>5. logs <=> Due(s)'
    BY <1>3, <2>1, <2>2, <2>3 DEF Due
  <2>6. logs = Due(s)'
    BY <2>5 DEF Due
  <2> QED
    BY <2>2, <2>3, <2>4, <2>6, RunCounts
<1> QED
  BY <1>4, <1>5

(***************************************************************************)
(* A statement logs when it is due, whatever other statements run between  *)
(* its runs and however often its counter starts again: for any statements *)
(* and any limit of the counters, and n up to that limit.                  *)
(***************************************************************************)
THEOREM CountersTheorem == HInit /\ [][HNext]_hvars => []LoggedWhenDue
<1>1. HInit => HInv
  <2> SUFFICES ASSUME HInit PROVE HInv
    OBVIOUS
  <2>1. CountersType
    BY EmptySeq DEF HInit, CountersType
  <2>2. Len(counters) = 0 /\ \A s \in Statements : hits[s] = 0
    BY DEF HInit
  <2> QED
    BY <2>1, <2>2 DEF HInv, OneOnAPlace, Counted, LoggedWhenDue
<1>2. HInv /\ [HNext]_hvars => HInv'
  <2> SUFFICES ASSUME HInv, [HNext]_hvars PROVE HInv'
    OBVIOUS
  <2>1. CASE HNext
    BY <2>1, EveryStep, CountStep DEF HNext
  <2>2. CASE UNCHANGED hvars
    BY <2>2 DEF hvars, HInv, CountersType, OneOnAPlace, Counted, IsOf, LoggedWhenDue, Due
  <2> QED
    BY <2>1, <2>2
<1>3. HInv => LoggedWhenDue
  BY DEF HInv
<1> QED
  BY <1>1, <1>2, <1>3, PTL

-----------------------------------------------------------------------------
(***************************************************************************)
(* chat_message as an object.                                              *)
(***************************************************************************)

\* Strings, of the characters of those that are given to messages.
Strings == Seq(UNION {Range(s) : s \in Texts})
Types == {"text", "command", "status", "unknown"}
FieldsOf == [source : Strings, target : Strings, content : Strings, type : Types]

MessagesType ==
  /\ object \in [Objects -> [fields : FieldsOf, cached : BOOLEAN]]
  /\ asked \in [Objects -> [fields : FieldsOf, fill : Nat]]
  /\ fills \in Nat

\* Content set with the object is cut to its limit, and what set_content was given to the
\* limit of names.
CutFields(kept, given_fields) ==
  /\ CutTo(kept.source, given_fields.source, NameLimit)
  /\ CutTo(kept.target, given_fields.target, NameLimit)
  /\ \/ CutTo(kept.content, given_fields.content, TextLimit)
     \/ CutTo(kept.content, given_fields.content, NameLimit)
  /\ kept.type = given_fields.type

\* An object has what it was last given, cut.
FieldsKept == \A o \in Objects : CutFields(object[o].fields, asked[o].fields)

\* An object whose fill was the last, and was made from what it has now, finds it in the
\* static strings.
FillIsOwn ==
  \A o \in Objects :
    /\ asked[o].fill <= fills
    /\ object[o].cached /\ asked[o].fill = fills => statics = serialize_chat_message(object[o].fields)

ObjectsInv == MessagesType /\ FieldsKept /\ FillIsOwn /\ DecodedAsSet

\* What a string is cut to.
LEMMA Truncated ==
  ASSUME NEW S, NEW s \in Seq(S), NEW size \in Nat
  PROVE  truncated(s, size) \in Seq(S) /\ CutTo(truncated(s, size), s, size)
<1>1. CASE Len(s) > size
  <2>1. truncated(s, size) = SubSeq(s, 1, size)
    BY <1>1 DEF truncated
  <2>2. SubSeq(s, 1, size) \in Seq(S) /\ Len(SubSeq(s, 1, size)) = size
    BY <1>1
  <2>3. SubSeq(SubSeq(s, 1, size), 1, size) = SubSeq(s, 1, size)
    BY <1>1, <2>2
  <2> QED
    BY <1>1, <2>1, <2>2, <2>3 DEF CutTo, IsPrefix
<1>2. CASE ~(Len(s) > size)
  BY <1>2 DEF truncated, CutTo, IsPrefix
<1> QED
  BY <1>1, <1>2

\* The archive gives back the fields.
LEMMA ReadAsWritten ==
  ASSUME NEW fields \in FieldsOf
  PROVE  deserialize_chat_message(serialize_chat_message(fields)) = fields
<1>1. ASSUME NEW t \in Types
      PROVE  ChatTypes[SelectInSeq(ChatTypes, LAMBDA u : u = t)] = t
  <2> DEFINE I == {i \in 1..Len(ChatTypes) : ChatTypes[i] = t}
  <2>1. SelectInSeq(ChatTypes, LAMBDA u : u = t) = IF I # {} THEN Min(I) ELSE 0
    BY DEF SelectInSeq
  <2>2. PICK i \in 1..4 : ChatTypes[i] = t /\ I = {i}
    BY DEF ChatTypes, Types
  <2>3. Min({i}) = i
    <3>1. \A y \in {i} : i <= y
      OBVIOUS
    <3> QED
      BY <3>1 DEF Min
  <2> QED
    BY <2>1, <2>2, <2>3
<1>2. fields.type \in Types /\ fields = [type |-> fields.type, source |-> fields.source, target |-> fields.target, content |-> fields.content]
  BY DEF FieldsOf
<1> QED
  BY <1>1, <1>2 DEF serialize_chat_message, deserialize_chat_message

\* Names of types.
LEMMA TypeNames == \A t \in Types : to_string(t) = t
  BY DEF Types, to_string, to_int

\* A message gets new fields, and its buffers are to be made again.
LEMMA NewFields ==
  ASSUME ObjectsInv, NEW o \in Objects, NEW kept \in FieldsOf, NEW given_fields \in FieldsOf, NEW fill \in Nat, fill <= fills,
         CutFields(kept, given_fields),
         object' = [object EXCEPT ![o] = [fields |-> kept, cached |-> FALSE]],
         asked' = [asked EXCEPT ![o] = [fields |-> given_fields, fill |-> fill]],
         UNCHANGED <<statics, fills, output>>
  PROVE  ObjectsInv'
<1> USE DEF ObjectsInv
<1>1. /\ object'[o].fields = kept /\ ~object'[o].cached /\ asked'[o].fields = given_fields /\ asked'[o].fill = fill
      /\ \A p \in Objects : p # o => object'[p] = object[p] /\ asked'[p] = asked[p]
  BY DEF MessagesType
<1>2. MessagesType'
  BY DEF MessagesType
<1>3. FieldsKept'
  BY <1>1 DEF FieldsKept
<1>4. FillIsOwn'
  BY <1>1 DEF FillIsOwn
<1>5. DecodedAsSet'
  BY DEF DecodedAsSet
<1> QED
  BY <1>2, <1>3, <1>4, <1>5

\* The constructor.
LEMMA ConstructStep ==
  ASSUME ObjectsInv, NEW o \in Objects, NEW s \in Texts, NEW type \in Range(ChatTypes), Construct(o, s, s, s, type)
  PROVE  ObjectsInv'
<1>1. type \in Types /\ s \in Strings
  BY TextsAssumption DEF Range, ChatTypes, Types, Strings
<1>2. PICK name_kept \in Strings : name_kept = truncated(s, NameLimit) /\ CutTo(name_kept, s, NameLimit)
  BY <1>1, Truncated, LimitsAssumption DEF Strings
<1>3. PICK text_kept \in Strings : text_kept = truncated(s, TextLimit) /\ CutTo(text_kept, s, TextLimit)
  BY <1>1, Truncated, LimitsAssumption DEF Strings
<1>4. PICK kept \in FieldsOf : kept = [source |-> name_kept, target |-> name_kept, content |-> text_kept, type |-> type]
  BY <1>1 DEF FieldsOf
<1>5. PICK g \in FieldsOf : g = [source |-> s, target |-> s, content |-> s, type |-> type]
  BY <1>1 DEF FieldsOf
<1>6. CutFields(kept, g)
  BY <1>2, <1>3, <1>4, <1>5 DEF CutFields
<1>7. /\ object' = [object EXCEPT ![o] = [fields |-> kept, cached |-> FALSE]]
      /\ asked' = [asked EXCEPT ![o] = [fields |-> g, fill |-> 0]]
      /\ UNCHANGED <<statics, fills, output>>
  BY <1>2, <1>3, <1>4, <1>5 DEF Construct, Chat, Fields
<1>8. 0 <= fills
  BY DEF ObjectsInv, MessagesType
<1> QED
  BY <1>6, <1>7, <1>8, NewFields

\* The setters, which leave the other fields.
LEMMA SetStep ==
  ASSUME ObjectsInv, NEW o \in Objects, NEW s \in Texts, NEW field \in {"source", "target", "content"}, SetField(o, field, s)
  PROVE  ObjectsInv'
<1>1. s \in Strings
  BY TextsAssumption DEF Strings
<1>2. PICK name_kept \in Strings : name_kept = truncated(s, NameLimit) /\ CutTo(name_kept, s, NameLimit)
  BY <1>1, Truncated, LimitsAssumption DEF Strings
<1>3. PICK before \in FieldsOf : before = object[o].fields
  BY DEF ObjectsInv, MessagesType
<1>4. PICK g_before \in FieldsOf, fill \in Nat : g_before = asked[o].fields /\ fill = asked[o].fill /\ fill <= fills
  BY DEF ObjectsInv, MessagesType, FillIsOwn
<1>5. CutFields(before, g_before)
  BY <1>3, <1>4 DEF ObjectsInv, FieldsKept
<1>6. PICK kept \in FieldsOf : kept = [before EXCEPT ![field] = name_kept]
  BY DEF FieldsOf
<1>7. PICK g \in FieldsOf : g = [g_before EXCEPT ![field] = s]
  BY <1>1 DEF FieldsOf
<1>8. CutFields(kept, g)
  BY <1>2, <1>5, <1>6, <1>7 DEF CutFields, FieldsOf
<1>9. /\ object' = [object EXCEPT ![o] = [fields |-> kept, cached |-> FALSE]]
      /\ UNCHANGED <<statics, fills, output>>
  BY <1>2, <1>3, <1>6 DEF SetField, set_, Chat, ObjectsInv, MessagesType
<1>10. asked' = [asked EXCEPT ![o] = [fields |-> g, fill |-> fill]]
  <2>1. asked' = [asked EXCEPT ![o].fields[field] = s]
    BY DEF SetField, set_
  <2>2. asked[o] \in [fields : FieldsOf, fill : Nat]
    BY DEF ObjectsInv, MessagesType
  <2>3. [asked[o] EXCEPT !.fields[field] = s] = [fields |-> g, fill |-> fill]
    BY <1>4, <1>7, <2>2
  <2> QED
    BY <2>1, <2>3 DEF ObjectsInv, MessagesType
<1> QED
  BY <1>4, <1>8, <1>9, <1>10, NewFields

\* A copy remembers what the copied object does.
LEMMA CopyStep ==
  ASSUME ObjectsInv, NEW o \in Objects, NEW p \in Objects, CopyTo(o, p)
  PROVE  ObjectsInv'
<1> USE DEF ObjectsInv
<1>1. /\ object' = [object EXCEPT ![p] = object[o]] /\ asked' = [asked EXCEPT ![p] = asked[o]]
      /\ UNCHANGED <<statics, fills, output>>
  BY DEF CopyTo
<1>2. \A q \in Objects : \E r \in Objects : object'[q] = object[r] /\ asked'[q] = asked[r]
  BY <1>1 DEF MessagesType
<1>3. MessagesType'
  BY <1>1 DEF MessagesType
<1>4. FieldsKept'
  BY <1>2 DEF FieldsKept
<1>5. FillIsOwn'
  BY <1>1, <1>2 DEF FillIsOwn
<1>6. DecodedAsSet'
  BY <1>1 DEF DecodedAsSet
<1> QED
  BY <1>3, <1>4, <1>5, <1>6

\* What is sent is decoded to the fields of the object whose fill was the last.
LEMMA BuffersStep ==
  ASSUME ObjectsInv, NEW o \in Objects, generate_buffers(o)
  PROVE  ObjectsInv'
<1> USE DEF ObjectsInv
<1>1. object[o].fields \in FieldsOf /\ asked[o].fields \in FieldsOf /\ fills \in Nat
  BY DEF MessagesType
<1>2. /\ MessagesType' /\ FieldsKept' /\ FillIsOwn'
      /\ asked'[o].fill = fills' => statics' = serialize_chat_message(object[o].fields)
  <2>1. CASE object[o].cached
    <3>1. UNCHANGED <<object, statics, fills, asked>>
      BY <2>1 DEF generate_buffers
    <3>2. MessagesType' /\ FieldsKept'
      BY <3>1 DEF MessagesType, FieldsKept
    <3>3. FillIsOwn'
      BY <3>1 DEF FillIsOwn
    <3>4. asked'[o].fill = fills' => statics' = serialize_chat_message(object[o].fields)
      BY <2>1, <3>1 DEF FillIsOwn
    <3> QED
      BY <3>2, <3>3, <3>4
  <2>2. CASE ~object[o].cached
    <3>1. /\ statics' = serialize_chat_message(object[o].fields) /\ fills' = fills + 1
          /\ object' = [object EXCEPT ![o].cached = TRUE] /\ asked' = [asked EXCEPT ![o].fill = fills + 1]
      BY <2>2 DEF generate_buffers
    <3>2. /\ object'[o].fields = object[o].fields /\ asked'[o].fields = asked[o].fields /\ asked'[o].fill = fills + 1
          /\ \A p \in Objects : p # o => object'[p] = object[p] /\ asked'[p] = asked[p]
      BY <3>1 DEF MessagesType
    <3>3. MessagesType'
      <4>1. object[o] \in [fields : FieldsOf, cached : BOOLEAN] /\ asked[o] \in [fields : FieldsOf, fill : Nat]
        BY DEF MessagesType
      <4>2. PICK e \in [fields : FieldsOf, cached : BOOLEAN] : e = [object[o] EXCEPT !.cached = TRUE]
        BY <4>1
      <4>3. PICK a \in [fields : FieldsOf, fill : Nat] : a = [asked[o] EXCEPT !.fill = fills + 1]
        <5>1. fills + 1 \in Nat
          BY <1>1
        <5>2. [asked[o] EXCEPT !.fill = fills + 1] \in [fields : FieldsOf, fill : Nat]
          BY <4>1, <5>1
        <5> QED
          BY <5>2
      <4>4. object' = [object EXCEPT ![o] = e] /\ asked' = [asked EXCEPT ![o] = a]
        BY <3>1, <4>2, <4>3 DEF MessagesType
      <4>5. fills' \in Nat
        BY <1>1, <3>1
      <4> QED
        BY <4>4, <4>5 DEF MessagesType
    <3>4. FieldsKept'
      BY <3>2 DEF FieldsKept
    <3>5. FillIsOwn'
      <4> SUFFICES ASSUME NEW p \in Objects
                   PROVE  /\ asked'[p].fill <= fills'
                          /\ asked'[p].fill = fills' => statics' = serialize_chat_message(object'[p].fields)
        BY DEF FillIsOwn
      <4>1. CASE p = o
        BY <1>1, <3>1, <3>2, <4>1
      <4>2. CASE p # o
        <5>1. asked[p].fill <= fills /\ asked[p].fill \in Nat
          BY DEF FillIsOwn, MessagesType
        <5> QED
          BY <1>1, <3>1, <3>2, <4>2, <5>1
      <4> QED
        BY <4>1, <4>2
    <3> QED
      BY <3>1, <3>3, <3>4, <3>5
  <2> QED
    BY <2>1, <2>2
<1>3. /\ output'.of = asked[o].fields /\ (output'.own <=> asked'[o].fill = fills')
      /\ output'.decoded = deserialize_chat_message(statics')
  BY DEF generate_buffers
<1>4. DecodedAsSet'
  <2> SUFFICES ASSUME output'.own PROVE (CutFields(output.decoded, output.of) /\ to_string(output.decoded.type) = output.of.type)'
    BY DEF DecodedAsSet, CutFields
  <2>1. output'.decoded = object[o].fields
    BY <1>1, <1>2, <1>3, ReadAsWritten
  <2>2. CutFields(object[o].fields, asked[o].fields)
    BY DEF FieldsKept
  <2>3. to_string(object[o].fields.type) = asked[o].fields.type
    <3>1. asked[o].fields.type \in Types
      BY <1>1 DEF FieldsOf
    <3> QED
      BY <2>2, <3>1, TypeNames DEF CutFields
  <2>4. CutFields(output'.decoded, output'.of) /\ to_string(output'.decoded.type) = output'.of.type
    BY <1>3, <2>1, <2>2, <2>3
  <2> QED
    BY <2>4 DEF CutFields, CutTo, to_string, to_int
<1> QED
  BY <1>2, <1>4

(***************************************************************************)
(* The peer decodes a message as it was last set, each field cut to its    *)
(* limit, if no other message filled the static strings since they were    *)
(* filled for it: for any objects and any strings, and however they are    *)
(* set, copied and sent.                                                   *)
(***************************************************************************)
THEOREM DecodedTheorem == OInit /\ [][ONext]_ovars => []DecodedAsSet
<1>1. OInit => ObjectsInv
  <2> SUFFICES ASSUME OInit PROVE ObjectsInv
    OBVIOUS
  <2>1. PICK f \in FieldsOf : f = NoFields
    <3>1. <<>> \in Strings
      BY EmptySeq DEF Strings
    <3>2. NoFields \in FieldsOf
      BY <3>1 DEF NoFields, Fields, FieldsOf, Types
    <3> QED
      BY <3>2
  <2>2. MessagesType
    BY <2>1 DEF OInit, MessagesType, Chat
  <2>3. CutFields(f, f)
    BY DEF CutFields, CutTo, IsPrefix, FieldsOf, Strings
  <2>4. FieldsKept /\ FillIsOwn
    BY <2>1, <2>3 DEF OInit, FieldsKept, FillIsOwn, Chat
  <2>5. DecodedAsSet
    BY DEF OInit, DecodedAsSet
  <2> QED
    BY <2>2, <2>4, <2>5 DEF ObjectsInv
<1>2. ObjectsInv /\ [ONext]_ovars => ObjectsInv'
  <2> SUFFICES ASSUME ObjectsInv, [ONext]_ovars PROVE ObjectsInv'
    OBVIOUS
  <2>1. CASE ONext
    BY <2>1, ConstructStep, SetStep, CopyStep, BuffersStep DEF ONext
  <2>2. CASE UNCHANGED ovars
    BY <2>2 DEF ovars, ObjectsInv, MessagesType, FieldsKept, FillIsOwn, DecodedAsSet
  <2> QED
    BY <2>1, <2>2
<1>3. ObjectsInv => DecodedAsSet
  BY DEF ObjectsInv
<1> QED
  BY <1>1, <1>2, <1>3, PTL

(***************************************************************************)
(* The class message.                                                      *)
(***************************************************************************)

\* What may be in a buffer, and what is in a target.
NameBytes == (UNION {Range(s) : s \in Targets}) \cup {"-"}
Bytes == (UNION {Range(s) : s \in Contents}) \cup NameBytes \cup {NUL, "old"}
Bodies == [1..BodySize -> Bytes]
MessageObjects == [header : MessageTypes \X Nat, type : MessageTypes, size : Nat, body : Bodies]

MessageType ==
  /\ stage \in {"making", "sent", "decoded", "read", "thrown"}
  /\ sent_msg \in MessageObjects /\ received \in MessageObjects

\* What the sender's buffer has: content and target at their places; behind a target of one
\* character is a zero.
HoldsGiven(body, n) ==
  /\ n = Len(given.content)
  /\ given.content \in Seq(Bytes) /\ Len(given.content) < max_length
  /\ given.target \in Seq(NameBytes \ {NUL}) /\ Len(given.target) < target_size /\ given.target # <<>>
  /\ \A i \in 1..Len(given.content) : body[target_size + i] = given.content[i]
  /\ \A i \in 1..Len(given.target) : body[i] = given.target[i]
  /\ Len(given.target) = 1 => body[2] = NUL

TypeRead(type) == IF type \in {"text", "command"} THEN type ELSE "unknown"

SentHolds ==
  stage \in {"sent", "decoded", "read"} =>
    sent_msg.header = <<given.type, Len(given.content)>> /\ HoldsGiven(sent_msg.body, Len(given.content))

HeaderDecoded == stage \in {"decoded", "read"} => received.type = TypeRead(given.type) /\ received.size = Len(given.content)

BodyRead == stage = "read" => HoldsGiven(received.body, received.size)

MsgInv == MessageType /\ SentHolds /\ HeaderDecoded /\ BodyRead

\* Copying replaces what is at the place, and nothing else.
LEMMA CopyInto ==
  ASSUME NEW body \in Bodies, NEW at \in Nat, NEW s \in Seq(Bytes), at + Len(s) <= BodySize
  PROVE  /\ Copied(body, at, s) \in Bodies
         /\ \A i \in 1..Len(s) : Copied(body, at, s)[at + i] = s[i]
         /\ \A i \in 1..BodySize : i <= at \/ i > at + Len(s) => Copied(body, at, s)[i] = body[i]
<1>1. Len(s) \in Nat /\ DOMAIN s = 1..Len(s) /\ \A i \in 1..Len(s) : s[i] \in Bytes
  BY LenProperties, ElementOfSeq
<1>2. BodySize \in Nat
  BY RoomAssumption DEF BodySize
<1>3. PICK c : c = Copied(body, at, s)
  OBVIOUS
<1>4. c = [i \in 1..BodySize |-> IF i - at \in 1..Len(s) THEN s[i - at] ELSE body[i]]
  BY <1>1, <1>3 DEF Copied
<1>5. c \in Bodies
  <2>1. ASSUME NEW i \in 1..BodySize PROVE c[i] \in Bytes
    BY <1>1, <1>4 DEF Bodies
  <2> QED
    BY <1>4, <2>1 DEF Bodies
<1>6. ASSUME NEW i \in 1..Len(s) PROVE c[at + i] = s[i]
  <2>1. at + i \in 1..BodySize /\ (at + i) - at = i
    BY <1>1, <1>2
  <2> QED
    BY <1>4, <2>1
<1>7. ASSUME NEW i \in 1..BodySize, i <= at \/ i > at + Len(s) PROVE c[i] = body[i]
  <2>1. i - at \notin 1..Len(s)
    BY <1>1, <1>2, <1>7
  <2> QED
    BY <1>4, <2>1
<1> QED
  BY <1>3, <1>5, <1>6, <1>7

\* The constants' strings are of bytes.
LEMMA OfBytes ==
  /\ \A s \in Contents : s \in Seq(Bytes)
  /\ \A t \in Targets : t \in Seq(NameBytes \ {NUL})
  /\ <<"-">> \in Seq(NameBytes \ {NUL}) /\ <<"-", NUL>> \in Seq(Bytes)
<1>1. ASSUME NEW s \in Contents PROVE s \in Seq(Bytes)
  <2>1. PICK B : B = UNION {Range(u) : u \in Contents}
    OBVIOUS
  <2>2. s \in Seq(B) /\ B \subseteq Bytes
    BY <2>1, StringsAssumption DEF Bytes
  <2> QED
    BY <2>2
<1>2. ASSUME NEW t \in Targets PROVE t \in Seq(NameBytes \ {NUL})
  <2>1. PICK B : B = (UNION {Range(u) : u \in Targets}) \ {NUL}
    OBVIOUS
  <2>2. t \in Seq(B) /\ B \subseteq NameBytes \ {NUL}
    BY <2>1, StringsAssumption DEF NameBytes
  <2> QED
    BY <2>2
<1>3. "-" \in NameBytes \ {NUL} /\ "-" \in Bytes /\ NUL \in Bytes
  BY DEF NameBytes, Bytes, NUL
<1> QED
  BY <1>1, <1>2, <1>3

\* The constructor message(s, type).
LEMMA MadeHolds ==
  ASSUME MessageType, NEW s \in Contents, NEW type \in MessageTypes, Len(s) < max_length
  PROVE  LET m == Made(sent_msg, s, type)
         IN /\ m.header = <<type, Len(s)>> /\ m \in MessageObjects /\ s \in Seq(Bytes) /\ Len(s) \in Nat
            /\ \A i \in 1..Len(s) : m.body[target_size + i] = s[i]
            /\ m.body[1] = "-" /\ m.body[2] = NUL
<1>1. s \in Seq(Bytes) /\ Len(s) \in Nat /\ <<"-", NUL>> \in Seq(Bytes)
  BY OfBytes, LenProperties
<1>2. target_size \in Nat /\ max_length \in Nat /\ BodySize = target_size + max_length + 1 /\ target_size >= 2
  BY RoomAssumption DEF BodySize
<1>3. PICK a : a = Copied(sent_msg.body, target_size, s)
  OBVIOUS
<1>4. a \in Bodies /\ \A i \in 1..Len(s) : a[target_size + i] = s[i]
  <2>1. target_size + Len(s) <= BodySize
    BY <1>1, <1>2
  <2>2. sent_msg.body \in Bodies
    BY DEF MessageType, MessageObjects
  <2> QED
    BY <1>1, <1>2, <1>3, <2>1, <2>2, CopyInto
<1>5. PICK d : d = <<"-", NUL>>
  OBVIOUS
<1>6. d \in Seq(Bytes) /\ Len(d) = 2 /\ d[1] = "-" /\ d[2] = NUL
  BY <1>1, <1>5
<1>7. PICK b : b = Copied(a, 0, d)
  OBVIOUS
<1>8. /\ b \in Bodies /\ \A i \in 1..2 : b[0 + i] = d[i]
      /\ \A i \in 1..BodySize : i <= 0 \/ i > 0 + 2 => b[i] = a[i]
  <2>1. 0 \in Nat /\ 0 + Len(d) <= BodySize /\ Len(d) = 2
    BY <1>2, <1>6
  <2>2. /\ b \in Bodies /\ \A i \in 1..Len(d) : b[0 + i] = d[i]
        /\ \A i \in 1..BodySize : i <= 0 \/ i > 0 + Len(d) => b[i] = a[i]
    BY <1>4, <1>6, <1>7, <2>1, CopyInto
  <2> QED
    BY <2>1, <2>2
<1>9. b[1] = "-" /\ b[2] = NUL
  <2>1. b[0 + 1] = d[1] /\ b[0 + 2] = d[2]
    BY <1>8
  <2> QED
    BY <1>6, <2>1
<1>10. ASSUME NEW i \in 1..Len(s) PROVE b[target_size + i] = s[i]
  <2>1. target_size + i \in 1..BodySize /\ target_size + i > 0 + 2
    BY <1>1, <1>2
  <2> QED
    BY <1>4, <1>8, <2>1
<1>11. Made(sent_msg, s, type) = [header |-> <<type, Len(s)>>, type |-> type, size |-> Len(s), body |-> b]
  BY <1>3, <1>5, <1>7 DEF Made, content_begin, target_begin
<1> QED
  BY <1>1, <1>8, <1>9, <1>10, <1>11 DEF MessageObjects

\* A text for a target, or a message of any type.
LEMMA MakeStep ==
  ASSUME MsgInv, NEW s \in Contents,
         \/ \E type \in MessageTypes : MakeTyped(s, type)
         \/ \E t \in Targets : MakeTargeted(s, t)
  PROVE  MsgInv'
<1> USE DEF MsgInv
<1>1. received' = received /\ stage' \in {"sent", "thrown"}
  BY DEF MakeTyped, MakeTargeted
<1>2. target_size \in Nat /\ BodySize = target_size + max_length + 1 /\ target_size >= 2 /\ max_length \in Nat
  BY RoomAssumption DEF BodySize
<1>3. CASE stage' = "thrown"
  <2>1. sent_msg' = sent_msg
    BY <1>3 DEF MakeTyped, MakeTargeted
  <2> QED
    BY <1>1, <1>3, <2>1 DEF MessageType, SentHolds, HeaderDecoded, BodyRead
<1>4. CASE stage' = "sent"
  <2>1. Len(s) < max_length
    BY <1>4 DEF MakeTyped, MakeTargeted
  <2>2. ASSUME NEW type \in MessageTypes, MakeTyped(s, type) PROVE SentHolds' /\ MessageType'
    <3>1. sent_msg' = Made(sent_msg, s, type) /\ given' = [content |-> s, target |-> <<"-">>, type |-> type]
      BY <1>4, <2>2 DEF MakeTyped
    <3>2. /\ sent_msg'.header = <<type, Len(s)>> /\ sent_msg' \in MessageObjects /\ s \in Seq(Bytes) /\ Len(s) \in Nat
          /\ \A i \in 1..Len(s) : sent_msg'.body[target_size + i] = s[i]
          /\ sent_msg'.body[1] = "-" /\ sent_msg'.body[2] = NUL
      BY <2>1, <3>1, MadeHolds
    <3>3. /\ given'.target \in Seq(NameBytes \ {NUL}) /\ Len(given'.target) = 1 /\ given'.target # <<>> /\ given'.target[1] = "-"
      BY <3>1, OfBytes
    <3>4. HoldsGiven(sent_msg.body, Len(given.content))'
      BY <1>2, <2>1, <3>1, <3>2, <3>3 DEF HoldsGiven
    <3> QED
      BY <1>1, <3>1, <3>2, <3>4 DEF MessageType, SentHolds
  <2>3. ASSUME NEW t \in Targets, MakeTargeted(s, t) PROVE SentHolds' /\ MessageType'
    <3>1. PICK m : m = Made(sent_msg, s, "text")
      OBVIOUS
    <3>2. /\ m.header = <<"text", Len(s)>> /\ m \in MessageObjects /\ m.body \in Bodies /\ s \in Seq(Bytes) /\ Len(s) \in Nat
          /\ \A i \in 1..Len(s) : m.body[target_size + i] = s[i]
          /\ m.body[1] = "-" /\ m.body[2] = NUL
      BY <2>1, <3>1, MadeHolds DEF MessageTypes, MessageObjects
    <3>3. /\ sent_msg' = [m EXCEPT !.body = Copied(@, 0, t)] /\ Len(t) < target_size
          /\ given' = [content |-> s, target |-> IF t = <<>> THEN <<"-">> ELSE t, type |-> "text"]
      BY <1>4, <2>3, <3>1 DEF MakeTargeted, target_begin
    <3>4. PICK b : b = Copied(m.body, 0, t)
      OBVIOUS
    <3>5. t \in Seq(NameBytes \ {NUL}) /\ t \in Seq(Bytes) /\ Len(t) \in Nat
      <4>1. t \in Seq(NameBytes \ {NUL}) /\ NameBytes \ {NUL} \subseteq Bytes
        BY OfBytes DEF Bytes
      <4> QED
        BY <4>1, LenProperties
    <3>6. /\ b \in Bodies /\ \A i \in 1..Len(t) : b[0 + i] = t[i]
          /\ \A i \in 1..BodySize : i <= 0 \/ i > 0 + Len(t) => b[i] = m.body[i]
      <4>1. 0 \in Nat /\ 0 + Len(t) <= BodySize /\ m.body \in Bodies
        BY <1>2, <3>2, <3>3, <3>5
      <4> QED
        BY <3>4, <3>5, <4>1, CopyInto
    <3>7. \A i \in 1..Len(t) : b[i] = t[i]
      BY <3>5, <3>6
    <3>8. \A i \in 1..Len(s) : b[target_size + i] = s[i]
      <4> SUFFICES ASSUME NEW i \in 1..Len(s) PROVE b[target_size + i] = s[i]
        OBVIOUS
      <4>1. target_size + i \in 1..BodySize /\ target_size + i > 0 + Len(t)
        BY <1>2, <2>1, <3>2, <3>3, <3>5
      <4> QED
        BY <3>2, <3>6, <4>1
    <3>9. sent_msg'.body = b /\ sent_msg'.header = <<"text", Len(s)>> /\ sent_msg' \in MessageObjects
      <4>1. m = [header |-> m.header, type |-> m.type, size |-> m.size, body |-> m.body]
        BY <3>1 DEF Made
      <4>2. sent_msg' = [m EXCEPT !.body = b]
        BY <3>3, <3>4, <4>1
      <4> QED
        BY <3>2, <3>6, <4>2 DEF MessageObjects
    <3>10. HoldsGiven(sent_msg.body, Len(given.content))'
      <4>1. CASE t = <<>>
        <5>1. given'.target \in Seq(NameBytes \ {NUL}) /\ Len(given'.target) = 1 /\ given'.target # <<>> /\ given'.target[1] = "-"
          BY <3>3, <4>1, OfBytes
        <5>2. b[1] = "-" /\ b[2] = NUL
          <6>1. 1 \in 1..BodySize /\ 2 \in 1..BodySize /\ Len(t) = 0
            BY <1>2, <4>1
          <6> QED
            BY <3>2, <3>6, <6>1
        <5> QED
          BY <1>2, <2>1, <3>2, <3>3, <3>8, <3>9, <5>1, <5>2 DEF HoldsGiven
      <4>2. CASE t # <<>>
        <5>1. given'.target = t /\ given'.content = s
          BY <3>3, <4>2
        <5>2. Len(t) = 1 => b[2] = NUL
          <6>1. 2 \in 1..BodySize
            BY <1>2
          <6> QED
            BY <3>2, <3>6, <6>1
        <5> QED
          BY <2>1, <3>2, <3>3, <3>5, <3>7, <3>8, <3>9, <4>2, <5>1, <5>2 DEF HoldsGiven
      <4> QED
        BY <4>1, <4>2
    <3> QED
      BY <1>1, <3>3, <3>6, <3>9, <3>10 DEF MessageType, SentHolds
  <2> QED
    BY <1>4, <2>2, <2>3 DEF HeaderDecoded, BodyRead
<1> QED
  BY <1>1, <1>3, <1>4

\* The header arrives.
LEMMA DecodeStep ==
  ASSUME MsgInv, decode
  PROVE  MsgInv'
<1> USE DEF MsgInv
<1>1. /\ stage = "sent" /\ stage' = "decoded" /\ UNCHANGED <<given, sent_msg>>
      /\ sent_msg.header = <<given.type, Len(given.content)>> /\ HoldsGiven(sent_msg.body, Len(given.content))
  BY DEF decode, SentHolds
<1>2. /\ received'.type = int_to_message_type(message_type_to_int(given.type))
      /\ received'.size = Len(given.content) /\ received'.body = received.body
  BY <1>1 DEF decode, MessageType, MessageObjects
<1>3. int_to_message_type(message_type_to_int(given.type)) = TypeRead(given.type)
  <2>1. message_type_to_int(given.type) = IF given.type = "command" THEN 0 ELSE IF given.type = "text" THEN 1 ELSE -1
    BY DEF message_type_to_int
  <2>2. \A i \in {-1, 0, 1} : int_to_message_type(i) = IF i = 0 THEN "command" ELSE IF i = 1 THEN "text" ELSE "unknown"
    BY DEF int_to_message_type
  <2> QED
    BY <2>1, <2>2 DEF TypeRead
<1>4. received' \in MessageObjects
  <2>1. TypeRead(given.type) \in MessageTypes
    BY DEF TypeRead, MessageTypes
  <2>2. sent_msg.header \in MessageTypes \X Nat /\ Len(given.content) \in Nat
    BY <1>1 DEF MessageType, MessageObjects
  <2>3. received' = [received EXCEPT !.header = sent_msg.header, !.type = TypeRead(given.type), !.size = Len(given.content)]
    <3>1. PICK n : n = Len(given.content) /\ sent_msg.header[1] = given.type /\ sent_msg.header[2] = n
      BY <1>1
    <3>2. PICK r \in MessageObjects : r = received
      BY DEF MessageType
    <3>3. received' = [r EXCEPT !.header = sent_msg.header, !.type = TypeRead(given.type), !.size = n]
      BY <1>3, <3>1, <3>2 DEF decode
    <3> QED
      BY <3>1, <3>2, <3>3
  <2> QED
    BY <2>1, <2>2, <2>3 DEF MessageType, MessageObjects
<1> QED
  BY <1>1, <1>2, <1>3, <1>4 DEF MessageType, SentHolds, HeaderDecoded, BodyRead, HoldsGiven

\* As much of the rest arrives as there is.
LEMMA ReadStep ==
  ASSUME MsgInv, ReadBody
  PROVE  MsgInv'
<1> USE DEF MsgInv
<1>1. /\ stage = "decoded" /\ stage' = "read" /\ UNCHANGED <<given, sent_msg>>
      /\ received.type = TypeRead(given.type) /\ received.size = Len(given.content)
      /\ HoldsGiven(sent_msg.body, Len(given.content))
  BY DEF ReadBody, SentHolds, HeaderDecoded
<1>2. PICK total : total = target_size + Len(given.content)
  OBVIOUS
<1>3. target_size \in Nat /\ max_length \in Nat /\ Len(given.content) \in Nat /\ target_size >= 2
      /\ BodySize = target_size + max_length + 1 /\ total \in Nat /\ total <= BodySize
  <2>1. given.content \in Seq(Bytes) /\ Len(given.content) < max_length
    BY <1>1 DEF HoldsGiven
  <2>2. Len(given.content) \in Nat
    BY <2>1, LenProperties
  <2> QED
    BY <1>2, <2>1, <2>2, RoomAssumption DEF BodySize
<1>4. PICK sent_body \in Bodies : sent_body = sent_msg.body
  BY DEF MessageType, MessageObjects
<1>5. PICK q : q = SubSeq(sent_body, 1, total)
  OBVIOUS
<1>6. q \in Seq(Bytes) /\ Len(q) = total /\ \A i \in 1..total : q[i] = sent_body[i]
  <2>1. sent_body \in Seq(Bytes) /\ Len(sent_body) = BodySize
    BY <1>3, <1>4 DEF Bodies
  <2> QED
    BY <1>3, <1>5, <2>1
<1>7. PICK b : b = Copied(received.body, 0, q)
  OBVIOUS
<1>8. b \in Bodies /\ \A i \in 1..total : b[i] = sent_body[i]
  <2>1. received.body \in Bodies /\ 0 + Len(q) <= BodySize
    BY <1>3, <1>6 DEF MessageType, MessageObjects
  <2>2. b \in Bodies /\ \A i \in 1..Len(q) : b[0 + i] = q[i]
    BY <1>6, <1>7, <2>1, CopyInto
  <2> QED
    BY <1>3, <1>6, <2>2
<1>9. received' = [received EXCEPT !.body = b]
  <2>1. total_size(received) = total
    BY <1>1, <1>2, <1>3 DEF total_size
  <2> QED
    BY <1>4, <1>5, <1>7, <2>1 DEF ReadBody
<1>10. received' \in MessageObjects /\ received'.body = b /\ received'.type = received.type /\ received'.size = received.size
  BY <1>8, <1>9 DEF MessageType, MessageObjects
<1>11. HoldsGiven(b, Len(given.content))
  <2>1. \A i \in 1..Len(given.content) : b[target_size + i] = given.content[i]
    <3> SUFFICES ASSUME NEW i \in 1..Len(given.content) PROVE b[target_size + i] = given.content[i]
      OBVIOUS
    <3>1. target_size + i \in 1..total
      BY <1>2, <1>3
    <3>2. sent_body[target_size + i] = given.content[i]
      BY <1>1, <1>4 DEF HoldsGiven
    <3> QED
      BY <1>8, <3>1, <3>2
  <2>2. Len(given.target) \in Nat /\ Len(given.target) < target_size
    <3>1. given.target \in Seq(NameBytes \ {NUL}) /\ Len(given.target) < target_size
      BY <1>1 DEF HoldsGiven
    <3> QED
      BY <3>1, LenProperties
  <2>3. \A i \in 1..Len(given.target) : b[i] = given.target[i]
    <3> SUFFICES ASSUME NEW i \in 1..Len(given.target) PROVE b[i] = given.target[i]
      OBVIOUS
    <3>1. i \in 1..total
      BY <1>2, <1>3, <2>2
    <3>2. sent_body[i] = given.target[i]
      BY <1>1, <1>4 DEF HoldsGiven
    <3> QED
      BY <1>8, <3>1, <3>2
  <2>4. Len(given.target) = 1 => b[2] = NUL
    <3>1. 2 \in 1..total
      BY <1>2, <1>3
    <3> QED
      BY <1>1, <1>4, <1>8, <3>1 DEF HoldsGiven
  <2> QED
    BY <1>1, <2>1, <2>3, <2>4 DEF HoldsGiven
<1> QED
  BY <1>1, <1>4, <1>10, <1>11 DEF MessageType, SentHolds, HeaderDecoded, BodyRead, HoldsGiven

\* What is read of a buffer that holds what was given.
LEMMA ReadsGiven ==
  ASSUME MsgInv, stage = "read"
  PROVE  /\ content(received) = given.content
         /\ HasZero(received) => IsPrefix(given.target, target(received))
         /\ Len(given.target) = 1 => HasZero(received) /\ target(received) = given.target
<1>1. HoldsGiven(received.body, Len(given.content)) /\ received.size = Len(given.content)
  BY DEF MsgInv, BodyRead, HeaderDecoded
<1>2. PICK body \in Bodies : body = received.body
  BY DEF MsgInv, MessageType, MessageObjects
<1>3. PICK text \in Seq(Bytes), name \in Seq(NameBytes \ {NUL}) : text = given.content /\ name = given.target
  BY <1>1 DEF HoldsGiven
<1>4. /\ Len(text) \in Nat /\ Len(text) < max_length /\ Len(name) \in Nat /\ Len(name) < target_size
      /\ target_size \in Nat /\ max_length \in Nat /\ target_size >= 2 /\ BodySize = target_size + max_length + 1
      /\ BodySize \in Nat
  BY <1>1, <1>3, LenProperties, RoomAssumption DEF HoldsGiven, BodySize
<1>5. body \in Seq(Bytes) /\ Len(body) = BodySize /\ DOMAIN body = 1..BodySize
  BY <1>4 DEF Bodies
<1>6. content(received) = given.content
  <2>1. content(received) = SubSeq(body, target_size + 1, target_size + Len(text))
    BY <1>1, <1>2, <1>3 DEF content, content_begin
  <2>2. PICK c : c = SubSeq(body, target_size + 1, target_size + Len(text))
    OBVIOUS
  <2>3. c \in Seq(Bytes) /\ Len(c) = Len(text) /\ \A i \in 1..Len(text) : c[i] = body[target_size + i]
    <3>1. PICK m \in Nat, n \in Nat : m = target_size + 1 /\ n = target_size + Len(text)
      BY <1>4
    <3>2. m >= 1 /\ n <= Len(body) /\ m <= n + 1 /\ n - m + 1 = Len(text)
      BY <1>4, <1>5, <3>1
    <3>3. c = SubSeq(body, m, n)
      BY <2>2, <3>1
    <3>4. /\ c \in Seq(Bytes) /\ Len(c) = Len(text)
          /\ \A i \in 1..Len(text) : c[i] = body[m + i - 1]
      BY <1>5, <3>2, <3>3
    <3>5. \A i \in 1..Len(text) : m + i - 1 = target_size + i
      BY <1>4, <3>1
    <3> QED
      BY <3>4, <3>5
  <2>4. \A i \in 1..Len(text) : c[i] = text[i]
    BY <1>1, <1>2, <1>3, <2>3 DEF HoldsGiven
  <2>5. c = text
    BY <2>3, <2>4, SeqEqual
  <2> QED
    BY <1>3, <2>1, <2>2, <2>5
<1> DEFINE I == {i \in 1..Len(body) : body[i] = NUL}
<1>7. HasZero(received) <=> I # {}
  BY <1>2, <1>5 DEF HasZero, Range
<1>8. target(received) = SubSeq(body, 1, (IF I # {} THEN Min(I) ELSE 0) - 1)
  BY <1>2 DEF target, SelectInSeq
<1>9. \A i \in 1..Len(name) : body[i] = name[i] /\ name[i] # NUL /\ body[i] # NUL
  BY <1>1, <1>2, <1>3, ElementOfSeq DEF HoldsGiven
<1>10. ASSUME I # {}
       PROVE  /\ Min(I) \in 1..BodySize /\ Len(name) < Min(I) /\ \A i \in I : Min(I) <= i
              /\ IsPrefix(name, SubSeq(body, 1, Min(I) - 1))
              /\ Len(SubSeq(body, 1, Min(I) - 1)) = Min(I) - 1
              /\ Min(I) - 1 = Len(name) => SubSeq(body, 1, Min(I) - 1) = name
  <2>1. I \subseteq Nat
    BY <1>5
  <2>2. PICK m \in I : m = Min(I) /\ \A i \in I : m <= i
    <3> HIDE DEF I
    <3> QED
      BY <1>10, <2>1, Smallest
  <2>3. m \in 1..BodySize /\ body[m] = NUL
    BY <1>5
  <2>4. Len(name) < m
    BY <1>4, <1>9, <2>3
  <2>5. PICK t : t = SubSeq(body, 1, m - 1)
    OBVIOUS
  <2>6. t \in Seq(Bytes) /\ Len(t) = m - 1 /\ \A i \in 1..(m - 1) : t[i] = body[i]
    BY <1>4, <1>5, <2>3, <2>5
  <2>7. \A i \in 1..Len(name) : t[i] = name[i]
    <3>1. \A i \in 1..Len(name) : i \in 1..(m - 1)
      BY <1>4, <2>3, <2>4
    <3> QED
      BY <1>9, <2>6, <3>1
  <2>8. SubSeq(t, 1, Len(name)) = name /\ SubSeq(name, 1, Len(name)) = name
    <3>1. PICK u : u = SubSeq(t, 1, Len(name))
      OBVIOUS
    <3>2. u \in Seq(Bytes) /\ Len(u) = Len(name) /\ \A i \in 1..Len(name) : u[i] = t[i]
      BY <1>4, <2>3, <2>4, <2>6, <3>1
    <3>3. name \in Seq(Bytes)
      BY DEF Bytes
    <3>4. u = name
      BY <2>7, <3>2, <3>3, SeqEqual
    <3> QED
      BY <1>4, <3>1, <3>4
  <2>9. IsPrefix(name, t)
    BY <1>4, <2>3, <2>4, <2>6, <2>8 DEF IsPrefix
  <2>10. m - 1 = Len(name) => t = name
    <3> SUFFICES ASSUME m - 1 = Len(name) PROVE t = name
      OBVIOUS
    <3>1. name \in Seq(Bytes)
      BY DEF Bytes
    <3> QED
      BY <2>6, <2>7, <3>1, SeqEqual
  <2> HIDE DEF I
  <2> QED
    BY <2>2, <2>3, <2>4, <2>5, <2>6, <2>9, <2>10
<1>11. ASSUME Len(name) = 1 PROVE I # {} /\ Min(I) = 2
  <2>1. 2 \in I
    BY <1>1, <1>2, <1>3, <1>4, <1>5, <1>11 DEF HoldsGiven
  <2> HIDE DEF I
  <2>2. Min(I) <= 2 /\ 1 < Min(I) /\ Min(I) \in 1..BodySize
    BY <1>10, <1>11, <2>1
  <2> QED
    BY <1>4, <2>1, <2>2
<1> HIDE DEF I
<1> QED
  BY <1>3, <1>6, <1>7, <1>8, <1>10, <1>11

(***************************************************************************)
(* A message that was read has the content and the type it was made with,  *)
(* and a target that begins with the one it was made with, or is that one  *)
(* if it is of one character: for any size of the content and the target,  *)
(* any texts, and whatever was in the two buffers before.                  *)
(***************************************************************************)
THEOREM MessageTheorem == MsgInit /\ [][MsgNext]_msgvars => []MessageArrives
<1>1. MsgInit => MsgInv
  <2> SUFFICES ASSUME MsgInit PROVE MsgInv
    OBVIOUS
  <2>1. \A b \in Uninitialized : Blank(b) \in MessageObjects
    BY DEF Uninitialized, Blank, MessageObjects, Bodies, Bytes, MessageTypes
  <2>2. \A b \in {NUL, "old"} : [i \in 1..BodySize |-> b] \in Uninitialized
    BY DEF Uninitialized
  <2> QED
    BY <2>1, <2>2 DEF MsgInit, MsgInv, MessageType, SentHolds, HeaderDecoded, BodyRead
<1>2. MsgInv /\ [MsgNext]_msgvars => MsgInv'
  <2> SUFFICES ASSUME MsgInv, [MsgNext]_msgvars PROVE MsgInv'
    OBVIOUS
  <2>1. ASSUME NextMessage PROVE MsgInv'
    <3>1. stage' = "making" /\ received' = received /\ sent_msg' \in {Blank([i \in 1..BodySize |-> b]) : b \in {NUL, "old"}}
      BY <2>1 DEF NextMessage
    <3>2. \A b \in {NUL, "old"} : Blank([i \in 1..BodySize |-> b]) \in MessageObjects
      BY DEF Blank, MessageObjects, Bodies, Bytes, MessageTypes
    <3> QED
      BY <3>1, <3>2 DEF MsgInv, MessageType, SentHolds, HeaderDecoded, BodyRead
  <2>2. CASE MsgNext
    BY <2>1, <2>2, MakeStep, DecodeStep, ReadStep DEF MsgNext
  <2>3. CASE UNCHANGED msgvars
    BY <2>3 DEF msgvars, MsgInv, MessageType, SentHolds, HeaderDecoded, BodyRead, HoldsGiven
  <2> QED
    BY <2>2, <2>3
<1>3. MsgInv => MessageArrives
  <2> SUFFICES ASSUME MsgInv, stage = "read" PROVE MessageArrives
    BY DEF MessageArrives
  <2>1. received.type = TypeRead(given.type)
    BY DEF MsgInv, HeaderDecoded
  <2> QED
    BY <2>1, ReadsGiven DEF MessageArrives, TypeRead
<1> QED
  BY <1>1, <1>2, <1>3, PTL

-----------------------------------------------------------------------------

(***************************************************************************)
(* PerformanceTracker.                                                     *)
(***************************************************************************)

\* A number and its unit, while formatTime looks for the unit; one step of the search.
Shown == [time : Nat, unit : 1..6, fits : BOOLEAN]
FormatStep(s, i, unit) ==
  IF i < unit \/ s.fits \/ Fits(s.time, i) THEN [s EXCEPT !.fits = s.fits \/ i >= unit]
  ELSE [time |-> s.time \div kTimeFormats[i].value, unit |-> i + 1, fits |-> FALSE]

Places == <<1, 2, 3, 4, 5>>

LEMMA PlacesAre == Places \in Seq(1..5) /\ DOMAIN Places = 1..5 /\ Len(Places) = 5 /\ \A i \in 1..5 : Places[i] = i
<1>1. Places \in Seq(1..5) /\ DOMAIN Places = 1..5 /\ Len(Places) = 5
  BY DEF Places
<1>2. ASSUME NEW i \in 1..5 PROVE Places[i] = i
  <2>1. i = 1 \/ i = 2 \/ i = 3 \/ i = 4 \/ i = 5
    OBVIOUS
  <2> QED
    BY <2>1 DEF Places
<1> QED
  BY <1>1, <1>2

LEMMA FormatStepType ==
  ASSUME NEW s \in Shown, NEW i \in 1..5, NEW unit
  PROVE  FormatStep(s, i, unit) \in Shown
<1>1. s.time \in Nat /\ i + 1 \in 1..6 /\ kTimeFormats[i].value \in {24, 60, 1000}
  BY DEF Shown, kTimeFormats
<1>2. s.time \div kTimeFormats[i].value \in Nat
  BY <1>1
<1> QED
  BY <1>1, <1>2, ZenonT(60) DEF FormatStep, Shown

\* formatTime as a sequence of steps.
LEMMA FormatSteps ==
  ASSUME NEW time \in Nat, NEW unit \in 1..6
  PROVE  \E f : /\ f[0] = [time |-> time, unit |-> unit, fits |-> FALSE]
                /\ \A i \in 1..5 : f[i] = FormatStep(f[i - 1], i, unit)
                /\ formatTime(time, unit) = f[5]
<1> DEFINE base == [time |-> time, unit |-> unit, fits |-> FALSE]
    iter == CHOOSE it : it = [s \in SUBSET DOMAIN Places |->
                                IF s = {} THEN base ELSE FormatStep(it[s \ {Max(s)}], Places[Max(s)], unit)]
<1>1. formatTime(time, unit) = iter[DOMAIN Places]
  BY DEF formatTime, FoldLeft, MapThenFoldSet, FormatStep, Places
<1>2. PICK F : F = [p \in Shown \X (1..5) |-> FormatStep(p[1], p[2], unit)]
  OBVIOUS
<1>3. F \in [Shown \X (1..5) -> Shown]
  BY <1>2, FormatStepType
<1>4. base \in Shown
  BY DEF Shown
<1> HIDE DEF base
<1>5. PICK it : Folding(it, F, base, Places, 1..5, Shown)
  BY <1>3, <1>4, PlacesAre, FoldDefined, Zenon
<1>6. it = [s \in SUBSET DOMAIN Places |-> IF s = {} THEN base ELSE FormatStep(it[s \ {Max(s)}], Places[Max(s)], unit)]
  BY <1>2, <1>5 DEF Folding
<1>7. iter = [s \in SUBSET DOMAIN Places |-> IF s = {} THEN base ELSE FormatStep(iter[s \ {Max(s)}], Places[Max(s)], unit)]
  BY <1>6
<1> HIDE DEF iter
<1>8. PICK f : Beginnings(f, iter, Places)
  BY PlacesAre, FoldSteps
<1>9. f[0] = base /\ f[5] = iter[DOMAIN Places]
  BY <1>7, <1>8, PlacesAre DEF Beginnings
<1>10. ASSUME NEW i \in 1..5 PROVE f[i] = FormatStep(f[i - 1], i, unit)
  <2>1. /\ f[i] = iter[1..i] /\ 1..i \in SUBSET DOMAIN Places /\ 1..i # {}
        /\ f[i - 1] = iter[(1..i) \ {Max(1..i)}] /\ Max(1..i) = i /\ Places[i] = i
    BY <1>8, PlacesAre DEF Beginnings
  <2> QED
    BY <1>7, <2>1
<1> QED
  BY <1>1, <1>9, <1>10 DEF base

\* InUnits likewise.
UnitStep(n, j, i, unit) == IF j >= unit /\ j < i THEN n * kTimeFormats[j].value ELSE n

LEMMA UnitStepType ==
  ASSUME NEW n \in Nat, NEW j \in 1..5, NEW i, NEW unit
  PROVE  UnitStep(n, j, i, unit) \in Nat
<1>1. kTimeFormats[j].value \in {24, 60, 1000}
  BY DEF kTimeFormats
<1>2. n * 24 \in Nat /\ n * 60 \in Nat /\ n * 1000 \in Nat
  OBVIOUS
<1> QED
  BY <1>1, <1>2 DEF UnitStep

LEMMA UnitSteps ==
  ASSUME NEW unit, NEW i
  PROVE  \E f : /\ f[0] = 1
                /\ \A j \in 1..5 : f[j] = UnitStep(f[j - 1], j, i, unit)
                /\ InUnits(unit, i) = f[5]
<1> DEFINE iter == CHOOSE it : it = [s \in SUBSET DOMAIN Places |->
                                IF s = {} THEN 1 ELSE UnitStep(it[s \ {Max(s)}], Places[Max(s)], i, unit)]
<1>1. InUnits(unit, i) = iter[DOMAIN Places]
  BY DEF InUnits, FoldLeft, MapThenFoldSet, UnitStep, Places
<1>2. PICK F : F = [p \in Nat \X (1..5) |-> UnitStep(p[1], p[2], i, unit)]
  OBVIOUS
<1>3. F \in [Nat \X (1..5) -> Nat]
  BY <1>2, UnitStepType
<1>4. PICK base \in Nat : base = 1
  OBVIOUS
<1>5. PICK it : Folding(it, F, base, Places, 1..5, Nat)
  BY <1>3, PlacesAre, FoldDefined, Zenon
<1>6. it = [s \in SUBSET DOMAIN Places |-> IF s = {} THEN 1 ELSE UnitStep(it[s \ {Max(s)}], Places[Max(s)], i, unit)]
  BY <1>2, <1>4, <1>5 DEF Folding
<1>7. iter = [s \in SUBSET DOMAIN Places |-> IF s = {} THEN 1 ELSE UnitStep(iter[s \ {Max(s)}], Places[Max(s)], i, unit)]
  BY <1>6
<1> HIDE DEF iter
<1>8. PICK f : Beginnings(f, iter, Places)
  BY PlacesAre, FoldSteps
<1>9. f[0] = 1 /\ f[5] = iter[DOMAIN Places]
  BY <1>7, <1>8, PlacesAre DEF Beginnings
<1>10. ASSUME NEW j \in 1..5 PROVE f[j] = UnitStep(f[j - 1], j, i, unit)
  <2>1. /\ f[j] = iter[1..j] /\ 1..j \in SUBSET DOMAIN Places /\ 1..j # {}
        /\ f[j - 1] = iter[(1..j) \ {Max(1..j)}] /\ Max(1..j) = j /\ Places[j] = j
    BY <1>8, PlacesAre DEF Beginnings
  <2> QED
    BY <1>7, <2>1
<1> QED
  BY <1>1, <1>9, <1>10

\* The units of kTimeFormats, one from another.
LEMMA Units ==
  ASSUME NEW unit \in {1, 2}
  PROVE  /\ InUnits(unit, unit) = 1
         /\ \A i \in unit..5 : InUnits(unit, i) \in Nat /\ InUnits(unit, i + 1) = InUnits(unit, i) * kTimeFormats[i].value
         /\ InUnits(unit, 6) \in Nat
<1>1. ASSUME NEW i \in 1..6
      PROVE  InUnits(unit, i) = UnitStep(UnitStep(UnitStep(UnitStep(UnitStep(1, 1, i, unit), 2, i, unit),
                            3, i, unit), 4, i, unit), 5, i, unit)
  <2>1. PICK f : /\ f[0] = 1
                 /\ \A j \in 1..5 : f[j] = UnitStep(f[j - 1], j, i, unit)
                 /\ InUnits(unit, i) = f[5]
    BY UnitSteps
  <2>2. /\ f[1] = UnitStep(f[0], 1, i, unit) /\ f[2] = UnitStep(f[1], 2, i, unit)
        /\ f[3] = UnitStep(f[2], 3, i, unit) /\ f[4] = UnitStep(f[3], 4, i, unit)
        /\ f[5] = UnitStep(f[4], 5, i, unit)
    <3> HIDE DEF UnitStep
    <3> QED
      BY <2>1
  <2> QED
    BY <2>1, <2>2
<1>2. /\ kTimeFormats[1].value = 1000 /\ kTimeFormats[2].value = 1000 /\ kTimeFormats[3].value = 60
      /\ kTimeFormats[4].value = 60 /\ kTimeFormats[5].value = 24
  BY DEF kTimeFormats
<1>3. CASE unit = 1
  <2>1. /\ InUnits(unit, 1) = 1 /\ InUnits(unit, 2) = 1000 /\ InUnits(unit, 3) = 1000000 /\ InUnits(unit, 4) = 60000000
        /\ InUnits(unit, 5) = 3600000000 /\ InUnits(unit, 6) = 86400000000
    BY <1>1, <1>2, <1>3 DEF UnitStep
  <2> QED
    BY <2>1, <1>2, <1>3
<1>4. CASE unit = 2
  <2>1. /\ InUnits(unit, 2) = 1 /\ InUnits(unit, 3) = 1000 /\ InUnits(unit, 4) = 60000
        /\ InUnits(unit, 5) = 3600000 /\ InUnits(unit, 6) = 86400000
    BY <1>1, <1>2, <1>4 DEF UnitStep
  <2> QED
    BY <2>1, <1>2, <1>4
<1> QED
  BY <1>3, <1>4

\* The number shown is the time in its unit, rounded down.
RoundedDown(s, time, unit) ==
  /\ s \in Shown /\ s.unit >= unit
  /\ s.time * InUnits(unit, s.unit) <= time /\ time < (s.time + 1) * InUnits(unit, s.unit)

\* While formatTime looks for the unit, and has looked at i of them.
Looking(s, i, time, unit) ==
  /\ RoundedDown(s, time, unit)
  /\ s.fits => s.time < 1900
  /\ s.unit > unit => s.time >= 1
  /\ ~s.fits => s.unit = IF i < unit THEN unit ELSE i + 1

LEMMA LookingOn ==
  ASSUME NEW unit \in {1, 2}, NEW time \in Nat, NEW i \in 1..5, NEW s, Looking(s, i - 1, time, unit)
  PROVE  Looking(FormatStep(s, i, unit), i, time, unit)
<1> DEFINE v == kTimeFormats[i].value
<1>1. s \in Shown /\ s.time \in Nat /\ s.unit \in 1..6 /\ s.fits \in BOOLEAN
  BY DEF Looking, RoundedDown, Shown
<1>2. v \in {24, 60, 1000}
  BY DEF kTimeFormats
<1>3. CASE i < unit
  <2>1. FormatStep(s, i, unit) = s
    BY <1>1, <1>3 DEF FormatStep, Shown
  <2> QED
    BY <1>3, <2>1 DEF Looking
<1>4. CASE i >= unit /\ s.fits
  <2>1. FormatStep(s, i, unit) = s
    BY <1>1, <1>4 DEF FormatStep, Shown
  <2> QED
    BY <1>4, <2>1 DEF Looking
<1>5. CASE i >= unit /\ ~s.fits /\ Fits(s.time, i)
  <2>1. FormatStep(s, i, unit) = [s EXCEPT !.fits = TRUE]
    BY <1>1, <1>5 DEF FormatStep, Shown
  <2>2. PICK t : t = FormatStep(s, i, unit)
    OBVIOUS
  <2>3. t \in Shown /\ t.time = s.time /\ t.unit = s.unit /\ t.fits
    BY <1>1, <2>1, <2>2 DEF Shown
  <2>4. s.time < 1900
    BY <1>1, <1>2, <1>5 DEF Fits
  <2>5. Looking(t, i, time, unit)
    BY <2>3, <2>4 DEF Looking, RoundedDown
  <2> QED
    BY <2>2, <2>5
<1>6. CASE i >= unit /\ ~s.fits /\ ~Fits(s.time, i)
  <2>1. s.unit = i
    BY <1>6 DEF Looking
  <2>2. PICK t : t = FormatStep(s, i, unit)
    OBVIOUS
  <2>3. t \in Shown /\ t.time = s.time \div v /\ t.unit = i + 1 /\ ~t.fits
    <3>1. s.time \div v \in Nat /\ i + 1 \in 1..6
      BY <1>1, <1>2
    <3> QED
      BY <1>6, <2>2, <3>1 DEF FormatStep, Shown
  <2>4. /\ t.time >= 1 /\ t.time * v <= s.time /\ s.time < (t.time + 1) * v
    <3>1. s.time > v
      BY <1>1, <1>2, <1>6 DEF Fits
    <3> HIDE DEF v
    <3> QED
      BY <1>1, <1>2, <2>3, <3>1
  <2>5. t.time * InUnits(unit, i + 1) <= time /\ time < (t.time + 1) * InUnits(unit, i + 1)
    <3>1. InUnits(unit, i) \in Nat /\ InUnits(unit, i + 1) = InUnits(unit, i) * v
      BY <1>6, Units
    <3>2. s.time * InUnits(unit, i) <= time /\ time < (s.time + 1) * InUnits(unit, i)
      BY <2>1 DEF Looking, RoundedDown
    <3>3. PICK U \in Nat : U = InUnits(unit, i)
      BY <3>1
    <3>4. (t.time * v) * U <= s.time * U /\ (s.time + 1) * U <= ((t.time + 1) * v) * U
      <4>1. t.time \in Nat /\ t.time * v \in Nat /\ (t.time + 1) * v \in Nat
        BY <1>2, <2>3 DEF Shown
      <4>2. \A a, b, c \in Nat : a <= b => a * c <= b * c
        OBVIOUS
      <4>3. s.time + 1 <= (t.time + 1) * v /\ s.time + 1 \in Nat
        BY <1>1, <2>4, <4>1
      <4> HIDE DEF v
      <4> QED
        BY <1>1, <2>4, <3>3, <4>1, <4>2, <4>3
    <3>5. t.time * (U * v) = (t.time * v) * U /\ (t.time + 1) * (U * v) = ((t.time + 1) * v) * U
      <4>1. t.time \in Nat
        BY <2>3 DEF Shown
      <4>2. v \in Nat
        BY <1>2
      <4>3. \A a, b, c \in Nat : a * (b * c) = (a * c) * b
        OBVIOUS
      <4> HIDE DEF v
      <4> QED
        BY <3>3, <4>1, <4>2, <4>3
    <3>6. /\ t.time * (U * v) \in Nat /\ s.time * U \in Nat /\ (s.time + 1) * U \in Nat
          /\ (t.time + 1) * (U * v) \in Nat
      <4>1. t.time \in Nat /\ v \in Nat
        BY <1>2, <2>3 DEF Shown
      <4>2. \A a, b \in Nat : a * b \in Nat
        OBVIOUS
      <4> HIDE DEF v
      <4> QED
        BY <1>1, <3>3, <4>1, <4>2
    <3> HIDE DEF v
    <3> QED
      BY <3>1, <3>2, <3>3, <3>4, <3>5, <3>6
  <2>6. Looking(t, i, time, unit)
    BY <1>6, <2>3, <2>4, <2>5 DEF Looking, RoundedDown
  <2> QED
    BY <2>2, <2>6
<1> QED
  BY <1>1, <1>3, <1>4, <1>5, <1>6 DEF Fits

LEMMA FormatTimeLaw ==
  ASSUME NEW unit \in {1, 2}, NEW time \in Nat
  PROVE  /\ RoundedDown(formatTime(time, unit), time, unit)
         /\ LET s == formatTime(time, unit)
            IN (s.time < 1900 \/ s.unit = 6) /\ (s.unit > unit => s.time >= 1)
<1>1. unit \in 1..6
  OBVIOUS
<1>2. PICK f : /\ f[0] = [time |-> time, unit |-> unit, fits |-> FALSE]
               /\ \A i \in 1..5 : f[i] = FormatStep(f[i - 1], i, unit)
               /\ formatTime(time, unit) = f[5]
  BY <1>1, FormatSteps
<1>3. PICK s : s = f[0]
  OBVIOUS
<1>4. s \in Shown /\ s.time = time /\ s.unit = unit /\ ~s.fits
  BY <1>1, <1>2, <1>3 DEF Shown
<1>5. Looking(s, 0, time, unit)
  <2>1. InUnits(unit, unit) = 1
    BY Units
  <2> QED
    BY <1>1, <1>4, <2>1 DEF Looking, RoundedDown
<1> DEFINE T == {i \in 0..5 : Looking(f[i], i, time, unit)}
<1>6. 0 \in T
  BY <1>3, <1>5
<1>7. ASSUME NEW i \in 1..5, i - 1 \in T PROVE i \in T
  <2>1. Looking(f[i - 1], i - 1, time, unit)
    BY <1>7
  <2>2. Looking(FormatStep(f[i - 1], i, unit), i, time, unit)
    BY <2>1, LookingOn
  <2> QED
    BY <1>2, <2>2
<1> HIDE DEF T
<1>8. \A i \in 0..5 : i \in T
  BY <1>6, <1>7, InductionUpTo
<1>9. Looking(f[5], 5, time, unit)
  BY <1>8 DEF T
<1>10. f[5].fits \in BOOLEAN
  BY <1>9 DEF Looking, RoundedDown, Shown
<1> QED
  BY <1>2, <1>9, <1>10 DEF Looking

-----------------------------------------------------------------------------
\* A time does not come before another, in milliseconds either.
Times == [sec : Nat, usec : {n \in Nat : n < 1000000}]
NotAfter(s, t) == s.sec < t.sec \/ (s.sec = t.sec /\ s.usec <= t.usec)

\* Differences of times.
LEMMA Differences ==
  ASSUME NEW r \in Times, NEW s \in Times, NEW t \in Times, NotAfter(r, s), NotAfter(s, t), NEW unit
  PROVE  /\ getTimeDifference(t, r, unit) \in Nat /\ getTimeDifference(t, s, unit) \in Nat
         /\ getTimeDifference(t, s, unit) <= getTimeDifference(t, r, unit)
<1> DEFINE Ms(x) == x.sec * 1000 + x.usec \div 1000
<1>1. \A x \in Times : x.sec \in Nat /\ x.usec \in Nat /\ x.usec < 1000000
  BY DEF Times
<1>2. \A a, b \in Nat : a <= b => a \div 1000 <= b \div 1000
  OBVIOUS
<1>3. \A a \in Nat : a \div 1000 \in Nat /\ (a < 1000000 => a \div 1000 < 1000)
  OBVIOUS
<1>4. ASSUME NEW x \in Times, NEW y \in Times, NotAfter(x, y) PROVE Ms(x) <= Ms(y) /\ Ms(x) \in Nat
  <2>1. x.usec \div 1000 \in Nat /\ y.usec \div 1000 \in Nat /\ x.usec \div 1000 < 1000 /\ y.usec \div 1000 < 1000
    BY <1>1, <1>3
  <2>2. x.sec = y.sec => x.usec \div 1000 <= y.usec \div 1000
    BY <1>1, <1>2, <1>4 DEF NotAfter
  <2> QED
    BY <1>1, <1>4, <2>1, <2>2 DEF NotAfter
<1>5. Ms(t) \in Nat
  BY <1>1, <1>3
<1>6. CASE unit = Microsecond
  <2>1. /\ getTimeDifference(t, r, unit) = 1000000 * (t.sec - r.sec) + t.usec - r.usec
        /\ getTimeDifference(t, s, unit) = 1000000 * (t.sec - s.sec) + t.usec - s.usec
    BY <1>6 DEF getTimeDifference
  <2> QED
    BY <1>1, <2>1 DEF NotAfter
<1>7. CASE unit # Microsecond
  <2>1. getTimeDifference(t, r, unit) = Ms(t) - Ms(r) /\ getTimeDifference(t, s, unit) = Ms(t) - Ms(s)
    BY <1>7 DEF getTimeDifference
  <2>2. Ms(r) <= Ms(s) /\ Ms(s) <= Ms(t) /\ Ms(r) \in Nat /\ Ms(s) \in Nat
    BY <1>4
  <2> HIDE DEF Ms
  <2> QED
    BY <1>5, <2>1, <2>2
<1> QED
  BY <1>6, <1>7

\* Time does not go back.
LEMMA PassedLater ==
  ASSUME NEW t \in Times, NEW d \in Times
  PROVE  Passed(t, d) \in Times /\ NotAfter(t, Passed(t, d))
<1>1. /\ t.sec \in Nat /\ t.usec \in Nat /\ d.sec \in Nat /\ d.usec \in Nat
      /\ t.usec < 1000000 /\ d.usec < 1000000
  BY DEF Times
<1>2. PICK p : p = Passed(t, d)
  OBVIOUS
<1>3. p.sec = t.sec + d.sec + (t.usec + d.usec) \div 1000000 /\ p.usec = (t.usec + d.usec) % 1000000
      /\ p = [sec |-> t.sec + d.sec + (t.usec + d.usec) \div 1000000, usec |-> (t.usec + d.usec) % 1000000]
  BY <1>2 DEF Passed
<1>4. CASE t.usec + d.usec < 1000000
  <2>1. (t.usec + d.usec) \div 1000000 = 0 /\ (t.usec + d.usec) % 1000000 = t.usec + d.usec
    BY <1>1, <1>4
  <2> QED
    BY <1>1, <1>2, <1>3, <1>4, <2>1 DEF Times, NotAfter
<1>5. CASE t.usec + d.usec >= 1000000
  <2>1. (t.usec + d.usec) \div 1000000 = 1 /\ (t.usec + d.usec) % 1000000 = t.usec + d.usec - 1000000
    <3>1. PICK n : n = t.usec + d.usec
      OBVIOUS
    <3>2. n \in Nat /\ n >= 1000000 /\ n < 2000000
      BY <1>1, <1>5, <3>1
    <3>3. n \div 1000000 = 1 /\ n % 1000000 = n - 1000000
      BY <3>2
    <3> QED
      BY <1>1, <3>1, <3>2, <3>3
  <2> QED
    BY <1>1, <1>2, <1>3, <1>5, <2>1 DEF Times, NotAfter
<1> QED
  BY <1>1, <1>4, <1>5

\* Times are in an order.
LEMMA BeforeAll ==
  ASSUME NEW r \in Times, NEW s \in Times, NEW t \in Times
  PROVE  NotAfter(r, r) /\ (NotAfter(r, s) /\ NotAfter(s, t) => NotAfter(r, t))
<1>1. \A x \in Times : x.sec \in Nat /\ x.usec \in Nat
  BY DEF Times
<1> QED
  BY <1>1 DEF NotAfter

\* What is reported is the time of the report.
LEMMA ReportShows ==
  ASSUME m_timestampUnit \in {1, 2}, NEW s \in Times, NEW t \in Times, NotAfter(s, t)
  PROVE  Shows(m_timestampUnit, getFormattedTimeTaken(t, s), t, s)
<1>1. PICK exact : exact = getTimeDifference(t, s, m_timestampUnit)
  OBVIOUS
<1>2. exact \in Nat
  BY <1>1, BeforeAll, Differences
<1>3. PICK w : w = formatTime(exact, m_timestampUnit)
  OBVIOUS
<1>4. RoundedDown(w, exact, m_timestampUnit) /\ (w.time < 1900 \/ w.unit = 6) /\ (w.unit > m_timestampUnit => w.time >= 1)
  BY <1>2, <1>3, FormatTimeLaw
<1>5. getFormattedTimeTaken(t, s) = w
  BY <1>1, <1>3 DEF getFormattedTimeTaken
<1>6. kTimeFormats[6].unit = "days"
  BY DEF kTimeFormats
<1> QED
  BY <1>1, <1>4, <1>5, <1>6 DEF Shows, RoundedDown

-----------------------------------------------------------------------------
Report == [kind : {"checkpoint", "complete"}, at : Times, total : Shown, since : Seq(Shown)]

TrackerType ==
  /\ clock \in Times /\ m_startTime \in Times /\ m_lastCheckpointTime \in Times
  /\ m_timestampUnit \in {1, 2} /\ m_hasChecked \in BOOLEAN
  /\ state \in {"none", "block", "checkpoint", "over"}
  /\ reports \in Seq(Report)

\* Nothing is later than now, or before the block.
InTime ==
  /\ NotAfter(m_startTime, clock) /\ NotAfter(m_lastCheckpointTime, clock)
  /\ \A i \in DOMAIN reports : NotAfter(reports[i].at, clock)

\* The tracker knows whether there was a checkpoint, and a time not before that of its report.
Checked ==
  /\ state = "none" => reports = <<>> /\ ~m_hasChecked
  /\ state = "block" => /\ m_hasChecked <=> reports # <<>>
                        /\ m_hasChecked => NotAfter(reports[Len(reports)].at, m_lastCheckpointTime)
  /\ state = "checkpoint" => reports # <<>>

TrackerInv == TrackerType /\ InTime /\ Checked /\ TimesShown

\* What TimesShown says of one report.
ShowsTime(unit, start, rs, i) ==
  /\ Shows(unit, rs[i].total, rs[i].at, start)
  /\ rs[i].since # <<>> =>
       /\ i > 1
       /\ rs[i].since[1].time * InUnits(unit, rs[i].since[1].unit) <= getTimeDifference(rs[i].at, rs[i - 1].at, unit)
  /\ rs[i].kind = "checkpoint" => (rs[i].since # <<>> <=> i > 1)

LEMMA EveryTime == TimesShown <=> \A i \in DOMAIN reports : ShowsTime(m_timestampUnit, m_startTime, reports, i)
  BY DEF TimesShown, ShowsTime

\* A report behind the others.
LEMMA OneMoreReport ==
  ASSUME NEW unit, NEW start, NEW rs \in Seq(Report), NEW r \in Report,
         \A i \in DOMAIN rs : ShowsTime(unit, start, rs, i),
         Shows(unit, r.total, r.at, start),
         r.since # <<>> =>
           /\ rs # <<>>
           /\ r.since[1].time * InUnits(unit, r.since[1].unit) <= getTimeDifference(r.at, rs[Len(rs)].at, unit),
         r.kind = "checkpoint" => (r.since # <<>> <=> rs # <<>>)
  PROVE  \A i \in DOMAIN Append(rs, r) : ShowsTime(unit, start, Append(rs, r), i)
<1>1. /\ Len(rs) \in Nat /\ DOMAIN rs = 1..Len(rs) /\ DOMAIN Append(rs, r) = 1..(Len(rs) + 1)
      /\ \A i \in 1..Len(rs) : Append(rs, r)[i] = rs[i]
      /\ Append(rs, r)[Len(rs) + 1] = r
      /\ rs # <<>> <=> Len(rs) > 0
  OBVIOUS
<1>2. ASSUME NEW i \in 1..Len(rs) PROVE ShowsTime(unit, start, Append(rs, r), i)
  <2>1. i > 1 => Append(rs, r)[i - 1] = rs[i - 1]
    BY <1>1
  <2>2. Append(rs, r)[i] = rs[i] /\ ShowsTime(unit, start, rs, i)
    BY <1>1
  <2> QED
    BY <2>1, <2>2 DEF ShowsTime
<1>3. ShowsTime(unit, start, Append(rs, r), Len(rs) + 1)
  <2>1. PICK n : n = Len(rs) + 1
    OBVIOUS
  <2>2. PICK q : q = Append(rs, r)
    OBVIOUS
  <2>3. n - 1 = Len(rs) /\ (n > 1 <=> rs # <<>>) /\ q[n] = r
    BY <1>1, <2>1, <2>2
  <2>4. rs # <<>> => q[n - 1] = rs[Len(rs)]
    BY <1>1, <2>2, <2>3
  <2>5. ShowsTime(unit, start, q, n)
    BY <2>3, <2>4 DEF ShowsTime
  <2> QED
    BY <2>1, <2>2, <2>5
<1>4. \A i \in 1..(Len(rs) + 1) : i \in 1..Len(rs) \/ i = Len(rs) + 1
  BY <1>1
<1> QED
  BY <1>1, <1>2, <1>3, <1>4

LEMMA TrackerBegins == PInit => TrackerInv
<1> SUFFICES ASSUME PInit PROVE TrackerInv
  OBVIOUS
<1>1. clock \in Times
  BY DEF PInit, Times
<1>2. TrackerType
  <2>1. reports = <<>> /\ <<>> \in Seq(Report) /\ state = "none" /\ m_hasChecked = FALSE /\ m_timestampUnit \in {1, 2}
    BY DEF PInit, Microsecond, Millisecond
  <2>2. m_startTime = clock /\ m_lastCheckpointTime = clock
    BY DEF PInit
  <2> QED
    BY <1>1, <2>1, <2>2 DEF TrackerType
<1>3. DOMAIN reports = {}
  BY DEF PInit
<1>4. InTime /\ Checked
  BY <1>1, <1>3, BeforeAll DEF PInit, InTime, Checked
<1>5. TimesShown
  BY <1>3 DEF TimesShown
<1> QED
  BY <1>2, <1>4, <1>5 DEF TrackerInv

\* Nothing is reported.
LEMMA NoReport ==
  ASSUME TrackerInv, TrackerType', reports' = reports, m_timestampUnit' = m_timestampUnit,
         m_startTime' = m_startTime \/ reports = <<>>, InTime', Checked'
  PROVE  TrackerInv'
<1>1. \A i \in DOMAIN reports : ShowsTime(m_timestampUnit, m_startTime, reports, i)
  BY EveryTime DEF TrackerInv
<1>2. \A i \in DOMAIN reports : ShowsTime(m_timestampUnit, m_startTime', reports, i)
  BY <1>1
<1>3. TimesShown' <=> \A i \in DOMAIN reports' : ShowsTime(m_timestampUnit', m_startTime', reports', i)
  BY DEF TimesShown, ShowsTime
<1> QED
  BY <1>2, <1>3 DEF TrackerInv

LEMMA TrackTracker == ASSUME TrackerInv, Track PROVE TrackerInv'
<1>1. TrackerType' /\ reports = <<>>
  BY DEF TrackerInv, TrackerType, Checked, Track, Kept
<1>2. InTime'
  BY BeforeAll DEF TrackerInv, TrackerType, InTime, Track, Kept
<1>3. Checked'
  BY DEF TrackerInv, Checked, Track, Kept
<1> QED
  BY <1>1, <1>2, <1>3, NoReport DEF Track, Kept

\* A time that was taken.
LEMMA TimeTaken ==
  ASSUME NEW s \in Times, NEW t \in Times, NotAfter(s, t), m_timestampUnit \in {1, 2}
  PROVE  LET w == getFormattedTimeTaken(t, s) IN w \in Shown /\ w.time * InUnits(m_timestampUnit, w.unit) \in Nat
<1>1. getTimeDifference(t, s, m_timestampUnit) \in Nat
  BY BeforeAll, Differences
<1>2. RoundedDown(formatTime(getTimeDifference(t, s, m_timestampUnit), m_timestampUnit),
                  getTimeDifference(t, s, m_timestampUnit), m_timestampUnit)
  BY <1>1, FormatTimeLaw
<1>3. PICK w : w = getFormattedTimeTaken(t, s)
  OBVIOUS
<1>4. w \in Shown /\ w.unit >= m_timestampUnit
  BY <1>2, <1>3 DEF RoundedDown, getFormattedTimeTaken
<1>5. w.time \in Nat /\ InUnits(m_timestampUnit, w.unit) \in Nat
  <2>1. w.unit \in m_timestampUnit..5 \/ w.unit = 6
    BY <1>4 DEF Shown
  <2> QED
    BY <1>4, <2>1, Units DEF Shown
<1>6. w.time * InUnits(m_timestampUnit, w.unit) \in Nat
  BY <1>5
<1> QED
  BY <1>3, <1>4, <1>6

\* The last report.
LEMMA LastReport ==
  ASSUME TrackerType, reports # <<>>
  PROVE  Len(reports) \in DOMAIN reports /\ reports[Len(reports)] \in Report
  BY DEF TrackerType

LEMMA TimePassesTracker == ASSUME TrackerInv, TimePasses PROVE TrackerInv'
<1>1. PICK d \in MicroSteps \cup MilliSteps : clock' = Passed(clock, d)
  BY DEF TimePasses
<1>2. clock' \in Times /\ NotAfter(clock, clock')
  BY <1>1, StepsAssumption, PassedLater DEF TrackerInv, TrackerType, Times
<1>3. TrackerType'
  BY <1>2 DEF TrackerInv, TrackerType, TimePasses
<1>4. InTime'
  <2>1. \A i \in DOMAIN reports : reports[i].at \in Times
    <3>1. \A i \in DOMAIN reports : reports[i] \in Report
      BY DEF TrackerInv, TrackerType
    <3> QED
      BY <3>1 DEF Report
  <2>2. NotAfter(m_startTime, clock') /\ NotAfter(m_lastCheckpointTime, clock')
    BY <1>2, BeforeAll DEF TrackerInv, TrackerType, InTime
  <2>3. \A i \in DOMAIN reports : NotAfter(reports[i].at, clock')
    BY <1>2, <2>1, BeforeAll DEF TrackerInv, TrackerType, InTime
  <2> QED
    BY <2>2, <2>3 DEF InTime, TimePasses
<1>5. Checked'
  BY DEF TrackerInv, Checked, TimePasses
<1> QED
  BY <1>3, <1>4, <1>5, NoReport DEF TimePasses

LEMMA SetTrackingTracker == ASSUME TrackerInv, SetTracking PROVE TrackerInv'
<1>1. TrackerType' /\ InTime' /\ Checked'
  BY DEF TrackerInv, TrackerType, InTime, Checked, SetTracking, Kept
<1> QED
  BY <1>1, NoReport DEF SetTracking, Kept

LEMMA CheckpointEndTracker == ASSUME TrackerInv, CheckpointEnd PROVE TrackerInv'
<1>1. TrackerType'
  BY DEF TrackerInv, TrackerType, CheckpointEnd, Kept
<1>2. InTime'
  BY BeforeAll DEF TrackerInv, TrackerType, InTime, CheckpointEnd, Kept
<1>3. Checked'
  <2>1. reports # <<>>
    BY DEF TrackerInv, Checked, CheckpointEnd
  <2>2. NotAfter(reports[Len(reports)].at, clock)
    BY <2>1, LastReport DEF TrackerInv, InTime
  <2> QED
    BY <2>1, <2>2 DEF Checked, CheckpointEnd
<1> QED
  BY <1>1, <1>2, <1>3, NoReport DEF CheckpointEnd, Kept

\* A report of now, which shows the time since the block began, and since the checkpoint before.
LEMMA ReportedNow ==
  ASSUME TrackerInv, state = "block", NEW kind \in {"checkpoint", "complete"}, NEW since,
         Reported(kind, since), state' \in {"checkpoint", "over"},
         \/ kind = "complete" /\ since = <<>>
         \/ kind = "checkpoint"
              /\ since = IF m_hasChecked THEN <<getFormattedTimeTaken(clock, m_lastCheckpointTime)>> ELSE <<>>,
         UNCHANGED <<clock, m_startTime, m_lastCheckpointTime, m_timestampUnit, m_hasChecked>>
  PROVE  TrackerInv'
<1>1. /\ TrackerType /\ reports \in Seq(Report) /\ clock \in Times /\ m_startTime \in Times
      /\ m_lastCheckpointTime \in Times /\ m_timestampUnit \in {1, 2} /\ m_hasChecked \in BOOLEAN
      /\ NotAfter(m_startTime, clock) /\ NotAfter(m_lastCheckpointTime, clock)
      /\ m_hasChecked <=> reports # <<>>
  BY DEF TrackerInv, TrackerType, InTime, Checked
<1>2. PICK taken : taken = getFormattedTimeTaken(clock, m_lastCheckpointTime)
  OBVIOUS
<1>3. /\ taken \in Shown /\ getFormattedTimeTaken(clock, m_startTime) \in Shown
      /\ taken.time * InUnits(m_timestampUnit, taken.unit) \in Nat
  BY <1>1, <1>2, TimeTaken
<1>4. since \in Seq(Shown) /\ (since # <<>> => since[1] = taken /\ m_hasChecked)
      /\ (kind = "checkpoint" => (since # <<>> <=> m_hasChecked))
  <2>1. <<taken>> # <<>> /\ <<taken>> \in Seq(Shown) /\ <<taken>>[1] = taken /\ <<>> \in Seq(Shown)
    BY <1>3
  <2> QED
    BY <1>2, <2>1
<1>5. PICK r : r = [kind |-> kind, at |-> clock, total |-> getFormattedTimeTaken(clock, m_startTime), since |-> since]
  OBVIOUS
<1>6. r \in Report /\ r.kind = kind /\ r.at = clock /\ r.since = since
      /\ r.total = getFormattedTimeTaken(clock, m_startTime)
  BY <1>1, <1>3, <1>4, <1>5 DEF Report
<1>7. reports' = Append(reports, r)
  BY <1>5 DEF Reported
<1>8. TrackerType'
  BY <1>1, <1>6, <1>7 DEF TrackerType
<1>9. InTime'
  <2>1. \A i \in DOMAIN reports : NotAfter(reports[i].at, clock)
    BY DEF TrackerInv, InTime
  <2>2. NotAfter(clock, clock)
    BY <1>1, BeforeAll
  <2>3. \A i \in DOMAIN reports' : (i \in DOMAIN reports /\ reports'[i] = reports[i]) \/ reports'[i] = r
    BY <1>1, <1>6, <1>7
  <2>4. \A i \in DOMAIN reports' : NotAfter(reports'[i].at, clock')
    BY <1>6, <2>1, <2>2, <2>3
  <2> QED
    BY <1>1, <2>4 DEF InTime
<1>10. Checked'
  BY <1>1, <1>6, <1>7 DEF Checked
<1>11. Shows(m_timestampUnit, r.total, r.at, m_startTime)
  BY <1>1, <1>6, ReportShows
<1>12. r.since # <<>> =>
         /\ reports # <<>>
         /\ r.since[1].time * InUnits(m_timestampUnit, r.since[1].unit)
              <= getTimeDifference(r.at, reports[Len(reports)].at, m_timestampUnit)
  <2> SUFFICES ASSUME since # <<>>
               PROVE  /\ reports # <<>>
                      /\ taken.time * InUnits(m_timestampUnit, taken.unit)
                           <= getTimeDifference(clock, reports[Len(reports)].at, m_timestampUnit)
    BY <1>4, <1>6
  <2>1. reports # <<>> /\ m_hasChecked
    BY <1>1, <1>4
  <2>2. PICK before : before = reports[Len(reports)].at
    OBVIOUS
  <2>3. before \in Times /\ NotAfter(before, m_lastCheckpointTime)
    BY <1>1, <2>1, <2>2, LastReport DEF TrackerInv, Checked, Report
  <2>4. /\ getTimeDifference(clock, m_lastCheckpointTime, m_timestampUnit)
             <= getTimeDifference(clock, before, m_timestampUnit)
        /\ getTimeDifference(clock, m_lastCheckpointTime, m_timestampUnit) \in Nat
        /\ getTimeDifference(clock, before, m_timestampUnit) \in Nat
    BY <1>1, <2>3, Differences
  <2>5. taken.time * InUnits(m_timestampUnit, taken.unit)
          <= getTimeDifference(clock, m_lastCheckpointTime, m_timestampUnit)
    BY <1>1, <1>2, ReportShows DEF Shows
  <2> QED
    BY <1>3, <2>1, <2>2, <2>4, <2>5
<1>13. r.kind = "checkpoint" => (r.since # <<>> <=> reports # <<>>)
  BY <1>1, <1>4, <1>6
<1>14. \A i \in DOMAIN reports : ShowsTime(m_timestampUnit, m_startTime, reports, i)
  BY EveryTime DEF TrackerInv
<1>15. \A i \in DOMAIN Append(reports, r) : ShowsTime(m_timestampUnit, m_startTime, Append(reports, r), i)
  BY <1>1, <1>6, <1>11, <1>12, <1>13, <1>14, OneMoreReport
<1>16. TimesShown' <=> \A i \in DOMAIN reports' : ShowsTime(m_timestampUnit', m_startTime', reports', i)
  BY DEF TimesShown, ShowsTime
<1> QED
  BY <1>7, <1>8, <1>9, <1>10, <1>15, <1>16 DEF TrackerInv

LEMMA CheckpointBeginTracker == ASSUME TrackerInv, CheckpointBegin PROVE TrackerInv'
  BY ReportedNow DEF CheckpointBegin, Kept

LEMMA TrackEndTracker == ASSUME TrackerInv, TrackEnd PROVE TrackerInv'
<1>1. CASE m_enabled /\ m_scopedLog
  BY <1>1, ReportedNow DEF TrackEnd, Kept
<1>2. CASE ~(m_enabled /\ m_scopedLog)
  <2>1. TrackerType' /\ InTime' /\ Checked'
    BY <1>2 DEF TrackerInv, TrackerType, InTime, Checked, TrackEnd, Kept
  <2> QED
    BY <1>2, <2>1, NoReport DEF TrackEnd, Kept
<1> QED
  BY <1>1, <1>2

LEMMA TrackerStep == TrackerInv /\ [PNext]_pvars => TrackerInv'
<1> SUFFICES ASSUME TrackerInv, [PNext]_pvars PROVE TrackerInv'
  OBVIOUS
<1>1. CASE UNCHANGED pvars
  <2>1. TrackerType' /\ InTime' /\ Checked'
    BY <1>1 DEF TrackerInv, TrackerType, InTime, Checked, pvars
  <2> QED
    BY <1>1, <2>1, NoReport DEF pvars
<1> QED
  BY <1>1, TrackTracker, CheckpointBeginTracker, CheckpointEndTracker, TrackEndTracker, TimePassesTracker,
     SetTrackingTracker DEF PNext

(***************************************************************************)
(* For any steps of time, any number of checkpoints and either unit, every *)
(* report shows the time it took to the unit shown, and no more than has   *)
(* passed since the report of the checkpoint before.                       *)
(***************************************************************************)
THEOREM TrackerTheorem == PInit /\ [][PNext]_pvars => []TimesShown
<1>1. TrackerInv => TimesShown
  BY DEF TrackerInv
<1> QED
  BY TrackerBegins, TrackerStep, <1>1, PTL

-----------------------------------------------------------------------------
(***************************************************************************)
(* The arguments of the program.                                           *)
(***************************************************************************)

ArgKeys == {arg.key : arg \in Arguments}
ArgValues == {arg.value : arg \in Arguments}
Collected == [params : Seq(ArgKeys), withValue : UNION {[D -> ArgValues] : D \in SUBSET ArgKeys}]

\* What has been taken from the first k arguments.
Without(args, k) == {args[i].key : i \in {i \in 1..k : args[i].value = noValue}}
Given(args, key, k) == {i \in 1..k : args[i].key = key /\ args[i].value # noValue}
TakenFrom(s, args, k) ==
  /\ s \in Collected
  /\ \A key : Contains(s.params, key) <=> key \in Without(args, k)
  /\ \A key : key \in DOMAIN s.withValue <=> Given(args, key, k) # {}
  /\ \A key \in DOMAIN s.withValue : \E i \in Given(args, key, k) :
       s.withValue[key] = args[i].value /\ \A j \in Given(args, key, k) : i <= j

LEMMA CollectedParts ==
  ASSUME NEW p \in Seq(ArgKeys), NEW D \in SUBSET ArgKeys, NEW w \in [D -> ArgValues]
  PROVE  /\ Parameters(p, w) \in Collected
         /\ Parameters(p, w).params = p /\ Parameters(p, w).withValue = w
  BY DEF Parameters, Collected

\* A key is known when it is put at the end, and those that were known before.
LEMMA ContainsAppend ==
  ASSUME NEW S, NEW p \in Seq(S), NEW e \in S
  PROVE  \A x : Contains(Append(p, e), x) <=> Contains(p, x) \/ x = e
<1>1. /\ Len(Append(p, e)) = Len(p) + 1 /\ Len(p) \in Nat /\ Append(p, e)[Len(p) + 1] = e
      /\ \A i \in 1..Len(p) : Append(p, e)[i] = p[i]
  BY AppendProperties, LenProperties
<1> PICK q : q = Append(p, e)
  OBVIOUS
<1>2. ASSUME NEW x PROVE Contains(q, x) <=> Contains(p, x) \/ x = e
  <2>1. ASSUME Contains(q, x), x # e PROVE Contains(p, x)
    <3>1. PICK i \in 1..Len(q) : q[i] = x
      BY <2>1 DEF Contains
    <3>2. i \in 1..Len(p)
      BY <1>1, <2>1, <3>1
    <3> QED
      BY <1>1, <3>1, <3>2 DEF Contains
  <2>2. ASSUME Contains(p, x) PROVE Contains(q, x)
    BY <1>1, <2>2 DEF Contains
  <2>3. Contains(q, e)
    BY <1>1 DEF Contains
  <2> QED
    BY <2>1, <2>2, <2>3
<1> QED
  BY <1>2

\* One more argument.
LEMMA AddStep ==
  ASSUME NEW args \in Seq(Arguments), NEW k \in 1..Len(args), NEW s, TakenFrom(s, args, k - 1)
  PROVE  TakenFrom(addArg(s, args[k]), args, k)
<1>1. Len(args) \in Nat /\ k \in Nat /\ k >= 1 /\ args[k] \in Arguments
  BY LenProperties, ElementOfSeq
<1>2. 1..k = (1..(k - 1)) \cup {k}
  BY <1>1
<1> PICK key, value : key = args[k].key /\ value = args[k].value
  OBVIOUS
<1>3. key \in ArgKeys /\ value \in ArgValues
  BY <1>1 DEF ArgKeys, ArgValues
<1>4. PICK p \in Seq(ArgKeys), D \in SUBSET ArgKeys : s.params = p /\ DOMAIN s.withValue = D /\ s.withValue \in [D -> ArgValues]
  BY DEF TakenFrom, Collected
<1> PICK w \in [D -> ArgValues] : w = s.withValue
  BY <1>4
<1>5. \A x : /\ Contains(p, x) <=> x \in Without(args, k - 1)
             /\ x \in D <=> Given(args, x, k - 1) # {}
             /\ x \in D => \E i \in Given(args, x, k - 1) :
                             w[x] = args[i].value /\ \A j \in Given(args, x, k - 1) : i <= j
  BY <1>4 DEF TakenFrom
<1>6. \A x : /\ Without(args, k) = Without(args, k - 1) \cup (IF value = noValue THEN {key} ELSE {})
             /\ Given(args, x, k) = Given(args, x, k - 1) \cup (IF value # noValue /\ x = key THEN {k} ELSE {})
  <2>1. Without(args, k) = Without(args, k - 1) \cup (IF value = noValue THEN {key} ELSE {})
    BY <1>2 DEF Without
  <2>2. ASSUME NEW x
        PROVE  Given(args, x, k) = Given(args, x, k - 1) \cup (IF value # noValue /\ x = key THEN {k} ELSE {})
    BY <1>2 DEF Given
  <2> QED
    BY <2>1, <2>2
<1>7. \A x : Given(args, x, k - 1) \subseteq 1..(k - 1)
  BY DEF Given
<1>8. CASE value = noValue
  <2>1. \A x : Given(args, x, k) = Given(args, x, k - 1)
    BY <1>6, <1>8
  <2>2. CASE Contains(p, key)
    <3>1. addArg(s, args[k]) = s
      BY <1>4, <1>8, <2>2 DEF addArg
    <3>2. Without(args, k) = Without(args, k - 1)
      BY <1>5, <1>6, <2>2
    <3> QED
      BY <2>1, <3>1, <3>2 DEF TakenFrom
  <2>3. CASE ~Contains(p, key)
    <3>1. addArg(s, args[k]) = Parameters(Append(p, key), w)
      <4>1. args[k].value = noValue /\ ~Contains(s.params, args[k].key)
        BY <1>4, <1>8, <2>3
      <4>2. addArg(s, args[k]) = Parameters(Append(s.params, args[k].key), s.withValue)
        BY <4>1, Zenon DEF addArg
      <4> QED
        BY <1>4, <4>2, Zenon
    <3>2. Append(p, key) \in Seq(ArgKeys)
      BY <1>3
    <3>3. /\ addArg(s, args[k]) \in Collected
          /\ addArg(s, args[k]).params = Append(p, key) /\ addArg(s, args[k]).withValue = w
      <4>1. /\ Parameters(Append(p, key), w) \in Collected
            /\ Parameters(Append(p, key), w).params = Append(p, key) /\ Parameters(Append(p, key), w).withValue = w
        BY <3>2, CollectedParts, Zenon
      <4> QED
        BY <3>1, <4>1, Zenon
    <3>4. \A x : Contains(Append(p, key), x) <=> x \in Without(args, k)
      BY <1>3, <1>5, <1>6, <1>8, ContainsAppend
    <3> QED
      BY <1>5, <2>1, <3>3, <3>4 DEF TakenFrom
  <2> QED
    BY <2>2, <2>3
<1>9. CASE value # noValue
  <2>1. Without(args, k) = Without(args, k - 1) /\ Given(args, key, k) = Given(args, key, k - 1) \cup {k}
        /\ \A x : x # key => Given(args, x, k) = Given(args, x, k - 1)
    BY <1>6, <1>9
  <2>2. CASE key \in D
    <3>1. addArg(s, args[k]) = s
      BY <1>4, <1>9, <2>2 DEF addArg
    <3>2. ASSUME NEW x \in D
          PROVE  \E i \in Given(args, x, k) : w[x] = args[i].value /\ \A j \in Given(args, x, k) : i <= j
      <4>1. PICK i \in Given(args, x, k - 1) : w[x] = args[i].value /\ \A j \in Given(args, x, k - 1) : i <= j
        BY <1>5
      <4>2. i \in 1..(k - 1) /\ i <= k
        BY <1>1, <1>7
      <4> QED
        BY <2>1, <4>1, <4>2
    <3>3. \A x : x \in D <=> Given(args, x, k) # {}
      BY <1>5, <2>1, <2>2
    <3> QED
      BY <1>4, <1>5, <2>1, <3>1, <3>2, <3>3 DEF TakenFrom
  <2>3. CASE key \notin D
    <3> PICK v : v = Stored(w, key, value)
      OBVIOUS
    <3>1. addArg(s, args[k]) = Parameters(p, v)
      <4>1. args[k].value # noValue /\ args[k].key \notin DOMAIN s.withValue
        BY <1>4, <1>9, <2>3
      <4>2. addArg(s, args[k]) = Parameters(s.params, Stored(s.withValue, args[k].key, args[k].value))
        BY <4>1, Zenon DEF addArg
      <4> QED
        BY <1>4, <4>2, Zenon
    <3>2. /\ D \cup {key} \in SUBSET ArgKeys /\ v \in [D \cup {key} -> ArgValues] /\ DOMAIN v = D \cup {key}
          /\ v[key] = value /\ \A x \in D : v[x] = w[x]
      BY <1>3, <2>3 DEF Stored
    <3>3. /\ addArg(s, args[k]) \in Collected
          /\ addArg(s, args[k]).params = p /\ addArg(s, args[k]).withValue = v
      <4> PICK E \in SUBSET ArgKeys : E = D \cup {key}
        BY <3>2
      <4>1. v \in [E -> ArgValues]
        BY <3>2
      <4>2. Parameters(p, v) \in Collected /\ Parameters(p, v).params = p /\ Parameters(p, v).withValue = v
        BY <4>1, CollectedParts, ZenonT(60)
      <4> QED
        BY <3>1, <4>2, Zenon
    <3>4. Given(args, key, k) = {k} /\ k <= k
      BY <1>1, <1>5, <2>1, <2>3
    <3>5. \A x : x \in DOMAIN v <=> Given(args, x, k) # {}
      BY <1>5, <2>1, <3>2, <3>4
    <3>6. ASSUME NEW x \in DOMAIN v
          PROVE  \E i \in Given(args, x, k) : v[x] = args[i].value /\ \A j \in Given(args, x, k) : i <= j
      <4>1. CASE x = key
        BY <3>2, <3>4, <4>1
      <4>2. CASE x # key
        <5>1. x \in D
          BY <3>2, <4>2
        <5> QED
          BY <1>5, <2>1, <3>2, <4>2, <5>1
      <4> QED
        BY <4>1, <4>2
    <3> QED
      BY <1>5, <2>1, <3>3, <3>5, <3>6 DEF TakenFrom
  <2> QED
    BY <2>2, <2>3
<1> QED
  BY <1>8, <1>9

LEMMA AddType ==
  ASSUME NEW s \in Collected, NEW arg \in Arguments
  PROVE  addArg(s, arg) \in Collected
<1>1. arg.key \in ArgKeys /\ arg.value \in ArgValues
  BY DEF ArgKeys, ArgValues
<1>2. PICK p \in Seq(ArgKeys), D \in SUBSET ArgKeys : s.params = p /\ DOMAIN s.withValue = D /\ s.withValue \in [D -> ArgValues]
  BY DEF Collected
<1>3. Append(p, arg.key) \in Seq(ArgKeys) /\ D \cup {arg.key} \in SUBSET ArgKeys
  BY <1>1
<1>4. Stored(s.withValue, arg.key, arg.value) \in [D \cup {arg.key} -> ArgValues]
  BY <1>1, <1>2 DEF Stored
<1>5. Parameters(Append(p, arg.key), s.withValue) \in Collected
  BY <1>2, <1>3, CollectedParts
<1>6. Parameters(p, Stored(s.withValue, arg.key, arg.value)) \in Collected
  BY <1>3, <1>4, CollectedParts
<1> QED
  BY <1>2, <1>5, <1>6 DEF addArg

\* What setArgs takes from all of them.
LEMMA SetArgsLaw ==
  ASSUME NEW args \in Seq(Arguments)
  PROVE  TakenFrom(setArgs(args), args, Len(args))
<1>1. Len(args) \in Nat /\ DOMAIN args = 1..Len(args)
  BY LenProperties
<1>2. PICK base : base = Parameters(<<>>, <<>>)
  OBVIOUS
<1> PICK none : none = <<>>
  OBVIOUS
<1>3. none \in Seq(ArgKeys) /\ Len(none) = 0 /\ none \in [{} -> ArgValues] /\ DOMAIN none = {}
  OBVIOUS
<1>4. base \in Collected /\ base.params = none /\ base.withValue = none
  BY <1>2, <1>3, CollectedParts
<1> DEFINE iter == CHOOSE it : it = [s \in SUBSET DOMAIN args |->
              IF s = {} THEN base ELSE addArg(it[s \ {Max(s)}], args[Max(s)])]
<1>5. setArgs(args) = iter[DOMAIN args]
  BY <1>2 DEF setArgs, FoldLeft, MapThenFoldSet
<1>6. PICK F : F = [p \in Collected \X Arguments |-> addArg(p[1], p[2])]
  OBVIOUS
<1>7. F \in [Collected \X Arguments -> Collected]
  BY <1>6, AddType
<1>8. PICK it : Folding(it, F, base, args, Arguments, Collected)
  BY <1>4, <1>7, FoldDefined, Zenon
<1>9. it = [s \in SUBSET DOMAIN args |-> IF s = {} THEN base ELSE addArg(it[s \ {Max(s)}], args[Max(s)])]
  BY <1>6, <1>8 DEF Folding
<1>10. iter = [s \in SUBSET DOMAIN args |-> IF s = {} THEN base ELSE addArg(iter[s \ {Max(s)}], args[Max(s)])]
  BY <1>9
<1> HIDE DEF iter
<1>11. PICK f : Beginnings(f, iter, args)
  BY FoldSteps
<1>12. f[0] = base /\ f[Len(args)] = iter[DOMAIN args]
  BY <1>10, <1>11 DEF Beginnings
<1>13. ASSUME NEW k \in 1..Len(args) PROVE f[k] = addArg(f[k - 1], args[k])
  <2>1. /\ f[k] = iter[1..k] /\ 1..k \in SUBSET DOMAIN args /\ 1..k # {}
        /\ f[k - 1] = iter[(1..k) \ {Max(1..k)}] /\ Max(1..k) = k
    BY <1>11 DEF Beginnings
  <2> QED
    BY <1>10, <2>1
<1> DEFINE T == {k \in Nat : TakenFrom(f[k], args, k)}
<1>14. 0 \in T
  <2>1. Without(args, 0) = {} /\ \A x : Given(args, x, 0) = {}
    BY DEF Without, Given
  <2>2. \A x : ~Contains(none, x)
    BY <1>3 DEF Contains
  <2> QED
    BY <1>3, <1>4, <1>12, <2>1, <2>2 DEF TakenFrom
<1>15. ASSUME NEW k \in 1..Len(args), k - 1 \in T PROVE k \in T
  BY <1>13, <1>15, AddStep
<1> HIDE DEF T
<1>16. Len(args) \in T
  BY <1>1, <1>14, <1>15, InductionUpTo
<1> QED
  BY <1>5, <1>12, <1>16 DEF T

\* The last place in a sequence of one of some elements, and how many places there are.
PlacesIn(c, Q) == {k \in DOMAIN c : c[k] \in Q}

LEMMA PlacesAppend ==
  ASSUME NEW S, NEW c \in Seq(S), NEW e \in S, NEW Q
  PROVE  /\ PlacesIn(Append(c, e), Q) = IF e \in Q THEN PlacesIn(c, Q) \cup {Len(c) + 1} ELSE PlacesIn(c, Q)
         /\ PlacesIn(c, Q) \subseteq 1..Len(c) /\ \A k \in 1..Len(c) : Append(c, e)[k] = c[k]
         /\ Append(c, e)[Len(c) + 1] = e /\ Len(c) \in Nat
<1> PICK d : d = Append(c, e)
  OBVIOUS
<1>1. PICK N \in Nat : N = Len(c) /\ DOMAIN c = 1..N
  BY LenProperties
<1>2. d \in Seq(S) /\ Len(d) = N + 1 /\ d[N + 1] = e /\ \A k \in 1..N : d[k] = c[k]
  BY <1>1, AppendProperties
<1>3. DOMAIN d = (1..N) \cup {N + 1}
  BY <1>2, LenProperties
<1>4. PlacesIn(d, Q) = IF e \in Q THEN PlacesIn(c, Q) \cup {N + 1} ELSE PlacesIn(c, Q)
  BY <1>1, <1>2, <1>3 DEF PlacesIn
<1> QED
  BY <1>1, <1>2, <1>4 DEF PlacesIn

LEMMA LastAppend ==
  ASSUME NEW S, NEW c \in Seq(S), NEW e \in S, NEW Q
  PROVE  /\ LastOf(PlacesIn(Append(c, e), Q)) = IF e \in Q THEN Len(c) + 1 ELSE LastOf(PlacesIn(c, Q))
         /\ LastOf(PlacesIn(c, Q)) # 0 => LastOf(PlacesIn(c, Q)) \in 1..Len(c)
<1> PICK P, M : P = PlacesIn(c, Q) /\ M = PlacesIn(Append(c, e), Q)
  OBVIOUS
<1>1. PICK N \in Nat : N = Len(c)
  BY LenProperties
<1>2. P \subseteq 1..N /\ M = IF e \in Q THEN P \cup {N + 1} ELSE P
  BY <1>1, PlacesAppend
<1>3. P # {} => Max(P) \in P
  <2>1. P \subseteq 0..N
    BY <1>2
  <2> QED
    BY <2>1, Largest
<1>4. e \in Q => Max(M) = N + 1 /\ M # {}
  <2> SUFFICES ASSUME e \in Q PROVE Max(M) = N + 1 /\ M # {}
    OBVIOUS
  <2>1. N + 1 \in M /\ M \subseteq 0..(N + 1) /\ N + 1 \in Nat
    BY <1>2
  <2>2. Max(M) \in M /\ Max(M) >= N + 1
    BY <2>1, Largest
  <2> QED
    BY <2>1, <2>2
<1> QED
  BY <1>1, <1>2, <1>3, <1>4 DEF LastOf

LEMMA CountAppend ==
  ASSUME NEW S, NEW c \in Seq(S), NEW e \in S, NEW Q
  PROVE  /\ Cardinality(PlacesIn(c, Q)) \in Nat
         /\ Cardinality(PlacesIn(Append(c, e), Q)) =
              IF e \in Q THEN Cardinality(PlacesIn(c, Q)) + 1 ELSE Cardinality(PlacesIn(c, Q))
<1> PICK P : P = PlacesIn(c, Q)
  OBVIOUS
<1>1. PICK N \in Nat : N = Len(c)
  BY LenProperties
<1>2. P \subseteq 1..N /\ N + 1 \notin P /\ PlacesIn(Append(c, e), Q) = IF e \in Q THEN P \cup {N + 1} ELSE P
  <2>1. P \subseteq 1..N /\ PlacesIn(Append(c, e), Q) = IF e \in Q THEN P \cup {N + 1} ELSE P
    BY <1>1, PlacesAppend
  <2> QED
    BY <2>1
<1>3. IsFiniteSet(P)
  BY <1>2, FS_Interval, FS_Subset
<1>4. Cardinality(P) \in Nat /\ Cardinality(P \cup {N + 1}) = Cardinality(P) + 1
  BY <1>2, <1>3, FS_CardinalityType, FS_AddElement
<1> QED
  BY <1>2, <1>4

\* What is found under a key is what is given for it first.
LEMMA FoundFirst ==
  ASSUME NEW args \in Seq(Arguments), NEW s, TakenFrom(s, args, Len(args))
  PROVE  /\ (\E flag \in Flags : hasParam(s, flag)) <=> Flagged(args)
         /\ \A key : /\ hasParamWithValue(s, key) <=> GivenAt(args, {key}) # {}
                     /\ hasParamWithValue(s, key) =>
                          s.withValue[key] = FirstGiven(args, {key}) /\ s.withValue[key] \in ArgValues
<1>1. PICK N \in Nat : N = Len(args) /\ DOMAIN args = 1..N
  BY LenProperties
<1>2. \A key : Contains(s.params, key) <=> \E i \in DOMAIN args : args[i].key = key /\ args[i].value = noValue
  BY <1>1 DEF TakenFrom, Without
<1>3. (\E flag \in Flags : hasParam(s, flag)) <=> Flagged(args)
  BY <1>2 DEF hasParam, Flagged
<1>4. ASSUME NEW key
      PROVE  /\ hasParamWithValue(s, key) <=> GivenAt(args, {key}) # {}
             /\ hasParamWithValue(s, key) =>
                  s.withValue[key] = FirstGiven(args, {key}) /\ s.withValue[key] \in ArgValues
  <2> PICK G : G = GivenAt(args, {key})
    OBVIOUS
  <2>1. Given(args, key, N) = G /\ G \subseteq 1..N
    BY <1>1 DEF Given, GivenAt
  <2>2. key \in DOMAIN s.withValue <=> G # {}
    BY <1>1, <2>1 DEF TakenFrom
  <2>3. ASSUME key \in DOMAIN s.withValue
        PROVE  s.withValue[key] = FirstGiven(args, {key}) /\ s.withValue[key] \in ArgValues
    <3>1. PICK i \in G : s.withValue[key] = args[i].value /\ \A j \in G : i <= j
      BY <1>1, <2>1, <2>3 DEF TakenFrom
    <3>2. PICK n : n = CHOOSE k \in GivenAt(args, {key}) : \A j \in GivenAt(args, {key}) : k <= j
      OBVIOUS
    <3>3. n \in G /\ \A j \in G : n <= j
      BY <3>1, <3>2
    <3>4. n = i
      <4>1. n <= i /\ i <= n
        BY <3>1, <3>3, Zenon
      <4>2. n \in 1..N /\ i \in 1..N
        BY <2>1, <3>3, Zenon
      <4> QED
        BY <4>1, <4>2
    <3>5. FirstGiven(args, {key}) = args[n].value
      BY <3>2 DEF FirstGiven
    <3>6. args[i] \in Arguments
      BY <1>1, <2>1, <3>1, ElementOfSeq
    <3> QED
      BY <3>1, <3>4, <3>5, <3>6 DEF ArgValues
  <2> QED
    BY <2>2, <2>3 DEF hasParamWithValue
<1> QED
  BY <1>3, <1>4

\* The level and the modules that a call asks for.
LevelOf(args) == IF LevelAsked(args) > 9 THEN 9 ELSE LevelAsked(args)

LEMMA LevelStep ==
  ASSUME NEW args \in Seq(Arguments), NEW s, TakenFrom(s, args, Len(args)), setFromArgs(s)
  PROVE  /\ level' = IF AsksLevel(args) THEN LevelOf(args) ELSE level
         /\ AsksModules(args) => \E v \in ArgValues : modules' = Append(modules, v)
         /\ ~AsksModules(args) => modules' = modules
<1> PICK keys : keys = <<"--v", "--V", "-vmodule", "-VMODULE">>
  OBVIOUS
<1>1. Len(keys) = 4 /\ keys[1] = "--v" /\ keys[2] = "--V" /\ keys[3] = "-vmodule" /\ keys[4] = "-VMODULE"
  OBVIOUS
<1> DEFINE I == {k \in 1..Len(keys) : hasParamWithValue(s, keys[k])}
<1> PICK i : i = IF I # {} THEN Min(I) ELSE 0
  OBVIOUS
<1>2. /\ (\E flag \in Flags : hasParam(s, flag)) => LevelSet(kMaxVerboseLevel)
      /\ ~(\E flag \in Flags : hasParam(s, flag)) =>
           /\ i = 0 => UNCHANGED <<level, modules>>
           /\ i # 0 /\ i <= 2 => LevelSet(s.withValue[keys[i]])
           /\ i # 0 /\ ~(i <= 2) => modules' = Append(modules, s.withValue[keys[i]]) /\ UNCHANGED level
  BY DEF setFromArgs, SelectInSeq
<1>3. \/ i = 0 /\ I = {}
      \/ i \in 1..4 /\ hasParamWithValue(s, keys[i]) /\ \A k \in 1..4 : hasParamWithValue(s, keys[k]) => i <= k
  <2>1. I \subseteq Nat /\ I = {k \in 1..4 : hasParamWithValue(s, keys[k])}
    BY <1>1
  <2> HIDE DEF I
  <2>2. I # {} => i \in I /\ \A k \in I : i <= k
    BY <2>1, Smallest
  <2> QED
    BY <2>1, <2>2
<1>4. /\ (\E flag \in Flags : hasParam(s, flag)) <=> Flagged(args)
      /\ \A key : /\ hasParamWithValue(s, key) <=> GivenAt(args, {key}) # {}
                  /\ hasParamWithValue(s, key) =>
                       s.withValue[key] = FirstGiven(args, {key}) /\ s.withValue[key] \in ArgValues
  BY FoundFirst
<1>5. /\ GivenAt(args, {"--v", "--V"}) = GivenAt(args, {"--v"}) \cup GivenAt(args, {"--V"})
      /\ GivenAt(args, {"-vmodule", "-VMODULE"}) = GivenAt(args, {"-vmodule"}) \cup GivenAt(args, {"-VMODULE"})
  BY DEF GivenAt
<1> HIDE DEF I
<1>6. CASE Flagged(args)
  <2>1. LevelAsked(args) = 9 /\ LevelOf(args) = 9 /\ AsksLevel(args)
    BY <1>6 DEF LevelAsked, LevelOf, AsksLevel
  <2>2. level' = 9 /\ modules' = modules
    BY <1>2, <1>4, <1>6 DEF LevelSet, kMaxVerboseLevel
  <2> QED
    BY <2>1, <2>2 DEF AsksModules
<1>7. CASE ~Flagged(args) /\ i = 0
  <2>1. GivenAt(args, {"--v", "--V"}) = {} /\ GivenAt(args, {"-vmodule", "-VMODULE"}) = {}
    BY <1>1, <1>3, <1>4, <1>5, <1>7 DEF I
  <2> QED
    BY <1>2, <1>4, <1>7, <2>1 DEF AsksLevel, AsksModules
<1>8. CASE ~Flagged(args) /\ i \in {1, 2}
  <2>1. hasParamWithValue(s, keys[i]) /\ (i = 2 => ~hasParamWithValue(s, "--v"))
    BY <1>1, <1>3, <1>8
  <2>2. LevelAsked(args) = s.withValue[keys[i]] /\ AsksLevel(args)
    BY <1>1, <1>4, <1>5, <1>8, <2>1 DEF LevelAsked, AsksLevel
  <2>3. LevelSet(s.withValue[keys[i]])
    BY <1>2, <1>4, <1>8
  <2> QED
    BY <2>2, <2>3 DEF LevelSet, LevelOf, kMaxVerboseLevel, AsksModules
<1>9. CASE ~Flagged(args) /\ i \in {3, 4}
  <2>1. hasParamWithValue(s, keys[i]) /\ ~hasParamWithValue(s, "--v") /\ ~hasParamWithValue(s, "--V")
    BY <1>1, <1>3, <1>9
  <2>2. ~AsksLevel(args) /\ AsksModules(args)
    BY <1>1, <1>4, <1>5, <1>9, <2>1 DEF AsksLevel, AsksModules
  <2>3. modules' = Append(modules, s.withValue[keys[i]]) /\ UNCHANGED level
    BY <1>2, <1>4, <1>9
  <2> QED
    BY <1>4, <2>1, <2>2, <2>3
<1> QED
  BY <1>3, <1>6, <1>7, <1>8, <1>9

\* Calls that ask for a level, for modules, or for a file.
LevelCalls == {args \in ArgLists : AsksLevel(args)}
ModuleCalls == {args \in ArgLists : AsksModules(args)}
FileCalls == {args \in ArgLists : NamesFile(args)}

\* The level and the file after some calls.
LevelAfter(c) == LET i == LastOf(PlacesIn(c, LevelCalls)) IN IF i = 0 THEN 0 ELSE LevelOf(c[i])
FileAfter(c) ==
  LET f == LastOf(PlacesIn(c, FileCalls))
  IN IF f = 0 THEN "default" ELSE FirstGiven(c[f], {kDefaultLogFileParam})

(***************************************************************************)
(* What the library has is what the calls come to.  The defaults have the  *)
(* log file too, for the loggers that are not registered yet.              *)
(***************************************************************************)
ArgsInv ==
  /\ calls \in Seq(ArgLists) /\ modules \in Seq(ArgValues)
  /\ level = LevelAfter(calls)
  /\ Len(modules) = Cardinality(PlacesIn(calls, ModuleCalls))
  /\ defaultFile = FileAfter(calls)
  /\ \A id \in DOMAIN loggerFile : loggerFile[id] = FileAfter(calls)

\* One more call counts if it asks for something.
LEMMA CallStep ==
  ASSUME NEW c \in Seq(ArgLists), NEW args \in ArgLists
  PROVE  /\ LevelAfter(Append(c, args)) = IF AsksLevel(args) THEN LevelOf(args) ELSE LevelAfter(c)
         /\ FileAfter(Append(c, args)) =
              IF NamesFile(args) THEN FirstGiven(args, {kDefaultLogFileParam}) ELSE FileAfter(c)
<1> PICK d : d = Append(c, args)
  OBVIOUS
<1>1. PICK N \in Nat : N = Len(c) /\ d[N + 1] = args /\ \A k \in 1..N : d[k] = c[k]
  BY PlacesAppend
<1>2. /\ args \in LevelCalls <=> AsksLevel(args)
      /\ args \in FileCalls <=> NamesFile(args)
  BY DEF LevelCalls, FileCalls
<1>3. ASSUME NEW Q
      PROVE  /\ LastOf(PlacesIn(d, Q)) = IF args \in Q THEN N + 1 ELSE LastOf(PlacesIn(c, Q))
             /\ LastOf(PlacesIn(c, Q)) # 0 => LastOf(PlacesIn(c, Q)) \in 1..N
  BY <1>1, LastAppend
<1>4. N + 1 # 0
  BY <1>1
<1>5. LevelAfter(d) = IF AsksLevel(args) THEN LevelOf(args) ELSE LevelAfter(c)
  <2>1. PICK i, j : i = LastOf(PlacesIn(d, LevelCalls)) /\ j = LastOf(PlacesIn(c, LevelCalls))
    OBVIOUS
  <2>2. i = IF AsksLevel(args) THEN N + 1 ELSE j
    BY <1>2, <1>3, <2>1
  <2>3. j # 0 => j \in 1..N
    BY <1>3, <2>1
  <2>4. LevelAfter(d) = IF i = 0 THEN 0 ELSE LevelOf(d[i])
    BY <2>1 DEF LevelAfter
  <2>5. LevelAfter(c) = IF j = 0 THEN 0 ELSE LevelOf(c[j])
    BY <2>1 DEF LevelAfter
  <2> QED
    BY <1>1, <1>4, <2>2, <2>3, <2>4, <2>5
<1>6. FileAfter(d) = IF NamesFile(args) THEN FirstGiven(args, {kDefaultLogFileParam}) ELSE FileAfter(c)
  <2>1. PICK i, j : i = LastOf(PlacesIn(d, FileCalls)) /\ j = LastOf(PlacesIn(c, FileCalls))
    OBVIOUS
  <2>2. i = IF NamesFile(args) THEN N + 1 ELSE j
    BY <1>2, <1>3, <2>1
  <2>3. j # 0 => j \in 1..N
    BY <1>3, <2>1
  <2>4. FileAfter(d) = IF i = 0 THEN "default" ELSE FirstGiven(d[i], {kDefaultLogFileParam})
    BY <2>1 DEF FileAfter
  <2>5. FileAfter(c) = IF j = 0 THEN "default" ELSE FirstGiven(c[j], {kDefaultLogFileParam})
    BY <2>1 DEF FileAfter
  <2> QED
    BY <1>1, <1>4, <2>2, <2>3, <2>4, <2>5
<1> QED
  BY <1>5, <1>6

LEMMA ArgsInit == AInit => ArgsInv
<1> SUFFICES ASSUME AInit PROVE ArgsInv
  OBVIOUS
<1>1. \A Q : PlacesIn(calls, Q) = {}
  BY DEF AInit, PlacesIn
<1>2. LevelAfter(calls) = 0 /\ FileAfter(calls) = "default"
  BY <1>1 DEF LevelAfter, FileAfter, LastOf
<1>3. Cardinality(PlacesIn(calls, ModuleCalls)) = 0
  BY <1>1, FS_EmptySet
<1> QED
  BY <1>2, <1>3 DEF AInit, ArgsInv

LEMMA ArgumentsStep ==
  ASSUME ArgsInv, NEW args \in ArgLists, setApplicationArguments(args)
  PROVE  ArgsInv'
<1> PICK s : s = setArgs(args)
  OBVIOUS
<1>1. args \in Seq(Arguments)
  BY ArgsAssumption
<1>2. TakenFrom(s, args, Len(args)) /\ setFromArgs(s) /\ calls' = Append(calls, args)
  BY <1>1, SetArgsLaw DEF setApplicationArguments
<1>3. /\ calls \in Seq(ArgLists) /\ modules \in Seq(ArgValues)
      /\ Append(calls, args) \in Seq(ArgLists)
  BY DEF ArgsInv
<1>4. /\ level' = IF AsksLevel(args) THEN LevelOf(args) ELSE level
      /\ AsksModules(args) => \E v \in ArgValues : modules' = Append(modules, v)
      /\ ~AsksModules(args) => modules' = modules
  BY <1>1, <1>2, LevelStep
<1>5. level' = LevelAfter(calls)'
  BY <1>2, <1>3, <1>4, CallStep DEF ArgsInv
<1>6. modules' \in Seq(ArgValues) /\ Len(modules)' = Cardinality(PlacesIn(calls, ModuleCalls))'
  <2>1. args \in ModuleCalls <=> AsksModules(args)
    BY DEF ModuleCalls
  <2>2. PICK n : n = Cardinality(PlacesIn(calls, ModuleCalls))
    OBVIOUS
  <2>3. Len(modules) = n /\ Cardinality(PlacesIn(calls', ModuleCalls)) = IF AsksModules(args) THEN n + 1 ELSE n
    BY <1>2, <1>3, <2>1, <2>2, CountAppend DEF ArgsInv
  <2>4. ASSUME NEW v \in ArgValues PROVE Append(modules, v) \in Seq(ArgValues) /\ Len(Append(modules, v)) = n + 1
    BY <1>3, <2>3, AppendProperties
  <2> QED
    BY <1>3, <1>4, <2>3, <2>4
<1>7. PICK file : file = FileAfter(calls)
  OBVIOUS
<1>8. /\ hasParamWithValue(s, kDefaultLogFileParam) <=> NamesFile(args)
      /\ NamesFile(args) => s.withValue[kDefaultLogFileParam] = FirstGiven(args, {kDefaultLogFileParam})
  BY <1>1, <1>2, FoundFirst DEF NamesFile
<1>9. FileAfter(calls)' = IF NamesFile(args) THEN FirstGiven(args, {kDefaultLogFileParam}) ELSE file
  BY <1>2, <1>3, <1>7, CallStep
<1>10. defaultFile' = FileAfter(calls)' /\ \A id \in DOMAIN loggerFile' : loggerFile'[id] = FileAfter(calls)'
  <2>1. CASE NamesFile(args)
    <3>1. /\ defaultFile' = s.withValue[kDefaultLogFileParam]
          /\ loggerFile' = [id \in DOMAIN loggerFile |-> s.withValue[kDefaultLogFileParam]]
      BY <1>8, <2>1 DEF setApplicationArguments
    <3> QED
      BY <1>8, <1>9, <2>1, <3>1
  <2>2. CASE ~NamesFile(args)
    <3>1. UNCHANGED <<defaultFile, loggerFile>>
      BY <1>8, <2>2 DEF setApplicationArguments
    <3> QED
      BY <1>7, <1>9, <2>2, <3>1 DEF ArgsInv
  <2> QED
    BY <2>1, <2>2
<1> QED
  BY <1>2, <1>3, <1>5, <1>6, <1>10 DEF ArgsInv

LEMMA ArgsNext == ArgsInv /\ [ANext]_avars => ArgsInv'
<1> SUFFICES ASSUME ArgsInv, [ANext]_avars PROVE ArgsInv'
  OBVIOUS
<1>1. ASSUME NEW args \in ArgLists, setApplicationArguments(args) PROVE ArgsInv'
  BY <1>1, ArgumentsStep
<1>2. ASSUME NEW id \in ArgLoggers, RegisterLogger(id) PROVE ArgsInv'
  <2>1. PICK file : file = FileAfter(calls)
    OBVIOUS
  <2>2. UNCHANGED <<calls, modules, level, defaultFile>> /\ loggerFile' = Stored(loggerFile, id, defaultFile)
    BY <1>2 DEF RegisterLogger
  <2>3. FileAfter(calls)' = file
    BY <2>1, <2>2 DEF FileAfter
  <2>4. LevelAfter(calls)' = LevelAfter(calls) /\ PlacesIn(calls, ModuleCalls)' = PlacesIn(calls, ModuleCalls)
    BY <2>2 DEF LevelAfter
  <2>5. \A i \in DOMAIN loggerFile' : loggerFile'[i] = file
    BY <2>1, <2>2 DEF Stored, ArgsInv
  <2> QED
    BY <2>1, <2>2, <2>3, <2>4, <2>5 DEF ArgsInv
<1>3. CASE UNCHANGED avars
  <2>1. UNCHANGED <<calls, modules, level, defaultFile, loggerFile>>
    BY <1>3 DEF avars
  <2> QED
    BY <2>1 DEF ArgsInv, LevelAfter, FileAfter
<1> QED
  BY <1>1, <1>2, <1>3 DEF ANext

\* The level, the lists of modules and the log files are those of the calls.
THEOREM ArgsTheorem == AInit /\ [][ANext]_avars => []ArgsAsGiven
<1>1. ArgsInv => ArgsAsGiven
  <2> SUFFICES ASSUME ArgsInv PROVE ArgsAsGiven
    OBVIOUS
  <2>1. PICK N \in Nat : DOMAIN calls = 1..N /\ \A k \in 1..N : calls[k] \in ArgLists
    BY LenProperties, ElementOfSeq DEF ArgsInv
  <2>2. /\ PlacesIn(calls, LevelCalls) = {c \in DOMAIN calls : AsksLevel(calls[c])}
        /\ PlacesIn(calls, FileCalls) = {c \in DOMAIN calls : NamesFile(calls[c])}
        /\ PlacesIn(calls, ModuleCalls) = {c \in DOMAIN calls : AsksModules(calls[c])}
    BY <2>1 DEF PlacesIn, LevelCalls, FileCalls, ModuleCalls
  <2> QED
    BY <2>2 DEF ArgsInv, ArgsAsGiven, LevelAfter, FileAfter, LevelOf
<1> QED
  BY <1>1, ArgsInit, ArgsNext, PTL

-----------------------------------------------------------------------------
(***************************************************************************)
(* Dates.                                                                  *)
(***************************************************************************)

\* Characters that the library writes, and those of formats.
Figures == {"0", "1", "2", "3", "4", "5", "6", "7", "8", "9"}
Tokens == UNION {Range(f) : f \in DateFormats}
Characters == Figures \cup {"S", "u", "n", "d", "a", "y", "J", "r", "A", "P", "M", "%"} \cup Tokens

\* The beginning of a text.
LEMMA FirstLaw ==
  ASSUME NEW S, NEW s \in Seq(S), NEW K \in Nat
  PROVE  /\ First(s, K) \in Seq(S) /\ Len(First(s, K)) \in Nat
         /\ Len(First(s, K)) = IF Len(s) <= K THEN Len(s) ELSE K
         /\ \A i \in 1..Len(First(s, K)) : First(s, K)[i] = s[i]
<1>1. PICK N \in Nat : N = Len(s)
  BY LenProperties
<1>2. CASE N <= K
  BY <1>1, <1>2 DEF First
<1>3. CASE N > K
  <2>1. SubSeq(s, 1, K) \in Seq(S) /\ Len(SubSeq(s, 1, K)) = K /\ \A i \in 1..K : SubSeq(s, 1, K)[i] = s[i]
    BY <1>1, <1>3
  <2> QED
    BY <1>1, <1>3, <2>1 DEF First
<1> QED
  BY <1>1, <1>2, <1>3

\* A text behind a text, of which there is as much as goes in, and the rest of the room.
BothFit(s, t, K) == First(s, K) \o First(t, K - Len(First(s, K))) = First(s \o t, K)

LEMMA FirstOfBoth ==
  ASSUME NEW S, NEW s \in Seq(S), NEW t \in Seq(S), NEW K \in Nat
  PROVE  /\ BothFit(s, t, K)
         /\ Len(s) >= K => First(s \o t, K) = First(s, K)
<1>1. PICK M \in Nat, N \in Nat : M = Len(s) /\ N = Len(t)
  BY LenProperties
<1> PICK a : a = First(s, K)
  OBVIOUS
<1> PICK b : b = First(t, K - Len(a))
  OBVIOUS
<1> PICK u : u = s \o t
  OBVIOUS
<1>2. a = First(s, K) /\ b = First(t, K - Len(a)) /\ u = s \o t
  OBVIOUS
<1>3. PICK A \in Nat : A = (IF M <= K THEN M ELSE K) /\ A = Len(a) /\ a \in Seq(S) /\ \A i \in 1..A : a[i] = s[i]
  <2>1. a \in Seq(S) /\ Len(a) \in Nat /\ Len(a) = (IF M <= K THEN M ELSE K) /\ \A i \in 1..Len(a) : a[i] = s[i]
    BY <1>1, <1>2, FirstLaw
  <2> QED
    BY <2>1
<1>4. PICK R \in Nat : R = K - A
  BY <1>3
<1>5. PICK B \in Nat : B = (IF N <= R THEN N ELSE R) /\ B = Len(b) /\ b \in Seq(S) /\ \A i \in 1..B : b[i] = t[i]
  <2>1. b = First(t, R)
    BY <1>2, <1>3, <1>4
  <2>2. b \in Seq(S) /\ Len(b) \in Nat /\ Len(b) = (IF N <= R THEN N ELSE R) /\ \A i \in 1..Len(b) : b[i] = t[i]
    BY <1>1, <2>1, FirstLaw
  <2> QED
    BY <2>2
<1>6. /\ u \in Seq(S) /\ Len(u) = M + N /\ \A i \in 1..M : u[i] = s[i]
      /\ \A i \in (M + 1)..(M + N) : u[i] = t[i - M]
  BY <1>1, <1>2, ConcatProperties
<1>7. PICK f : f = First(u, K)
  OBVIOUS
<1>8. PICK C \in Nat : C = (IF M + N <= K THEN M + N ELSE K) /\ C = Len(f) /\ f \in Seq(S) /\ \A i \in 1..C : f[i] = u[i]
  <2>1. f \in Seq(S) /\ Len(f) \in Nat /\ Len(f) = (IF Len(u) <= K THEN Len(u) ELSE K) /\ \A i \in 1..Len(f) : f[i] = u[i]
    BY <1>6, <1>7, FirstLaw
  <2> QED
    BY <1>6, <2>1
<1>9. a \o b = f
  <2>1. PICK c : c = a \o b
    OBVIOUS
  <2>2. /\ c \in Seq(S) /\ Len(c) = A + B /\ \A i \in 1..A : c[i] = a[i]
        /\ \A i \in (A + 1)..(A + B) : c[i] = b[i - A]
    <3>1. /\ c \in Seq(S) /\ Len(c) = Len(a) + Len(b) /\ \A i \in 1..Len(a) : c[i] = a[i]
          /\ \A i \in (Len(a) + 1)..(Len(a) + Len(b)) : c[i] = b[i - Len(a)]
      BY <1>3, <1>5, <2>1, ConcatProperties
    <3> QED
      BY <1>3, <1>5, <3>1
  <2>3. A + B = C
    BY <1>3, <1>4, <1>5, <1>8
  <2>4. ASSUME NEW i \in 1..C PROVE c[i] = f[i]
    <3>1. CASE i <= A
      <4>1. i \in 1..A /\ i \in 1..M
        BY <1>3, <3>1
      <4> QED
        BY <1>3, <1>6, <1>8, <2>2, <4>1
    <3>2. CASE i > A
      <4>1. A = M /\ i \in (A + 1)..(A + B) /\ i - A \in 1..B /\ i \in (M + 1)..(M + N)
        <5>1. i \in (A + 1)..(A + B) /\ i - A \in 1..B
          BY <2>3, <3>2
        <5>2. A = M
          BY <1>3, <1>4, <1>5, <5>1
        <5>3. B <= N
          BY <1>5
        <5> QED
          BY <5>1, <5>2, <5>3
      <4>2. c[i] = b[i - A] /\ b[i - A] = t[i - A] /\ u[i] = t[i - M] /\ f[i] = u[i]
        BY <1>5, <1>6, <1>8, <2>2, <4>1
      <4> QED
        BY <4>1, <4>2
    <3> QED
      BY <3>1, <3>2
  <2> QED
    BY <1>8, <2>1, <2>2, <2>3, <2>4, SeqEqual
<1>10. M >= K => f = a
  <2> SUFFICES ASSUME M >= K PROVE f = a
    OBVIOUS
  <2>1. A = K /\ C = K /\ \A i \in 1..K : f[i] = a[i]
    <3>1. A = K /\ C = K
      BY <1>3, <1>8
    <3>2. ASSUME NEW i \in 1..K PROVE f[i] = a[i]
      <4>1. i \in 1..M
        OBVIOUS
      <4> QED
        BY <1>3, <1>6, <1>8, <3>1, <4>1
    <3> QED
      BY <3>1, <3>2
  <2> QED
    BY <1>3, <1>8, <2>1, SeqEqual
<1> QED
  BY <1>1, <1>2, <1>7, <1>9, <1>10 DEF BothFit

-----------------------------------------------------------------------------
LEMMA DigitType == \A d \in 0..9 : Digit(d) \in Figures
<1> SUFFICES ASSUME NEW d \in 0..9 PROVE Digit(d) \in Figures
  OBVIOUS
<1>1. d = 0 \/ d = 1 \/ d = 2 \/ d = 3 \/ d = 4 \/ d = 5 \/ d = 6 \/ d = 7 \/ d = 8 \/ d = 9
  OBVIOUS
<1> QED
  BY <1>1 DEF Digit, Figures

LEMMA DigitsType ==
  ASSUME NEW n \in Nat, NEW len \in 0..6
  PROVE  /\ Digits(n, len) \in Seq(Figures) /\ Len(Digits(n, len)) = len
         /\ \A i \in 1..len : Digits(n, len)[i] = Digit((n \div Tens[len - i + 1]) % 10)
<1>1. ASSUME NEW i \in 1..len PROVE Digit((n \div Tens[len - i + 1]) % 10) \in Figures
  <2>1. len - i + 1 \in 1..6
    OBVIOUS
  <2>2. \A k \in 1..6 : Tens[k] \in {1, 10, 100, 1000, 10000, 100000}
    <3> SUFFICES ASSUME NEW k \in 1..6 PROVE Tens[k] \in {1, 10, 100, 1000, 10000, 100000}
      OBVIOUS
    <3>1. k = 1 \/ k = 2 \/ k = 3 \/ k = 4 \/ k = 5 \/ k = 6
      OBVIOUS
    <3> QED
      BY <3>1 DEF Tens
  <2>3. PICK t \in {1, 10, 100, 1000, 10000, 100000} : t = Tens[len - i + 1]
    BY <2>1, <2>2
  <2>4. n \div t \in Nat
    OBVIOUS
  <2>5. (n \div t) % 10 \in 0..9
    BY <2>4
  <2> QED
    BY <2>3, <2>5, DigitType
<1>2. PICK f : f = [i \in 1..len |-> Digit((n \div Tens[len - i + 1]) % 10)]
  OBVIOUS
<1>3. f \in Seq(Figures) /\ Len(f) = len
  BY <1>1, <1>2
<1> QED
  BY <1>2, <1>3 DEF Digits

LEMMA TensAre ==
  /\ Tens[1] = 1 /\ Tens[2] = 10 /\ Tens[3] = 100 /\ Tens[4] = 1000 /\ Tens[5] = 10000 /\ Tens[6] = 100000
  BY DEF Tens

LEMMA TwoDigitsType ==
  ASSUME NEW n \in 0..99
  PROVE  /\ TwoDigits(n) \in Seq(Figures) /\ Len(TwoDigits(n)) = 2
         /\ TwoDigits(n)[1] = Digit(n \div 10) /\ TwoDigits(n)[2] = Digit(n % 10)
<1>1. n \div 10 \in 0..9 /\ n % 10 \in 0..9
  OBVIOUS
<1>2. PICK a \in Figures, b \in Figures : a = Digit(n \div 10) /\ b = Digit(n % 10)
  BY <1>1, DigitType
<1>3. TwoDigits(n) = <<a, b>>
  BY <1>2 DEF TwoDigits
<1> QED
  BY <1>2, <1>3

\* The last two digits of a number.
LEMMA LastTwo ==
  ASSUME NEW n \in Nat
  PROVE  Digits(n, 2) = TwoDigits(n % 100)
<1>1. n % 100 \in 0..99
  OBVIOUS
<1>2. (n \div 10) % 10 = (n % 100) \div 10 /\ (n \div 1) % 10 = (n % 100) % 10
  OBVIOUS
<1>3. PICK d, t : d = Digits(n, 2) /\ t = TwoDigits(n % 100)
  OBVIOUS
<1>4. d \in Seq(Figures) /\ Len(d) = 2 /\ d[1] = Digit((n \div Tens[2]) % 10) /\ d[2] = Digit((n \div Tens[1]) % 10)
  <2>3. 2 \in 0..6
    OBVIOUS
  <2>1. /\ d \in Seq(Figures) /\ Len(d) = 2
        /\ \A i \in 1..2 : d[i] = Digit((n \div Tens[2 - i + 1]) % 10)
    BY <1>3, <2>3, DigitsType, Zenon
  <2>2. 1 \in 1..2 /\ 2 \in 1..2 /\ 2 - 1 + 1 = 2 /\ 2 - 2 + 1 = 1
    OBVIOUS
  <2> QED
    BY <2>1, <2>2
<1>5. t \in Seq(Figures) /\ Len(t) = 2 /\ t[1] = Digit((n % 100) \div 10) /\ t[2] = Digit((n % 100) % 10)
  BY <1>1, <1>3, TwoDigitsType
<1>6. d[1] = t[1] /\ d[2] = t[2]
  BY <1>2, <1>4, <1>5, TensAre
<1>7. \A i \in 1..2 : i = 1 \/ i = 2
  OBVIOUS
<1>8. \A i \in 1..Len(d) : d[i] = t[i]
  BY <1>4, <1>6, <1>7
<1> QED
  BY <1>3, <1>4, <1>5, <1>8, SeqEqual

Pairs == {s \in Seq(Figures) : Len(s) = 2}
FourOf(t, a, b) == t \in Seq(Figures) /\ Len(t) = 4 /\ t[1] = a[1] /\ t[2] = a[2] /\ t[3] = b[1] /\ t[4] = b[2]

LEMMA TwoPairs ==
  ASSUME NEW a \in Pairs, NEW b \in Pairs
  PROVE  FourOf(a \o b, a, b)
<1> PICK S : S = Figures
  OBVIOUS
<1> PICK t : t = a \o b
  OBVIOUS
<1>1. a \in Seq(S) /\ b \in Seq(S) /\ Len(a) = 2 /\ Len(b) = 2
  BY DEF Pairs
<1>2. /\ t \in Seq(S) /\ Len(t) = 4
      /\ \A i \in 1..4 : t[i] = IF i <= 2 THEN a[i] ELSE b[i - 2]
  <2>1. /\ t \in Seq(S) /\ Len(t) = Len(a) + Len(b)
        /\ \A i \in 1..Len(a) + Len(b) : t[i] = IF i <= Len(a) THEN a[i] ELSE b[i - Len(a)]
    BY <1>1, ConcatProperties, Zenon
  <2>2. 2 + 2 = 4
    OBVIOUS
  <2>3. \A i \in 1..2 + 2 : t[i] = IF i <= 2 THEN a[i] ELSE b[i - 2]
    BY <1>1, <2>1, Zenon
  <2>4. Len(t) = 2 + 2
    BY <1>1, <2>1, Zenon
  <2> QED
    BY <2>1, <2>2, <2>3, <2>4, Zenon
<1>3. t[1] = a[1] /\ t[2] = a[2]
  BY <1>2
<1>4. t[3] = b[1] /\ t[4] = b[2]
  <2>1. 3 \in 1..4 /\ 4 \in 1..4 /\ ~(3 <= 2) /\ ~(4 <= 2) /\ 3 - 2 = 1 /\ 4 - 2 = 2
    OBVIOUS
  <2> QED
    BY <1>2, <2>1
<1> QED
  BY <1>2, <1>3, <1>4 DEF FourOf

\* A year in four digits.
Years == {n \in Nat : n < 10000}

LEMMA YearHalves ==
  ASSUME NEW n \in Years
  PROVE  /\ n % 100 \in 0..99 /\ n \div 100 \in 0..99 /\ n \in Nat
         /\ (n \div 1000) % 10 = (n \div 100) \div 10 /\ (n \div 100) % 10 = (n \div 100) % 10
         /\ (n \div 10) % 10 = (n % 100) \div 10 /\ (n \div 1) % 10 = (n % 100) % 10
<1>1. n \in Nat /\ n < 10000
  BY SMT DEF Years
<1>2. n \div 100 \in Nat /\ n \div 100 < 100
  BY <1>1
<1> QED
  BY <1>1, <1>2

LEMMA FourDigits ==
  ASSUME NEW n \in Years
  PROVE  Digits(n, 4) = TwoDigits(n \div 100) \o TwoDigits(n % 100)
<1>1. n % 100 \in 0..99 /\ n \div 100 \in 0..99 /\ n \in Nat
  BY YearHalves
<1>2. /\ (n \div 1000) % 10 = (n \div 100) \div 10 /\ (n \div 100) % 10 = (n \div 100) % 10
      /\ (n \div 10) % 10 = (n % 100) \div 10 /\ (n \div 1) % 10 = (n % 100) % 10
  BY YearHalves
<1>3. PICK d, a, b : d = Digits(n, 4) /\ a = TwoDigits(n \div 100) /\ b = TwoDigits(n % 100)
  OBVIOUS
<1> PICK t : t = a \o b
  OBVIOUS
<1>4. d \in Seq(Figures) /\ Len(d) = 4 /\ \A i \in 1..4 : d[i] = Digit((n \div Tens[4 - i + 1]) % 10)
  <2>1. 4 \in 0..6
    OBVIOUS
  <2> QED
    BY <1>1, <1>3, <2>1, DigitsType, Zenon
<1>5. /\ a \in Seq(Figures) /\ Len(a) = 2 /\ a[1] = Digit((n \div 100) \div 10) /\ a[2] = Digit((n \div 100) % 10)
      /\ b \in Seq(Figures) /\ Len(b) = 2 /\ b[1] = Digit((n % 100) \div 10) /\ b[2] = Digit((n % 100) % 10)
  BY <1>1, <1>3, TwoDigitsType
<1>6. t \in Seq(Figures) /\ Len(t) = 4 /\ t[1] = a[1] /\ t[2] = a[2] /\ t[3] = b[1] /\ t[4] = b[2]
  <2>1. a \in Pairs /\ b \in Pairs
    BY <1>5 DEF Pairs
  <2> QED
    BY <2>1, TwoPairs DEF FourOf
<1>7. /\ d[1] = Digit((n \div 1000) % 10) /\ d[2] = Digit((n \div 100) % 10)
      /\ d[3] = Digit((n \div 10) % 10) /\ d[4] = Digit((n \div 1) % 10)
  <2>1. 4 - 1 + 1 = 4 /\ 4 - 2 + 1 = 3 /\ 4 - 3 + 1 = 2 /\ 4 - 4 + 1 = 1
    OBVIOUS
  <2> QED
    BY <1>4, <2>1, TensAre
<1>8. \A i \in 1..4 : i = 1 \/ i = 2 \/ i = 3 \/ i = 4
  OBVIOUS
<1>9. d[1] = t[1] /\ d[2] = t[2] /\ d[3] = t[3] /\ d[4] = t[4]
  <2>1. /\ d[1] = Digit((n \div 100) \div 10) /\ d[2] = Digit((n \div 100) % 10)
        /\ d[3] = Digit((n % 100) \div 10) /\ d[4] = Digit((n % 100) % 10)
    BY <1>2, <1>7
  <2>2. t[1] = Digit((n \div 100) \div 10) /\ t[2] = Digit((n \div 100) % 10)
    BY <1>5, <1>6
  <2>3. t[3] = Digit((n % 100) \div 10) /\ t[4] = Digit((n % 100) % 10)
    BY <1>5, <1>6
  <2> QED
    BY <2>1, <2>2, <2>3
<1>10. \A i \in 1..Len(d) : d[i] = t[i]
  BY <1>4, <1>8, <1>9
<1>11. d = t
  BY <1>4, <1>6, <1>10, SeqEqual
<1> QED
  BY <1>3, <1>11

\* The part of a second in a width of three digits or more.
Micros == {n \in Nat : n < 1000000}

LEMMA Subsecond ==
  ASSUME NEW n \in Micros, NEW w \in 3..6, NEW p, p = SubsecondPrecision(w)
  PROVE  Digits(n \div p.offset, p.width) = SubSeq(Digits(n, 6), 1, w)
<1>1. /\ p.width = w
      /\ w = 3 => p.offset = 1000
      /\ w = 4 => p.offset = 100
      /\ w = 5 => p.offset = 10
      /\ w = 6 => p.offset = 1
  BY DEF SubsecondPrecision
<1>2. n \in Nat /\ (w = 3 \/ w = 4 \/ w = 5 \/ w = 6)
  <2>1. n \in Nat
    BY SMT DEF Micros
  <2> QED
    BY <2>1
<1>3. /\ n \div 1000 \in Nat /\ n \div 100 \in Nat /\ n \div 10 \in Nat /\ n \div 1 \in Nat /\ n \div 1 = n
      /\ (n \div 1000) \div 1 = n \div 1000 /\ (n \div 1000) \div 10 = n \div 10000 /\ (n \div 1000) \div 100 = n \div 100000
      /\ (n \div 100) \div 1 = n \div 100 /\ (n \div 100) \div 10 = n \div 1000
      /\ (n \div 100) \div 100 = n \div 10000 /\ (n \div 100) \div 1000 = n \div 100000
      /\ (n \div 10) \div 1 = n \div 10 /\ (n \div 10) \div 10 = n \div 100 /\ (n \div 10) \div 100 = n \div 1000
      /\ (n \div 10) \div 1000 = n \div 10000 /\ (n \div 10) \div 10000 = n \div 100000
  BY <1>2
<1>4. PICK m \in Nat : m = n \div p.offset
  BY <1>1, <1>2, <1>3
<1>5. PICK d, e, t : d = Digits(m, w) /\ e = Digits(n, 6) /\ t = SubSeq(e, 1, w)
  OBVIOUS
<1>6. d \in Seq(Figures) /\ Len(d) = w /\ \A i \in 1..w : d[i] = Digit((m \div Tens[w - i + 1]) % 10)
  <2>1. w \in 0..6
    OBVIOUS
  <2> QED
    BY <1>5, <2>1, DigitsType, Zenon
<1>7. e \in Seq(Figures) /\ Len(e) = 6 /\ \A i \in 1..6 : e[i] = Digit((n \div Tens[6 - i + 1]) % 10)
  BY <1>2, <1>5, DigitsType
<1>8. t \in Seq(Figures) /\ Len(t) = w /\ \A i \in 1..w : t[i] = e[i]
  BY <1>2, <1>5, <1>7
<1>9. ASSUME NEW i \in 1..w PROVE m \div Tens[w - i + 1] = n \div Tens[6 - i + 1]
  <2>1. CASE w = 3
    <3>1. m = n \div 1000 /\ (i = 1 \/ i = 2 \/ i = 3)
      BY <1>1, <1>4, <2>1
    <3> QED
      BY <1>3, <2>1, <3>1, TensAre
  <2>2. CASE w = 4
    <3>1. m = n \div 100 /\ (i = 1 \/ i = 2 \/ i = 3 \/ i = 4)
      BY <1>1, <1>4, <2>2
    <3> QED
      BY <1>3, <2>2, <3>1, TensAre
  <2>3. CASE w = 5
    <3>1. m = n \div 10 /\ (i = 1 \/ i = 2 \/ i = 3 \/ i = 4 \/ i = 5)
      BY <1>1, <1>4, <2>3
    <3> QED
      BY <1>3, <2>3, <3>1, TensAre
  <2>4. CASE w = 6
    <3>1. m = n
      BY <1>1, <1>3, <1>4, <2>4
    <3> QED
      BY <2>4, <3>1
  <2> QED
    BY <1>2, <2>1, <2>2, <2>3, <2>4
<1>10. \A i \in 1..Len(d) : d[i] = t[i]
  <2>1. ASSUME NEW i \in 1..w PROVE d[i] = t[i]
    <3>1. i \in 1..6
      OBVIOUS
    <3> QED
      BY <1>6, <1>7, <1>8, <1>9, <3>1
  <2> QED
    BY <1>6, <2>1
<1>11. d = t
  BY <1>6, <1>8, <1>10, SeqEqual
<1> QED
  BY <1>1, <1>4, <1>5, <1>11, Zenon

-----------------------------------------------------------------------------
\* What stands for a specifier.
Spells(str, token) ==
  /\ str \in Seq(Characters) /\ Specified(token) = addToBuff(str)
  /\ widthGiven \notin {1, 2} => str = Meaning(token, moment, widthGiven)

\* The clock and the width are as they were given.
TimeType ==
  /\ moment \in Moments /\ widthGiven \in 0..7 /\ precision = SubsecondPrecision(widthGiven)
  /\ formatGiven \in DateFormats

LEMMA Shorter ==
  ASSUME NEW n \in 0..99
  PROVE  Digits(n, 2) = TwoDigits(n) /\ TwoDigits(n) \in Seq(Characters)
<1>1. n \in Nat /\ n % 100 = n
  OBVIOUS
<1>2. Digits(n, 2) = TwoDigits(n) /\ TwoDigits(n) \in Seq(Figures)
  BY <1>1, LastTwo, TwoDigitsType
<1>3. Figures \subseteq Characters
  BY DEF Characters
<1> QED
  BY <1>2, <1>3

\* Letters.
LEMMA Names ==
  /\ Day \in Seq(Characters) /\ Abbrev(Day) \in Seq(Characters)
  /\ Month \in Seq(Characters) /\ Abbrev(Month) \in Seq(Characters)
  /\ <<"A", "M">> \in Seq(Characters) /\ <<"P", "M">> \in Seq(Characters)
<1>1. {"S", "u", "n", "d", "a", "y", "J", "r", "A", "P", "M"} \subseteq Characters
  BY DEF Characters
<1>2. PICK C : C = Characters /\ {"S", "u", "n", "d", "a", "y", "J", "r", "A", "P", "M"} \subseteq C
  BY <1>1
<1>3. Day \in Seq(C) /\ Month \in Seq(C) /\ <<"A", "M">> \in Seq(C) /\ <<"P", "M">> \in Seq(C)
  BY <1>2 DEF Day, Month
<1>4. Len(Day) = 6 /\ Len(Month) = 7
  BY DEF Day, Month
<1>5. ASSUME NEW s \in Seq(C), Len(s) >= 3 PROVE Abbrev(s) \in Seq(C)
  BY <1>5, SubSeqProperties DEF Abbrev
<1>6. Abbrev(Day) \in Seq(C) /\ Abbrev(Month) \in Seq(C)
  <2>1. PICK d, m : d = Day /\ m = Month
    OBVIOUS
  <2>2. d \in Seq(C) /\ m \in Seq(C) /\ Len(d) = 6 /\ Len(m) = 7
    BY <1>3, <1>4, <2>1, Zenon
  <2>3. Len(d) >= 3 /\ Len(m) >= 3
    BY <2>2
  <2> QED
    BY <1>5, <2>1, <2>2, <2>3, Zenon
<1> QED
  BY <1>2, <1>3, <1>6

LEMMA Spelled ==
  ASSUME TimeType, NEW token \in DateSpecifiers
  PROVE  \E str : Spells(str, token)
<1>1. /\ moment.day \in 0..99 /\ moment.month \in 0..99 /\ moment.year \in Years
      /\ moment.hour \in 0..99 /\ moment.hour % 12 \in 0..99 /\ moment.min \in 0..99
      /\ moment.sec \in 0..99 /\ moment.usec \in Micros
  <2>1. /\ moment.day \in 1..31 /\ moment.month \in 1..12 /\ moment.year \in Years
        /\ moment.hour \in 0..23 /\ moment.min \in 0..59
        /\ moment.sec \in 0..60 /\ moment.usec \in Micros
    BY MomentsAssumption, SMT DEF TimeType, Years, Micros
  <2>2. moment.hour % 12 \in 0..11
    BY <2>1
  <2>3. \A n : n \in 1..31 \/ n \in 1..12 \/ n \in 0..23 \/ n \in 0..59 \/ n \in 0..60 \/ n \in 0..11 => n \in 0..99
    OBVIOUS
  <2> QED
    BY <2>1, <2>2, <2>3
<1>2. Figures \subseteq Characters /\ \A s \in Seq(Figures) : s \in Seq(Characters)
  BY DEF Characters
<1>3. CASE token = "%d"
  <2>1. Specified(token) = addToBuff(Digits(moment.day, 2)) /\ Meaning(token, moment, widthGiven) = TwoDigits(moment.day)
    BY <1>3 DEF Specified, Meaning, Ignored, convertAndAddToBuff
  <2>2. Digits(moment.day, 2) = TwoDigits(moment.day) /\ TwoDigits(moment.day) \in Seq(Characters)
    BY <1>1, Shorter
  <2> QED
    BY <2>1, <2>2 DEF Spells
<1>4. CASE token = "%a"
  <2>1. Specified(token) = addToBuff(Abbrev(Day)) /\ Meaning(token, moment, widthGiven) = Abbrev(Day)
    BY <1>4 DEF Specified, Meaning, Ignored
  <2> QED
    BY <2>1, Names DEF Spells
<1>5. CASE token = "%A"
  <2>1. Specified(token) = addToBuff(Day) /\ Meaning(token, moment, widthGiven) = Day
    BY <1>5 DEF Specified, Meaning, Ignored
  <2> QED
    BY <2>1, Names DEF Spells
<1>6. CASE token = "%M"
  <2>1. Specified(token) = addToBuff(Digits(moment.month, 2)) /\ Meaning(token, moment, widthGiven) = TwoDigits(moment.month)
    BY <1>6 DEF Specified, Meaning, Ignored, convertAndAddToBuff
  <2>2. Digits(moment.month, 2) = TwoDigits(moment.month) /\ TwoDigits(moment.month) \in Seq(Characters)
    BY <1>1, Shorter
  <2> QED
    BY <2>1, <2>2 DEF Spells
<1>7. CASE token = "%b"
  <2>1. Specified(token) = addToBuff(Abbrev(Month)) /\ Meaning(token, moment, widthGiven) = Abbrev(Month)
    BY <1>7 DEF Specified, Meaning, Ignored
  <2> QED
    BY <2>1, Names DEF Spells
<1>8. CASE token = "%B"
  <2>1. Specified(token) = addToBuff(Month) /\ Meaning(token, moment, widthGiven) = Month
    BY <1>8 DEF Specified, Meaning, Ignored
  <2> QED
    BY <2>1, Names DEF Spells
<1>9. CASE token = "%y"
  <2>1. /\ Specified(token) = addToBuff(Digits(moment.year, 2))
        /\ Meaning(token, moment, widthGiven) = TwoDigits(moment.year % 100)
    BY <1>9 DEF Specified, Meaning, Ignored, convertAndAddToBuff
  <2>2. moment.year \in Nat /\ moment.year % 100 \in 0..99
    BY <1>1, YearHalves
  <2>3. Digits(moment.year, 2) = TwoDigits(moment.year % 100) /\ TwoDigits(moment.year % 100) \in Seq(Characters)
    BY <2>2, LastTwo, Shorter
  <2> QED
    BY <2>1, <2>3 DEF Spells
<1>10. CASE token = "%Y"
  <2>1. /\ Specified(token) = addToBuff(Digits(moment.year, 4))
        /\ Meaning(token, moment, widthGiven) = TwoDigits(moment.year \div 100) \o TwoDigits(moment.year % 100)
    BY <1>10 DEF Specified, Meaning, Ignored, convertAndAddToBuff
  <2>2. moment.year \in Nat /\ 4 \in 0..6
    BY <1>1, YearHalves
  <2>3. Digits(moment.year, 4) \in Seq(Figures)
    BY <2>2, DigitsType
  <2>4. Digits(moment.year, 4) = TwoDigits(moment.year \div 100) \o TwoDigits(moment.year % 100)
    BY <1>1, FourDigits
  <2> QED
    BY <1>2, <2>1, <2>3, <2>4, Zenon DEF Spells
<1>11. CASE token = "%h"
  <2>1. Specified(token) = addToBuff(Digits(moment.hour % 12, 2)) /\ Meaning(token, moment, widthGiven) = TwoDigits(moment.hour % 12)
    BY <1>11 DEF Specified, Meaning, Ignored, convertAndAddToBuff
  <2>2. Digits(moment.hour % 12, 2) = TwoDigits(moment.hour % 12) /\ TwoDigits(moment.hour % 12) \in Seq(Characters)
    BY <1>1, Shorter
  <2> QED
    BY <2>1, <2>2 DEF Spells
<1>12. CASE token = "%H"
  <2>1. Specified(token) = addToBuff(Digits(moment.hour, 2)) /\ Meaning(token, moment, widthGiven) = TwoDigits(moment.hour)
    BY <1>12 DEF Specified, Meaning, Ignored, convertAndAddToBuff
  <2>2. Digits(moment.hour, 2) = TwoDigits(moment.hour) /\ TwoDigits(moment.hour) \in Seq(Characters)
    BY <1>1, Shorter
  <2> QED
    BY <2>1, <2>2 DEF Spells
<1>13. CASE token = "%m"
  <2>1. Specified(token) = addToBuff(Digits(moment.min, 2)) /\ Meaning(token, moment, widthGiven) = TwoDigits(moment.min)
    BY <1>13 DEF Specified, Meaning, Ignored, convertAndAddToBuff
  <2>2. Digits(moment.min, 2) = TwoDigits(moment.min) /\ TwoDigits(moment.min) \in Seq(Characters)
    BY <1>1, Shorter
  <2> QED
    BY <2>1, <2>2 DEF Spells
<1>14. CASE token = "%s"
  <2>1. Specified(token) = addToBuff(Digits(moment.sec, 2)) /\ Meaning(token, moment, widthGiven) = TwoDigits(moment.sec)
    BY <1>14 DEF Specified, Meaning, Ignored, convertAndAddToBuff
  <2>2. Digits(moment.sec, 2) = TwoDigits(moment.sec) /\ TwoDigits(moment.sec) \in Seq(Characters)
    BY <1>1, Shorter
  <2> QED
    BY <2>1, <2>2 DEF Spells
<1>15. CASE token \in {"%z", "%g"}
  <2> PICK w : w = IF widthGiven \in 1..6 THEN widthGiven ELSE kDefaultSubsecondPrecision
    OBVIOUS
  <2>1. /\ Specified(token) = addToBuff(Digits(moment.usec \div precision.offset, precision.width))
        /\ Meaning(token, moment, widthGiven) = SubSeq(Digits(moment.usec, 6), 1, w)
    BY <1>15 DEF Specified, Meaning, Ignored, convertAndAddToBuff
  <2>2. w \in 1..6 /\ (widthGiven \notin {1, 2} => w \in 3..6) /\ precision = SubsecondPrecision(w)
    BY BufferAssumption DEF TimeType, SubsecondPrecision
  <2>3. precision.width = w /\ precision.offset \in {1, 10, 100, 1000}
    BY <2>2 DEF SubsecondPrecision
  <2>4. moment.usec \div precision.offset \in Nat /\ precision.width \in 0..6
    BY <1>1, <2>2, <2>3 DEF Micros
  <2>5. Digits(moment.usec \div precision.offset, precision.width) \in Seq(Characters)
    BY <1>2, <2>4, DigitsType
  <2>6. widthGiven \notin {1, 2} =>
          Digits(moment.usec \div precision.offset, precision.width) = SubSeq(Digits(moment.usec, 6), 1, w)
    BY <1>1, <2>2, Subsecond
  <2> QED
    BY <2>1, <2>5, <2>6, Zenon DEF Spells
<1>16. CASE token = "%F"
  <2>1. /\ Specified(token) = addToBuff(IF moment.hour >= 12 THEN <<"P", "M">> ELSE <<"A", "M">>)
        /\ Meaning(token, moment, widthGiven) = IF moment.hour < 12 THEN <<"A", "M">> ELSE <<"P", "M">>
    BY <1>16 DEF Specified, Meaning, Ignored
  <2>2. moment.hour >= 12 <=> ~(moment.hour < 12)
    BY <1>1
  <2> QED
    BY <2>1, <2>2, Names DEF Spells
<1> QED
  BY <1>3, <1>4, <1>5, <1>6, <1>7, <1>8, <1>9, <1>10, <1>11, <1>12, <1>13, <1>14, <1>15, <1>16 DEF DateSpecifiers

\* What stands for other tokens.
LEMMA CharacterMeans ==
  ASSUME NEW token \in Tokens, token \notin DateSpecifiers \cup Ignored, NEW time, NEW width
  PROVE  Meaning(token, time, width) = <<IF token = "%%" THEN "%" ELSE token>>
  BY DEF Meaning, DateSpecifiers, Ignored

LEMMA IgnoredMeans ==
  ASSUME NEW token \in Ignored, NEW time, NEW width
  PROVE  Meaning(token, time, width) = <<>>
  BY DEF Meaning, Ignored

LEMMA MeaningType ==
  ASSUME TimeType, widthGiven \notin {1, 2}, NEW token \in Tokens
  PROVE  Meaning(token, moment, widthGiven) \in Seq(Characters)
<1>1. CASE token \in DateSpecifiers
  BY <1>1, Spelled DEF Spells
<1>2. CASE token \in Ignored
  <2> PICK none : none = <<>>
    OBVIOUS
  <2>1. none \in Seq(Characters)
    OBVIOUS
  <2> QED
    BY <1>2, <2>1, IgnoredMeans
<1>3. CASE token \notin DateSpecifiers \cup Ignored
  <2>1. PICK c \in Characters : c = IF token = "%%" THEN "%" ELSE token
    BY DEF Characters
  <2>2. <<c>> \in Seq(Characters)
    OBVIOUS
  <2> QED
    BY <1>3, <2>1, <2>2, CharacterMeans
<1> QED
  BY <1>1, <1>2, <1>3

\* A date grows by what its tokens stand for.
DateBy(f, tokens, time, width) ==
  /\ f[0] = <<>> /\ FullDate(tokens, time, width) = f[Len(tokens)]
  /\ \A k \in 1..Len(tokens) : f[k] = f[k - 1] \o Meaning(tokens[k], time, width)

LEMMA DateSteps ==
  ASSUME TimeType, widthGiven \notin {1, 2}
  PROVE  \E f : DateBy(f, formatGiven, moment, widthGiven)
<1> PICK time, width : time = moment /\ width = widthGiven
  OBVIOUS
<1> PICK tokens \in Seq(Tokens) : tokens = formatGiven
  BY FormatsAssumption DEF TimeType, Tokens
<1>1. \A token \in Tokens : Meaning(token, time, width) \in Seq(Characters)
  BY MeaningType
<1> PICK none : none = <<>>
  OBVIOUS
<1>2. none \in Seq(Characters)
  OBVIOUS
<1> DEFINE iter == CHOOSE it : it = [s \in SUBSET DOMAIN tokens |->
              IF s = {} THEN none ELSE it[s \ {Max(s)}] \o Meaning(tokens[Max(s)], time, width)]
<1>3. FullDate(tokens, time, width) = iter[DOMAIN tokens]
  BY DEF FullDate, FoldLeft, MapThenFoldSet
<1>4. PICK F : F = [p \in Seq(Characters) \X Tokens |-> p[1] \o Meaning(p[2], time, width)]
  OBVIOUS
<1>5. F \in [Seq(Characters) \X Tokens -> Seq(Characters)]
  <2>1. \A p \in Seq(Characters) \X Tokens : p[1] \in Seq(Characters) /\ Meaning(p[2], time, width) \in Seq(Characters)
    BY <1>1
  <2>2. \A p \in Seq(Characters) \X Tokens : p[1] \o Meaning(p[2], time, width) \in Seq(Characters)
    BY <2>1, ConcatProperties
  <2> QED
    BY <1>4, <2>2
<1>6. PICK it : Folding(it, F, none, tokens, Tokens, Seq(Characters))
  BY <1>2, <1>5, FoldDefined, Zenon
<1>7. it = [s \in SUBSET DOMAIN tokens |->
              IF s = {} THEN none ELSE it[s \ {Max(s)}] \o Meaning(tokens[Max(s)], time, width)]
  BY <1>4, <1>6 DEF Folding
<1>8. iter = [s \in SUBSET DOMAIN tokens |->
              IF s = {} THEN none ELSE iter[s \ {Max(s)}] \o Meaning(tokens[Max(s)], time, width)]
  BY <1>7
<1> HIDE DEF iter
<1>9. PICK f : Beginnings(f, iter, tokens)
  BY FoldSteps
<1>10. f[0] = none /\ f[Len(tokens)] = iter[DOMAIN tokens]
  BY <1>8, <1>9 DEF Beginnings
<1>11. ASSUME NEW k \in 1..Len(tokens) PROVE f[k] = f[k - 1] \o Meaning(tokens[k], time, width)
  <2>1. /\ f[k] = iter[1..k] /\ 1..k \in SUBSET DOMAIN tokens /\ 1..k # {}
        /\ f[k - 1] = iter[(1..k) \ {Max(1..k)}] /\ Max(1..k) = k
    BY <1>9 DEF Beginnings
  <2> QED
    BY <1>8, <2>1, Zenon
<1>12. DateBy(f, tokens, time, width)
  BY <1>3, <1>10, <1>11 DEF DateBy
<1> QED
  BY <1>12

\* What there is of a date is a text; when it is too long already, the rest adds nothing.
LEMMA DateType ==
  ASSUME TimeType, widthGiven \notin {1, 2}, NEW f, DateBy(f, formatGiven, moment, widthGiven)
  PROVE  /\ \A k \in 0..Len(formatGiven) : f[k] \in Seq(Characters)
         /\ \A k \in 0..Len(formatGiven) : Len(f[k]) >= kBuffSize =>
              First(f[Len(formatGiven)], kBuffSize) = First(f[k], kBuffSize)
<1> PICK N : N = Len(formatGiven)
  OBVIOUS
<1>1. N \in Nat /\ \A k \in 1..N : formatGiven[k] \in Tokens
  BY FormatsAssumption, LenProperties, ElementOfSeq DEF TimeType, Tokens
<1>2. PICK m : m = [k \in 1..N |-> Meaning(formatGiven[k], moment, widthGiven)]
  OBVIOUS
<1>3. \A k \in 1..N : f[k] = f[k - 1] \o m[k] /\ m[k] \in Seq(Characters)
  BY <1>1, <1>2, MeaningType DEF DateBy
<1>4. \A k \in 0..N : f[k] \in Seq(Characters)
  <2> DEFINE T == {k \in Nat : f[k] \in Seq(Characters)}
  <2> PICK none : none = <<>>
    OBVIOUS
  <2>3. none \in Seq(Characters)
    OBVIOUS
  <2>1. 0 \in T
    BY <2>3 DEF DateBy
  <2>2. ASSUME NEW k \in 1..N, k - 1 \in T PROVE k \in T
    <3>1. PICK a \in Seq(Characters), b \in Seq(Characters) : a = f[k - 1] /\ b = m[k]
      BY <1>3, <2>2
    <3>2. a \o b \in Seq(Characters)
      BY ConcatProperties
    <3>3. f[k] = a \o b
      BY <1>3, <3>1
    <3>4. f[k] \in Seq(Characters)
      BY <3>2, <3>3, Zenon
    <3> QED
      BY <1>1, <3>4
  <2> HIDE DEF T
  <2>4. \A k \in 0..N : k \in T
    BY <1>1, <2>1, <2>2, InductionUpTo
  <2> QED
    BY <2>4 DEF T
<1>5. ASSUME NEW k \in 0..N, Len(f[k]) >= kBuffSize
      PROVE  First(f[N], kBuffSize) = First(f[k], kBuffSize)
  <2> DEFINE T == {n \in Nat : n >= k => Len(f[n]) >= kBuffSize /\ First(f[n], kBuffSize) = First(f[k], kBuffSize)}
  <2>1. 0 \in T
    BY <1>5
  <2>2. ASSUME NEW n \in 1..N, n - 1 \in T PROVE n \in T
    <3> SUFFICES ASSUME n >= k, n # k
                 PROVE  Len(f[n]) >= kBuffSize /\ First(f[n], kBuffSize) = First(f[k], kBuffSize)
      BY <1>1, <1>5
    <3>1. n - 1 \in 0..N /\ n - 1 >= k
      BY <1>1
    <3>2. Len(f[n - 1]) >= kBuffSize /\ First(f[n - 1], kBuffSize) = First(f[k], kBuffSize)
      BY <2>2, <3>1
    <3>3. PICK a \in Seq(Characters), b \in Seq(Characters) : a = f[n - 1] /\ b = m[n] /\ f[n] = a \o b
      BY <1>3, <1>4, <3>1
    <3>4. First(a \o b, kBuffSize) = First(a, kBuffSize)
      BY <3>2, <3>3, FirstOfBoth, BufferAssumption
    <3>5. Len(a \o b) >= kBuffSize
      <4>1. Len(a \o b) = Len(a) + Len(b)
        BY ConcatProperties
      <4>2. PICK A \in Nat, B \in Nat : A = Len(a) /\ B = Len(b)
        BY LenProperties
      <4>3. A >= kBuffSize /\ Len(a \o b) = A + B
        BY <3>2, <3>3, <4>1, <4>2
      <4> QED
        BY <4>3, BufferAssumption
    <3> QED
      BY <3>2, <3>3, <3>4, <3>5
  <2> HIDE DEF T
  <2>3. N \in T
    BY <1>1, <2>1, <2>2, InductionUpTo
  <2> QED
    BY <1>1, <2>3 DEF T
<1> QED
  BY <1>4, <1>5

-----------------------------------------------------------------------------
\* The format without its first k tokens is left.
Left(k) ==
  /\ Len(format) = Len(formatGiven) - k
  /\ \A i \in 1..Len(format) : format[i] = formatGiven[k + i]

\* The buffer holds the date up to a token, and the rest is to come, or there is no room for it.
DatedUpTo(f, k) ==
  /\ buf = First(f[k], kBuffSize)
  /\ Left(k) \/ (format = <<>> /\ Len(f[k]) >= kBuffSize)

Dated(f) == DateBy(f, formatGiven, moment, widthGiven) /\ \E k \in 0..Len(formatGiven) : DatedUpTo(f, k)

TimeInv ==
  /\ TimeType
  /\ format \in Seq(Tokens) /\ buf \in Seq(Characters) /\ Len(buf) <= kBuffSize
  /\ widthGiven \notin {1, 2} => \E f : Dated(f)

LEMMA TimeInit == TInit => TimeInv
<1> SUFFICES ASSUME TInit PROVE TimeInv
  OBVIOUS
<1>1. TimeType
  BY DEF TInit, TimeType
<1>2. formatGiven \in Seq(Tokens) /\ format = formatGiven /\ Len(formatGiven) \in Nat
  BY FormatsAssumption, LenProperties DEF TInit, Tokens
<1> PICK none : none = <<>>
  OBVIOUS
<1>3. buf = none /\ none \in Seq(Characters) /\ Len(none) = 0 /\ 0 <= kBuffSize
  BY BufferAssumption DEF TInit
<1>4. ASSUME NEW f, DateBy(f, formatGiven, moment, widthGiven) PROVE Dated(f)
  <2>1. Left(0)
    BY <1>2 DEF Left
  <2>2. First(none, kBuffSize) = none
    BY <1>3 DEF First
  <2>3. f[0] = none
    BY <1>4 DEF DateBy
  <2>4. DatedUpTo(f, 0)
    BY <1>3, <2>1, <2>2, <2>3 DEF DatedUpTo
  <2> QED
    BY <1>2, <1>4, <2>4 DEF Dated
<1> QED
  BY <1>1, <1>2, <1>3, <1>4, DateSteps DEF TimeInv

\* The next token.
LEMMA NextToken ==
  ASSUME NEW k \in 0..Len(formatGiven), Left(k), formatGiven \in Seq(Tokens), format \in Seq(Tokens), format # <<>>
  PROVE  /\ k + 1 \in 1..Len(formatGiven) /\ k + 1 \in 0..Len(formatGiven) /\ (k + 1) - 1 = k
         /\ Head(format) = formatGiven[k + 1]
         /\ Tail(format) = format' /\ formatGiven' = formatGiven => Left(k + 1)'
<1> PICK N \in Nat : N = Len(formatGiven)
  BY LenProperties
<1>1. PICK M \in Nat : M = Len(format) /\ M # 0
  BY LenProperties, EmptySeq
<1>2. M = N - k /\ \A i \in 1..M : format[i] = formatGiven[k + i]
  BY <1>1 DEF Left
<1>3. PICK t : t = Tail(format)
  OBVIOUS
<1>4. Head(format) = format[1] /\ Len(t) = M - 1 /\ \A i \in 1..(M - 1) : t[i] = format[i + 1]
  BY <1>1, <1>3, HeadTailProperties
<1>5. \A i \in 1..(M - 1) : t[i] = formatGiven[(k + 1) + i]
  <2> SUFFICES ASSUME NEW i \in 1..(M - 1) PROVE t[i] = formatGiven[(k + 1) + i]
    OBVIOUS
  <2>1. i + 1 \in 1..M /\ k + (i + 1) = (k + 1) + i
    BY <1>1
  <2> QED
    BY <1>2, <1>4, <2>1
<1>6. Len(t) = N - (k + 1)
  BY <1>1, <1>2, <1>4
<1>7. t = format' /\ formatGiven' = formatGiven => Left(k + 1)'
  BY <1>4, <1>5, <1>6 DEF Left
<1>8. k + 1 \in 1..N /\ k + 1 \in 0..N /\ (k + 1) - 1 = k /\ Head(format) = formatGiven[k + 1]
  BY <1>1, <1>2, <1>4
<1> QED
  BY <1>3, <1>7, <1>8

\* A text is added to the buffer.
LEMMA AddedToBuffer ==
  ASSUME buf \in Seq(Characters), Len(buf) <= kBuffSize, NEW str \in Seq(Characters)
  PROVE  /\ addToBuff(str) \in Seq(Characters) /\ Len(addToBuff(str)) <= kBuffSize
         /\ \A d \in Seq(Characters) : buf = First(d, kBuffSize) => addToBuff(str) = First(d \o str, kBuffSize)
<1>1. PICK B \in Nat, R \in Nat : B = Len(buf) /\ R = kBuffSize - B
  BY BufferAssumption, LenProperties
<1>2. PICK s : s = First(str, R)
  OBVIOUS
<1>3. s \in Seq(Characters) /\ Len(s) \in Nat /\ Len(s) <= R
  BY <1>1, <1>2, FirstLaw
<1>4. addToBuff(str) = buf \o s
  BY <1>1, <1>2 DEF addToBuff
<1>5. buf \o s \in Seq(Characters) /\ Len(buf \o s) = B + Len(s)
  BY <1>1, <1>3, ConcatProperties
<1>6. ASSUME NEW d \in Seq(Characters), buf = First(d, kBuffSize) PROVE addToBuff(str) = First(d \o str, kBuffSize)
  <2>1. BothFit(d, str, kBuffSize)
    BY FirstOfBoth, BufferAssumption
  <2> QED
    BY <1>6, <2>1, Zenon DEF addToBuff, BothFit
<1> QED
  BY <1>1, <1>3, <1>4, <1>5, <1>6, BufferAssumption

-----------------------------------------------------------------------------
\* What a step leaves: the clock, the width and the whole format are as they were.
MomentKept == UNCHANGED <<moment, precision, widthGiven, formatGiven>>

LEMMA DateKept ==
  ASSUME TimeType, MomentKept
  PROVE  /\ TimeType'
         /\ widthGiven' = widthGiven /\ formatGiven' = formatGiven /\ moment' = moment
  BY DEF TimeType, MomentKept

LEMMA DateByKept ==
  ASSUME MomentKept, NEW f, DateBy(f, formatGiven, moment, widthGiven)
  PROVE  DateBy(f, formatGiven, moment, widthGiven)'
<1>1. DateBy(f, formatGiven', moment', widthGiven')
  BY DEF MomentKept
<1> QED
  BY <1>1

\* A token that is done adds what stands for it.
LEMMA TokenDone ==
  ASSUME TimeInv, MomentKept, widthGiven \notin {1, 2}, format # <<>>, format' = Tail(format),
         NEW str \in Seq(Characters), str = Meaning(Head(format), moment, widthGiven),
         buf' = addToBuff(str),
         NEW f, Dated(f)
  PROVE  Dated(f)'
<1>1. PICK k \in 0..Len(formatGiven) : DatedUpTo(f, k)
  BY DEF Dated
<1>2. Left(k) /\ buf = First(f[k], kBuffSize)
  BY <1>1 DEF DatedUpTo
<1>3. formatGiven \in Seq(Tokens) /\ format \in Seq(Tokens)
  BY FormatsAssumption DEF TimeInv, TimeType, Tokens
<1>4. /\ k + 1 \in 1..Len(formatGiven) /\ k + 1 \in 0..Len(formatGiven) /\ (k + 1) - 1 = k
      /\ Head(format) = formatGiven[k + 1] /\ Left(k + 1)'
  BY <1>2, <1>3, NextToken DEF MomentKept
<1>5. f[k + 1] = f[k] \o str
  BY <1>4 DEF Dated, DateBy
<1>6. f[k] \in Seq(Characters)
  BY DateType DEF Dated, TimeInv
<1>7. addToBuff(str) = First(f[k] \o str, kBuffSize)
  BY <1>2, <1>6, AddedToBuffer DEF TimeInv
<1>8. buf' = First(f[k + 1], kBuffSize)
  BY <1>5, <1>7, Zenon
<1>9. DatedUpTo(f, k + 1)'
  BY <1>4, <1>8 DEF DatedUpTo
<1>10. formatGiven' = formatGiven /\ DateBy(f, formatGiven, moment, widthGiven)'
  BY DateByKept DEF Dated, MomentKept
<1> QED
  BY <1>4, <1>9, <1>10, Zenon DEF Dated

LEMMA NothingAdded ==
  ASSUME NEW b \in Seq(Characters), Len(b) <= kBuffSize, buf = b
  PROVE  addToBuff(<<>>) = b
<1> PICK none : none = <<>>
  OBVIOUS
<1>1. none \in Seq(Characters) /\ Len(none) = 0
  OBVIOUS
<1>2. Len(b) \in Nat /\ kBuffSize - Len(b) >= 0
  BY BufferAssumption
<1>3. First(none, kBuffSize - Len(b)) = none
  BY <1>1, <1>2 DEF First
<1>4. b \o none = b
  OBVIOUS
<1> QED
  BY <1>3, <1>4 DEF addToBuff

LEMMA DateSpecifierStep == ASSUME TimeInv, DateSpecifier PROVE TimeInv'
<1> PICK token : token = Head(format)
  OBVIOUS
<1>1. /\ format # <<>> /\ token \in DateSpecifiers \cup Ignored /\ format' = Tail(format) /\ MomentKept
      /\ buf' = IF token \in Ignored THEN buf ELSE Specified(token)
  BY DEF DateSpecifier, MomentKept
<1>2. TimeType' /\ widthGiven' = widthGiven
  BY <1>1, DateKept DEF TimeInv
<1>3. format' \in Seq(Tokens)
  BY <1>1 DEF TimeInv
<1>4. PICK str \in Seq(Characters) :
        buf' = addToBuff(str) /\ (widthGiven \notin {1, 2} => str = Meaning(token, moment, widthGiven))
  <2>1. CASE token \in Ignored
    <3> PICK none : none = <<>>
      OBVIOUS
    <3>1. none \in Seq(Characters) /\ none = Meaning(token, moment, widthGiven)
      BY <2>1, IgnoredMeans
    <3>2. addToBuff(none) = buf
      BY NothingAdded DEF TimeInv
    <3> QED
      BY <1>1, <2>1, <3>1, <3>2
  <2>2. CASE token \notin Ignored
    <3>1. PICK s : Spells(s, token)
      BY <1>1, <2>2, Spelled DEF TimeInv
    <3> QED
      BY <1>1, <2>2, <3>1, Zenon DEF Spells
  <2> QED
    BY <2>1, <2>2
<1>5. buf' \in Seq(Characters) /\ Len(buf') <= kBuffSize
  BY <1>4, AddedToBuffer DEF TimeInv
<1>6. ASSUME widthGiven \notin {1, 2} PROVE \E f : Dated(f)'
  <2>1. PICK f : Dated(f)
    BY <1>6 DEF TimeInv
  <2> QED
    BY <1>1, <1>4, <1>6, <2>1, TokenDone
<1> QED
  BY <1>2, <1>3, <1>5, <1>6 DEF TimeInv

\* One more character is what there is room for.
LEMMA OneCharacter ==
  ASSUME buf \in Seq(Characters), Len(buf) < kBuffSize, NEW c \in Characters
  PROVE  Append(buf, c) = addToBuff(<<c>>)
<1>1. PICK s : s = <<c>>
  OBVIOUS
<1>2. Len(s) = 1 /\ s \in Seq(Characters)
  BY <1>1
<1>3. Len(buf) \in Nat /\ 1 <= kBuffSize - Len(buf)
  BY BufferAssumption
<1>4. First(s, kBuffSize - Len(buf)) = s
  BY <1>2, <1>3 DEF First
<1>5. Append(buf, c) = buf \o s
  BY <1>1
<1> QED
  BY <1>1, <1>4, <1>5 DEF addToBuff

LEMMA DateCharacterStep == ASSUME TimeInv, DateCharacter PROVE TimeInv'
<1> PICK token : token = Head(format)
  OBVIOUS
<1>1. format # <<>> /\ token \notin DateSpecifiers \cup Ignored /\ MomentKept
  BY DEF DateCharacter, MomentKept
<1>2. TimeType' /\ widthGiven' = widthGiven
  BY <1>1, DateKept DEF TimeInv
<1>3. CASE Len(buf) = kBuffSize
  <2>1. format' = <<>> /\ buf' = buf
    BY <1>3 DEF DateCharacter
  <2>2. buf' \in Seq(Characters) /\ Len(buf') <= kBuffSize /\ format' \in Seq(Tokens)
    <3> PICK none : none = <<>>
      OBVIOUS
    <3>1. none \in Seq(Tokens)
      OBVIOUS
    <3> QED
      BY <2>1, <3>1 DEF TimeInv
  <2>3. ASSUME widthGiven \notin {1, 2} PROVE \E f : Dated(f)'
    <3>1. PICK f : Dated(f)
      BY <2>3 DEF TimeInv
    <3>2. PICK k \in 0..Len(formatGiven) : DatedUpTo(f, k)
      BY <3>1 DEF Dated
    <3>3. PICK s \in Seq(Characters) : s = f[k]
      BY <2>3, <3>1, <3>2, DateType DEF Dated, TimeInv
    <3>4. Len(s) \in Nat /\ Len(First(s, kBuffSize)) = (IF Len(s) <= kBuffSize THEN Len(s) ELSE kBuffSize)
      BY FirstLaw, BufferAssumption, LenProperties
    <3>5. buf = First(s, kBuffSize)
      BY <3>2, <3>3 DEF DatedUpTo
    <3>6. Len(s) >= kBuffSize
      BY <1>3, <3>4, <3>5, BufferAssumption
    <3>7. DatedUpTo(f, k)'
      BY <2>1, <3>3, <3>5, <3>6 DEF DatedUpTo
    <3>8. formatGiven' = formatGiven /\ DateBy(f, formatGiven, moment, widthGiven)'
      BY <1>1, <3>1, DateByKept DEF Dated, MomentKept
    <3> QED
      BY <3>2, <3>7, <3>8, Zenon DEF Dated
  <2> QED
    BY <1>2, <2>2, <2>3 DEF TimeInv
<1>4. CASE Len(buf) # kBuffSize
  <2>1. PICK c : c = IF token = "%%" THEN "%" ELSE token
    OBVIOUS
  <2>2. format' = Tail(format) /\ buf' = Append(buf, c)
    BY <1>4, <2>1 DEF DateCharacter
  <2>3. token \in Tokens /\ c \in Characters
    <3>1. token \in Tokens
      BY <1>1 DEF TimeInv
    <3> QED
      BY <2>1, <3>1 DEF Characters
  <2>4. PICK str : str = <<c>> /\ str \in Seq(Characters) /\ str = Meaning(token, moment, widthGiven)
    <3>1. Meaning(token, moment, widthGiven) = <<c>>
      BY <1>1, <2>1, <2>3, CharacterMeans
    <3>2. <<c>> \in Seq(Characters)
      BY <2>3
    <3> QED
      BY <3>1, <3>2
  <2>5. Len(buf) < kBuffSize
    BY <1>4, BufferAssumption, LenProperties DEF TimeInv
  <2>6. buf' = addToBuff(str)
    BY <2>2, <2>3, <2>4, <2>5, OneCharacter DEF TimeInv
  <2>7. buf' \in Seq(Characters) /\ Len(buf') <= kBuffSize
    BY <2>4, <2>6, AddedToBuffer DEF TimeInv
  <2>8. format' \in Seq(Tokens)
    BY <1>1, <2>2 DEF TimeInv
  <2>9. ASSUME widthGiven \notin {1, 2} PROVE \E f : Dated(f)'
    <3>1. PICK f : Dated(f)
      BY <2>9 DEF TimeInv
    <3> QED
      BY <1>1, <2>2, <2>4, <2>6, <2>9, <3>1, TokenDone
  <2> QED
    BY <1>2, <2>7, <2>8, <2>9 DEF TimeInv
<1> QED
  BY <1>3, <1>4

LEMMA TimeStep == ASSUME TimeInv, [TNext]_tvars PROVE TimeInv'
<1>1. CASE DateSpecifier
  BY <1>1, DateSpecifierStep
<1>2. CASE DateCharacter
  BY <1>2, DateCharacterStep
<1>3. CASE UNCHANGED tvars
  <2>1. MomentKept /\ format' = format /\ buf' = buf
    BY <1>3 DEF tvars, MomentKept
  <2>2. TimeType' /\ widthGiven' = widthGiven
    BY <2>1, DateKept DEF TimeInv
  <2>3. ASSUME widthGiven \notin {1, 2} PROVE \E f : Dated(f)'
    <3>1. PICK f : Dated(f)
      BY <2>3 DEF TimeInv
    <3>2. Dated(f)'
      <4>1. DateBy(f, formatGiven, moment, widthGiven)'
        BY <2>1, <3>1, DateByKept DEF Dated
      <4>2. PICK k \in 0..Len(formatGiven) : DatedUpTo(f, k)
        BY <3>1 DEF Dated
      <4>3. DatedUpTo(f, k)'
        BY <2>1, <4>2 DEF DatedUpTo, Left, MomentKept
      <4> QED
        BY <2>1, <4>1, <4>2, <4>3 DEF Dated, MomentKept
    <3> QED
      BY <3>2
  <2> QED
    BY <2>1, <2>2, <2>3 DEF TimeInv
<1> QED
  BY <1>1, <1>2, <1>3 DEF TNext

LEMMA TimeInvMeans == TimeInv => DateAsMeant
<1> SUFFICES ASSUME TimeInv PROVE DateAsMeant
  OBVIOUS
<1>1. ASSUME format = <<>>, widthGiven \notin {1, 2}
      PROVE  buf = First(FullDate(formatGiven, moment, widthGiven), kBuffSize)
  <2>1. PICK f : Dated(f)
    BY <1>1 DEF TimeInv
  <2>2. PICK k \in 0..Len(formatGiven) : DatedUpTo(f, k)
    BY <2>1 DEF Dated
  <2>3. FullDate(formatGiven, moment, widthGiven) = f[Len(formatGiven)] /\ DateBy(f, formatGiven, moment, widthGiven)
    BY <2>1 DEF Dated, DateBy
  <2>4. CASE Left(k)
    <3>1. Len(formatGiven) \in Nat
      BY FormatsAssumption, LenProperties DEF TimeInv, TimeType
    <3>2. Len(format) = 0 /\ Len(format) = Len(formatGiven) - k
      BY <1>1, <2>4 DEF Left
    <3>3. k = Len(formatGiven)
      BY <3>1, <3>2
    <3> QED
      BY <2>2, <2>3, <3>3 DEF DatedUpTo
  <2>5. CASE Len(f[k]) >= kBuffSize
    <3>1. First(f[Len(formatGiven)], kBuffSize) = First(f[k], kBuffSize)
      BY <1>1, <2>3, <2>5, DateType DEF TimeInv
    <3> QED
      BY <2>2, <2>3, <3>1 DEF DatedUpTo
  <2> QED
    BY <2>2, <2>4, <2>5 DEF DatedUpTo
<1> QED
  BY <1>1 DEF DateAsMeant, TimeInv

(***************************************************************************)
(* DateAsMeant holds for every format and time, every size of the buffer   *)
(* and every width: timevalToString writes nothing behind its buffer, and  *)
(* what it leaves there is the beginning of the date that was asked for.   *)
(***************************************************************************)
THEOREM DateTheorem == TInit /\ [][TNext]_tvars => []DateAsMeant
<1>1. TInit => TimeInv
  BY TimeInit
<1>2. TimeInv /\ [TNext]_tvars => TimeInv'
  BY TimeStep
<1>3. TimeInv => DateAsMeant
  BY TimeInvMeans
<1> QED
  BY <1>1, <1>2, <1>3, PTL

-----------------------------------------------------------------------------
(***************************************************************************)
(* Files.                                                                  *)
(***************************************************************************)

\* What names are made of, with dates in them; and how far a name has been taken apart.
NameParts == (UNION {Range(name) : name \in Filenames}) \cup {Separator, "2017-08-07", "07", "08", "-"}
Paths == Seq(Seq(NameParts))
Taken == {p \in [path : Paths, at : {"start", "between", "piece"}] : p.at = "piece" => p.path # <<>>}
Nothing == [path |-> <<>>, at |-> "start"]

\* One part more.
Parted(p, t, q) ==
  /\ q \in Taken
  /\ t = Separator => /\ q.at = "between"
                      /\ p.at = "start" => Len(q.path) = 1
                      /\ p.at # "start" => q.path = p.path
  /\ t # Separator => /\ q.at = "piece"
                      /\ Len(q.path) = Len(p.path) + IF p.at = "piece" THEN 0 ELSE 1
                      /\ Front(q.path) = IF p.at = "piece" THEN Front(p.path) ELSE p.path

\* NextPiece goes on as Parted says.
LEMMA PieceLaw ==
  ASSUME NEW p \in Taken, NEW t \in NameParts
  PROVE  Parted(p, t, NextPiece(p, t))
<1> PICK path \in Paths, at \in {"start", "between", "piece"} : p = [path |-> path, at |-> at] /\ (at = "piece" => path # <<>>)
  <2>1. p = [path |-> p.path, at |-> p.at] /\ p.path \in Paths /\ p.at \in {"start", "between", "piece"}
    BY DEF Taken
  <2> QED
    BY <2>1 DEF Taken
<1> PICK S : S = Seq(NameParts)
  OBVIOUS
<1>1. PICK N \in Nat : N = Len(path) /\ path \in Seq(S)
  BY LenProperties DEF Paths
<1>2. CASE t = Separator
  <2>1. CASE at = "start"
    <3>1. PICK q, w : q = NextPiece(p, t) /\ w = <<<<Separator>>>>
      OBVIOUS
    <3>2. q = [path |-> w, at |-> "between"]
      BY <1>2, <2>1, <3>1 DEF NextPiece
    <3>3. w \in Paths
      <4>1. Separator \in NameParts
        BY DEF NameParts
      <4>2. PICK a : a = <<Separator>>
        OBVIOUS
      <4>3. a \in Seq(NameParts)
        BY <4>1, <4>2
      <4>4. <<a>> \in Seq(S)
        BY <4>3
      <4> QED
        BY <3>1, <4>2, <4>4 DEF Paths
    <3>4. q \in Taken /\ q.at = "between" /\ Len(q.path) = 1
      BY <3>1, <3>2, <3>3 DEF Taken
    <3> QED
      BY <1>2, <2>1, <3>1, <3>4 DEF Parted
  <2>2. CASE at # "start"
    <3>1. PICK q : q = NextPiece(p, t)
      OBVIOUS
    <3>2. q = [path |-> path, at |-> "between"]
      BY <1>2, <2>2, <3>1 DEF NextPiece
    <3>3. q \in Taken
      BY <3>2 DEF Taken
    <3>4. p.at # "start" /\ q.at = "between" /\ q.path = p.path
      BY <2>2, <3>2
    <3> QED
      BY <1>2, <3>1, <3>3, <3>4 DEF Parted
  <2> QED
    BY <2>1, <2>2
<1>3. CASE t # Separator /\ at = "piece"
  <2>1. N > 0 /\ path[N] \in S
    BY <1>1, <1>3, EmptySeq, ElementOfSeq
  <2>2. PICK piece : piece = Append(path[N], t)
    OBVIOUS
  <2>3. piece \in S
    BY <2>1, <2>2, AppendProperties
  <2>4. PICK w : w = [path EXCEPT ![N] = piece]
    OBVIOUS
  <2>5. w \in Seq(S) /\ Len(w) = N /\ \A i \in 1..N : w[i] = IF i = N THEN piece ELSE path[i]
    BY <1>1, <2>1, <2>3, <2>4, ExceptSeq
  <2>6. PICK q : q = NextPiece(p, t)
    OBVIOUS
  <2>7. q = [path |-> w, at |-> "piece"]
    BY <1>1, <1>3, <2>2, <2>4, <2>6 DEF NextPiece
  <2>8. w # <<>>
    BY <2>1, <2>5, EmptySeq
  <2>9. q \in Taken
    BY <2>5, <2>7, <2>8 DEF Taken, Paths
  <2>10. Front(w) = Front(path)
    <3>1. N - 1 \in Nat /\ N - 1 <= N
      BY <2>1
    <3>2. PICK a, b : a = SubSeq(w, 1, N - 1) /\ b = SubSeq(path, 1, N - 1)
      OBVIOUS
    <3>3. /\ a \in Seq(S) /\ Len(a) = N - 1 /\ \A i \in 1..(N - 1) : a[i] = w[i]
          /\ b \in Seq(S) /\ Len(b) = N - 1 /\ \A i \in 1..(N - 1) : b[i] = path[i]
      BY <1>1, <2>5, <3>1, <3>2
    <3>4. ASSUME NEW i \in 1..(N - 1) PROVE a[i] = b[i]
      <4>1. i \in 1..N /\ i # N
        OBVIOUS
      <4> QED
        BY <2>5, <3>3, <4>1
    <3>5. a = b
      BY <3>3, <3>4, SeqEqual
    <3>6. Len(w) = N /\ Len(path) = N
      BY <1>1, <2>5
    <3> QED
      BY <3>2, <3>5, <3>6, Zenon DEF Front
  <2> QED
    BY <1>1, <1>3, <2>5, <2>6, <2>7, <2>9, <2>10 DEF Parted
<1>4. CASE t # Separator /\ at # "piece"
  <2>1. PICK piece \in S : piece = <<t>>
    <3>1. <<t>> \in Seq(NameParts)
      OBVIOUS
    <3> QED
      BY <3>1
  <2>2. PICK w : w = Append(path, piece)
    OBVIOUS
  <2>3. w \in Seq(S) /\ Len(w) = N + 1 /\ \A i \in 1..N : w[i] = path[i]
    BY <1>1, <2>1, <2>2, AppendProperties
  <2>4. PICK q : q = NextPiece(p, t)
    OBVIOUS
  <2>5. q = [path |-> w, at |-> "piece"]
    BY <1>4, <2>1, <2>2, <2>4 DEF NextPiece
  <2>6. w # <<>>
    BY <2>3, EmptySeq
  <2>7. q \in Taken
    BY <2>3, <2>5, <2>6 DEF Taken, Paths
  <2>8. Front(w) = path
    <3>1. PICK a : a = SubSeq(w, 1, N)
      OBVIOUS
    <3>2. a \in Seq(S) /\ Len(a) = N /\ \A i \in 1..N : a[i] = path[i]
      BY <1>1, <2>3, <3>1
    <3>3. a = path
      BY <1>1, <3>2, SeqEqual
    <3> QED
      BY <2>3, <3>1, <3>3 DEF Front
  <2> QED
    BY <1>1, <1>4, <2>3, <2>4, <2>5, <2>7, <2>8 DEF Parted
<1> QED
  BY <1>2, <1>3, <1>4

\* Taking a name apart, part by part.
Parting(f, name) ==
  /\ f[0] = Nothing
  /\ \A k \in 1..Len(name) : f[k] = NextPiece(f[k - 1], name[k]) /\ Parted(f[k - 1], name[k], f[k])
  /\ \A k \in 0..Len(name) : f[k] \in Taken

\* PathOf takes a name apart part by part.
LEMMA PartingSteps ==
  ASSUME NEW name \in Seq(NameParts)
  PROVE  \E f : Parting(f, name) /\ Pieces(name) = f[Len(name)]
<1>1. \A p \in Taken, t \in NameParts : NextPiece(p, t) \in Taken
  BY PieceLaw DEF Parted
<1>2. Nothing \in Taken
  <2> PICK none : none = <<>>
    OBVIOUS
  <2>1. none \in Paths
    BY DEF Paths
  <2> QED
    BY <2>1 DEF Nothing, Taken
<1> DEFINE iter == CHOOSE it : it = [s \in SUBSET DOMAIN name |->
              IF s = {} THEN Nothing ELSE NextPiece(it[s \ {Max(s)}], name[Max(s)])]
<1>3. Pieces(name) = iter[DOMAIN name]
  BY DEF Pieces, FoldLeft, MapThenFoldSet, Nothing
<1>4. PICK F : F = [p \in Taken \X NameParts |-> NextPiece(p[1], p[2])]
  OBVIOUS
<1>5. F \in [Taken \X NameParts -> Taken]
  BY <1>1, <1>4
<1>6. PICK it : Folding(it, F, Nothing, name, NameParts, Taken)
  BY <1>2, <1>5, FoldDefined, Zenon
<1>7. it = [s \in SUBSET DOMAIN name |->
              IF s = {} THEN Nothing ELSE NextPiece(it[s \ {Max(s)}], name[Max(s)])]
  BY <1>4, <1>6 DEF Folding
<1>8. iter = [s \in SUBSET DOMAIN name |->
              IF s = {} THEN Nothing ELSE NextPiece(iter[s \ {Max(s)}], name[Max(s)])]
  BY <1>7
<1> HIDE DEF iter
<1>9. PICK f : Beginnings(f, iter, name)
  BY FoldSteps
<1>10. f[0] = Nothing /\ f[Len(name)] = iter[DOMAIN name]
  BY <1>8, <1>9 DEF Beginnings
<1>11. ASSUME NEW k \in 1..Len(name) PROVE f[k] = NextPiece(f[k - 1], name[k])
  <2>1. /\ f[k] = iter[1..k] /\ 1..k \in SUBSET DOMAIN name /\ 1..k # {}
        /\ f[k - 1] = iter[(1..k) \ {Max(1..k)}] /\ Max(1..k) = k
    BY <1>9 DEF Beginnings
  <2> QED
    BY <1>8, <2>1, Zenon
<1>12. PICK N \in Nat : N = Len(name) /\ \A k \in 1..N : name[k] \in NameParts
  BY LenProperties, ElementOfSeq
<1>13. \A k \in 0..N : f[k] \in Taken
  <2> DEFINE T == {k \in Nat : f[k] \in Taken}
  <2>1. 0 \in T
    BY <1>2, <1>10
  <2>2. ASSUME NEW k \in 1..N, k - 1 \in T PROVE k \in T
    BY <1>1, <1>11, <1>12, <2>2
  <2> HIDE DEF T
  <2>3. \A k \in 0..N : k \in T
    BY <2>1, <2>2, InductionUpTo
  <2> QED
    BY <2>3 DEF T
<1>14. ASSUME NEW k \in 1..N PROVE Parted(f[k - 1], name[k], f[k])
  <2>1. k - 1 \in 0..N
    BY <1>12
  <2> QED
    BY <1>11, <1>12, <1>13, <2>1, PieceLaw
<1> QED
  BY <1>3, <1>10, <1>11, <1>12, <1>13, <1>14 DEF Parting

\* Names that begin alike are taken apart alike so far.
LEMMA PartedAlike ==
  ASSUME NEW f, NEW s, NEW g, NEW t, Parting(f, s), Parting(g, t), NEW n \in Nat, n <= Len(s), n <= Len(t),
         Len(s) \in Nat, Len(t) \in Nat, \A i \in 1..n : s[i] = t[i]
  PROVE  \A k \in 0..n : f[k] = g[k]
<1> DEFINE T == {k \in Nat : f[k] = g[k]}
<1>1. 0 \in T
  BY DEF Parting
<1>2. ASSUME NEW k \in 1..n, k - 1 \in T PROVE k \in T
  <2>1. k \in 1..Len(s) /\ k \in 1..Len(t)
    OBVIOUS
  <2> QED
    BY <1>2, <2>1 DEF Parting
<1> HIDE DEF T
<1>3. \A k \in 0..n : k \in T
  BY <1>1, <1>2, InductionUpTo
<1> QED
  BY <1>3 DEF T

\* A name with one part more.
LEMMA PiecesAppend ==
  ASSUME NEW s \in Seq(NameParts), NEW t \in NameParts
  PROVE  /\ Pieces(s) \in Taken
         /\ Pieces(Append(s, t)) = NextPiece(Pieces(s), t)
         /\ Parted(Pieces(s), t, Pieces(Append(s, t)))
<1>1. PICK N \in Nat : N = Len(s)
  BY LenProperties
<1>2. PICK u : u = Append(s, t)
  OBVIOUS
<1>3. u \in Seq(NameParts) /\ Len(u) = N + 1 /\ u[N + 1] = t /\ \A i \in 1..N : s[i] = u[i]
  BY <1>1, <1>2, AppendProperties
<1>4. PICK f : Parting(f, s) /\ Pieces(s) = f[N]
  BY <1>1, PartingSteps
<1>5. PICK g : Parting(g, u) /\ Pieces(u) = g[N + 1]
  BY <1>3, PartingSteps
<1>6. N + 1 \in 1..Len(u) /\ N \in 0..N /\ (N + 1) - 1 = N
  BY <1>3
<1>7. f[N] = g[N]
  BY <1>1, <1>3, <1>4, <1>5, <1>6, PartedAlike
<1>8. g[N + 1] = NextPiece(g[N], u[N + 1]) /\ Parted(g[N], u[N + 1], g[N + 1])
  BY <1>5, <1>6 DEF Parting
<1> QED
  BY <1>1, <1>2, <1>3, <1>4, <1>5, <1>6, <1>7, <1>8 DEF Parting

-----------------------------------------------------------------------------
\* How many pieces there are, and whether one has begun.
Alike(p, q) == p.at = q.at /\ Len(p.path) = Len(q.path)

\* Names that look alike do so with one part more.
LEMMA AlikeStep ==
  ASSUME NEW p \in Taken, NEW q \in Taken, Alike(p, q),
         NEW t \in NameParts, NEW u \in NameParts, t = Separator <=> u = Separator
  PROVE  Alike(NextPiece(p, t), NextPiece(q, u))
<1>1. PICK v, w : v = NextPiece(p, t) /\ w = NextPiece(q, u)
  OBVIOUS
<1>2. Parted(p, t, v) /\ Parted(q, u, w)
  BY <1>1, PieceLaw
<1>3. CASE t = Separator
  <2>1. u = Separator /\ v.at = "between" /\ w.at = "between" /\ p.at = q.at
    BY <1>2, <1>3 DEF Alike, Parted
  <2>2. CASE p.at = "start"
    <3>1. Len(v.path) = 1 /\ Len(w.path) = 1
      BY <1>2, <1>3, <2>1, <2>2 DEF Parted
    <3> QED
      BY <1>1, <2>1, <3>1 DEF Alike
  <2>3. CASE p.at # "start"
    <3>1. v.path = p.path /\ w.path = q.path
      BY <1>2, <1>3, <2>1, <2>3 DEF Parted
    <3> QED
      BY <1>1, <2>1, <3>1 DEF Alike
  <2> QED
    BY <2>2, <2>3
<1>4. CASE t # Separator
  <2>1. v.at = "piece" /\ w.at = "piece"
    BY <1>2, <1>4 DEF Parted
  <2>2. Len(v.path) = Len(w.path)
    BY <1>2, <1>4 DEF Alike, Parted
  <2> QED
    BY <1>1, <2>1, <2>2 DEF Alike
<1> QED
  BY <1>3, <1>4, <1>1

\* A part that is no separator makes no new piece where one has begun.
LEMMA AlikeLonger ==
  ASSUME NEW p \in Taken, p.at = "piece", NEW t \in NameParts, t # Separator
  PROVE  Alike(NextPiece(p, t), p)
<1>1. Parted(p, t, NextPiece(p, t))
  BY PieceLaw
<1>2. Len(p.path) \in Nat
  BY LenProperties DEF Taken, Paths
<1> QED
  BY <1>1, <1>2 DEF Parted, Alike

-----------------------------------------------------------------------------
DatesShown == {<<"2017-08-07">>, <<"07", "-", "08">>}
DateShown(date, t) == IF t = DateTimeSpecifier THEN date ELSE <<t>>

\* The dates have no separators.
LEMMA DateOf ==
  ASSUME NEW braces \in BOOLEAN
  PROVE  ReplaceAll(Now(braces), Separator, "-") \in DatesShown
<1>1. CASE braces
  <2>1. Now(braces) = <<"07", "/", "08">>
    BY <1>1 DEF Now
  <2>2. PICK r : r = ReplaceAll(<<"07", "/", "08">>, Separator, "-")
    OBVIOUS
  <2>3. r = [i \in 1..3 |-> IF <<"07", "/", "08">>[i] = "/" THEN "-" ELSE <<"07", "/", "08">>[i]]
    BY <2>2 DEF ReplaceAll, Separator
  <2>4. r[1] = "07" /\ r[2] = "-" /\ r[3] = "08"
    BY <2>3
  <2>5. r = <<"07", "-", "08">>
    BY <2>3, <2>4
  <2> QED
    BY <2>1, <2>2, <2>5 DEF DatesShown
<1>2. CASE ~braces
  <2>1. Now(braces) = <<"2017-08-07">>
    BY <1>2 DEF Now
  <2>2. PICK r : r = ReplaceAll(<<"2017-08-07">>, Separator, "-")
    OBVIOUS
  <2>3. r = [i \in 1..1 |-> IF <<"2017-08-07">>[i] = "/" THEN "-" ELSE <<"2017-08-07">>[i]]
    BY <2>2 DEF ReplaceAll, Separator
  <2>4. r[1] = "2017-08-07"
    BY <2>3
  <2>5. r = <<"2017-08-07">>
    BY <2>3, <2>4
  <2> QED
    BY <2>1, <2>2, <2>5 DEF DatesShown
<1> QED
  BY <1>1, <1>2

\* One more part, and the date for it if it is a specifier.
LEMMA ShownLaw ==
  ASSUME NEW date \in DatesShown, NEW t \in NameParts, NEW r \in Seq(NameParts), NEW p \in Taken, Alike(Pieces(r), p)
  PROVE  /\ r \o DateShown(date, t) \in Seq(NameParts)
         /\ Alike(Pieces(r \o DateShown(date, t)), NextPiece(p, t))
<1>1. Pieces(r) \in Taken /\ Separator # DateTimeSpecifier
  BY PiecesAppend DEF Separator, DateTimeSpecifier
<1>2. CASE t # DateTimeSpecifier
  <2>1. r \o DateShown(date, t) = Append(r, t)
    BY <1>2 DEF DateShown
  <2>2. Append(r, t) \in Seq(NameParts)
    BY AppendProperties
  <2>3. Pieces(Append(r, t)) = NextPiece(Pieces(r), t)
    BY PiecesAppend
  <2> QED
    BY <1>1, <2>1, <2>2, <2>3, AlikeStep
<1>3. CASE t = DateTimeSpecifier /\ date = <<"2017-08-07">>
  <2>1. PICK a \in NameParts : a = "2017-08-07" /\ a # Separator
    BY DEF NameParts, Separator
  <2>2. r \o DateShown(date, t) = Append(r, a)
    BY <1>3, <2>1 DEF DateShown
  <2>3. Append(r, a) \in Seq(NameParts)
    BY AppendProperties
  <2>4. Pieces(Append(r, a)) = NextPiece(Pieces(r), a)
    BY PiecesAppend
  <2>5. Alike(NextPiece(Pieces(r), a), NextPiece(p, t))
    BY <1>1, <1>3, <2>1, AlikeStep
  <2> QED
    BY <2>2, <2>3, <2>4, <2>5
<1>4. CASE t = DateTimeSpecifier /\ date = <<"07", "-", "08">>
  <2>1. PICK a \in NameParts, b \in NameParts, c \in NameParts :
          /\ a = "07" /\ b = "-" /\ c = "08" /\ a # Separator /\ b # Separator /\ c # Separator
    BY DEF NameParts, Separator
  <2>2. PICK u, v, w : u = Append(r, a) /\ v = Append(u, b) /\ w = Append(v, c)
    OBVIOUS
  <2>3. u \in Seq(NameParts) /\ v \in Seq(NameParts) /\ w \in Seq(NameParts)
    BY <2>2, AppendProperties
  <2>4. r \o DateShown(date, t) = w
    BY <1>3, <1>4, <2>1, <2>2, <2>3 DEF DateShown
  <2>5. /\ Pieces(u) = NextPiece(Pieces(r), a) /\ Pieces(v) = NextPiece(Pieces(u), b)
        /\ Pieces(w) = NextPiece(Pieces(v), c) /\ Pieces(u) \in Taken /\ Pieces(v) \in Taken /\ Pieces(w) \in Taken
    BY <2>2, <2>3, PiecesAppend
  <2>6. Alike(Pieces(u), NextPiece(p, t)) /\ Pieces(u).at = "piece"
    <3>1. Alike(Pieces(u), NextPiece(p, t))
      BY <1>1, <1>4, <2>1, <2>5, AlikeStep
    <3>2. Parted(Pieces(r), a, Pieces(u))
      BY <2>2, PiecesAppend
    <3> QED
      BY <2>1, <3>1, <3>2 DEF Parted
  <2>7. Alike(Pieces(v), Pieces(u)) /\ Pieces(v).at = "piece"
    <3>1. Alike(Pieces(v), Pieces(u))
      BY <2>1, <2>5, <2>6, AlikeLonger
    <3> QED
      BY <2>6, <3>1 DEF Alike
  <2>8. Alike(Pieces(w), Pieces(v))
    BY <2>1, <2>5, <2>7, AlikeLonger
  <2> QED
    BY <2>3, <2>4, <2>6, <2>7, <2>8 DEF Alike
<1> QED
  BY <1>2, <1>3, <1>4 DEF DatesShown

\* The date takes the place of a specifier, and makes no more pieces.
LEMMA WithDateLaw ==
  ASSUME NEW date \in DatesShown, NEW name \in Seq(NameParts)
  PROVE  WithDate(name, date) \in Seq(NameParts) /\ Alike(Pieces(WithDate(name, date)), Pieces(name))
<1> PICK none : none = <<>>
  OBVIOUS
<1>1. none \in Seq(NameParts)
  OBVIOUS
<1> DEFINE iter == CHOOSE it : it = [s \in SUBSET DOMAIN name |->
              IF s = {} THEN none ELSE it[s \ {Max(s)}] \o DateShown(date, name[Max(s)])]
<1>2. WithDate(name, date) = iter[DOMAIN name]
  BY DEF WithDate, FoldLeft, MapThenFoldSet, DateShown
<1>3. PICK F : F = [q \in Seq(NameParts) \X NameParts |-> q[1] \o DateShown(date, q[2])]
  OBVIOUS
<1>4. F \in [Seq(NameParts) \X NameParts -> Seq(NameParts)]
  <2>1. \A r \in Seq(NameParts), t \in NameParts : r \o DateShown(date, t) \in Seq(NameParts)
    <3> SUFFICES ASSUME NEW r \in Seq(NameParts), NEW t \in NameParts PROVE r \o DateShown(date, t) \in Seq(NameParts)
      OBVIOUS
    <3>1. Pieces(r) \in Taken /\ Alike(Pieces(r), Pieces(r))
      BY PiecesAppend DEF Alike
    <3> QED
      BY <3>1, ShownLaw
  <2> QED
    BY <1>3, <2>1
<1>5. PICK it : Folding(it, F, none, name, NameParts, Seq(NameParts))
  BY <1>1, <1>4, FoldDefined, Zenon
<1>6. it = [s \in SUBSET DOMAIN name |->
              IF s = {} THEN none ELSE it[s \ {Max(s)}] \o DateShown(date, name[Max(s)])]
  BY <1>3, <1>5 DEF Folding
<1>7. iter = [s \in SUBSET DOMAIN name |->
              IF s = {} THEN none ELSE iter[s \ {Max(s)}] \o DateShown(date, name[Max(s)])]
  BY <1>6
<1> HIDE DEF iter
<1>8. PICK f : Beginnings(f, iter, name)
  BY FoldSteps
<1>9. f[0] = none /\ f[Len(name)] = iter[DOMAIN name]
  BY <1>7, <1>8 DEF Beginnings
<1>10. ASSUME NEW k \in 1..Len(name) PROVE f[k] = f[k - 1] \o DateShown(date, name[k])
  <2>1. /\ f[k] = iter[1..k] /\ 1..k \in SUBSET DOMAIN name /\ 1..k # {}
        /\ f[k - 1] = iter[(1..k) \ {Max(1..k)}] /\ Max(1..k) = k
    BY <1>8 DEF Beginnings
  <2> QED
    BY <1>7, <2>1, Zenon
<1>11. PICK N \in Nat : N = Len(name) /\ \A k \in 1..N : name[k] \in NameParts
  BY LenProperties, ElementOfSeq
<1>12. PICK g : Parting(g, name) /\ Pieces(name) = g[N]
  BY <1>11, PartingSteps
<1> DEFINE T == {k \in Nat : f[k] \in Seq(NameParts) /\ Alike(Pieces(f[k]), g[k])}
<1>13. 0 \in T
  <2>1. PICK h : Parting(h, none) /\ Pieces(none) = h[Len(none)]
    BY <1>1, PartingSteps
  <2>2. Len(none) = 0 /\ h[0] = Nothing /\ g[0] = Nothing
    BY <1>12, <2>1 DEF Parting
  <2>3. Pieces(f[0]) = g[0]
    BY <1>9, <2>1, <2>2
  <2> QED
    BY <1>1, <1>9, <2>3 DEF Alike
<1>14. ASSUME NEW k \in 1..N, k - 1 \in T PROVE k \in T
  <2> PICK p : p = g[k - 1]
    OBVIOUS
  <2>1. PICK r \in Seq(NameParts) : r = f[k - 1] /\ Alike(Pieces(r), p)
    BY <1>14
  <2>2. k - 1 \in 0..N /\ name[k] \in NameParts /\ f[k] = r \o DateShown(date, name[k]) /\ g[k] = NextPiece(p, name[k])
    <3>1. k - 1 \in 0..N /\ k \in 1..Len(name)
      BY <1>11
    <3>2. g[k] = NextPiece(p, name[k])
      BY <1>12, <3>1 DEF Parting
    <3> QED
      BY <1>10, <1>11, <2>1, <3>1, <3>2
  <2>3. p \in Taken
    BY <1>11, <1>12, <2>1, <2>2 DEF Parting
  <2>4. r \o DateShown(date, name[k]) \in Seq(NameParts) /\ Alike(Pieces(r \o DateShown(date, name[k])), NextPiece(p, name[k]))
    BY <2>1, <2>2, <2>3, ShownLaw
  <2>5. f[k] \in Seq(NameParts) /\ Alike(Pieces(f[k]), g[k])
    BY <2>2, <2>4, Zenon
  <2> QED
    BY <2>5
<1> HIDE DEF T
<1>15. N \in T
  <2>1. \A k \in 0..N : k \in T
    BY <1>13, <1>14, InductionUpTo
  <2> QED
    BY <2>1
<1> QED
  BY <1>2, <1>9, <1>11, <1>12, <1>15, Zenon DEF T

\* A part is taken out of a piece that has begun before it.
LEMMA RemovedLaw ==
  ASSUME NEW name \in Seq(NameParts), NEW n \in 1..Len(name), n + 1 <= Len(name),
         name[n] # Separator, name[n + 1] # Separator
  PROVE  RemoveAt(name, n + 1) \in Seq(NameParts) /\ Alike(Pieces(RemoveAt(name, n + 1)), Pieces(name))
<1> PICK S : S = NameParts
  OBVIOUS
<1>1. PICK N \in Nat : N = Len(name) /\ n \in 1..N /\ n + 1 <= N /\ \A i \in 1..N : name[i] \in NameParts
  BY LenProperties, ElementOfSeq
<1>2. PICK a, b : a = SubSeq(name, 1, n) /\ b = SubSeq(name, n + 2, N)
  OBVIOUS
<1>3. /\ a \in Seq(S) /\ Len(a) = n /\ \A i \in 1..n : a[i] = name[i]
      /\ b \in Seq(S) /\ Len(b) = N - n - 1 /\ \A i \in 1..(N - n - 1) : b[i] = name[n + 1 + i]
  <2>1. a \in Seq(S) /\ Len(a) = n /\ \A i \in 1..n : a[i] = name[i]
    BY <1>1, <1>2
  <2>2. PICK m \in Nat : m = n + 2 /\ m >= 1 /\ m <= N + 1
    BY <1>1
  <2>3. PICK l \in Nat : l = N - m + 1 /\ l = N - n - 1
    BY <1>1, <2>2
  <2>4. b = SubSeq(name, m, N)
    BY <1>2, <2>2
  <2>5. b \in Seq(S) /\ Len(b) = l /\ \A i \in 1..l : b[i] = name[m + i - 1]
    BY <1>1, <2>2, <2>3, <2>4
  <2>6. \A i \in 1..l : m + i - 1 = n + 1 + i
    BY <1>1, <2>2
  <2>7. \A i \in 1..l : b[i] = name[n + 1 + i]
    BY <2>5, <2>6
  <2> QED
    BY <2>1, <2>3, <2>5, <2>7
<1>4. PICK r : r = a \o b
  OBVIOUS
<1>5. RemoveAt(name, n + 1) = r
  <2>1. (n + 1) - 1 = n /\ (n + 1) + 1 = n + 2
    BY <1>1
  <2> QED
    BY <1>1, <1>2, <1>4, <2>1 DEF RemoveAt
<1>6. /\ r \in Seq(S) /\ Len(r) = N - 1 /\ \A i \in 1..n : r[i] = name[i]
      /\ \A i \in (n + 1)..(N - 1) : r[i] = name[i + 1]
  <2>1. PICK A \in Nat, B \in Nat : A = Len(a) /\ B = Len(b) /\ A = n /\ A + B = N - 1
    <3>1. Len(a) = n /\ Len(b) = N - n - 1
      BY <1>3
    <3>2. n \in Nat /\ N - n - 1 \in Nat /\ n + (N - n - 1) = N - 1
      BY <1>1
    <3> QED
      BY <3>1, <3>2
  <2>2. /\ r \in Seq(S) /\ Len(r) = A + B /\ \A i \in 1..A : r[i] = a[i]
        /\ \A i \in (A + 1)..(A + B) : r[i] = b[i - A]
    <3>1. /\ r \in Seq(S) /\ Len(r) = Len(a) + Len(b)
          /\ \A i \in 1..Len(a) + Len(b) : r[i] = IF i <= Len(a) THEN a[i] ELSE b[i - Len(a)]
      <4>1. a \in Seq(S) /\ b \in Seq(S)
        BY <1>3
      <4> QED
        BY <1>4, <4>1, ConcatProperties, Zenon
    <3>2. Len(r) = A + B /\ \A i \in 1..A + B : r[i] = IF i <= A THEN a[i] ELSE b[i - A]
      BY <2>1, <3>1, Zenon
    <3>3. ASSUME NEW i \in 1..A PROVE r[i] = a[i]
      <4>1. i \in 1..A + B /\ i <= A
        OBVIOUS
      <4> QED
        BY <3>2, <4>1
    <3>4. ASSUME NEW i \in (A + 1)..(A + B) PROVE r[i] = b[i - A]
      <4>1. i \in 1..A + B /\ ~(i <= A)
        OBVIOUS
      <4> QED
        BY <3>2, <4>1
    <3> QED
      BY <3>1, <3>2, <3>3, <3>4
  <2>3. /\ r \in Seq(S) /\ Len(r) = N - 1 /\ \A i \in 1..n : r[i] = a[i]
        /\ \A i \in (n + 1)..(N - 1) : r[i] = b[i - n]
    BY <2>1, <2>2
  <2>4. ASSUME NEW i \in (n + 1)..(N - 1) PROVE r[i] = name[i + 1]
    <3>1. i - n \in 1..(N - n - 1) /\ n + 1 + (i - n) = i + 1
      BY <1>1
    <3>2. r[i] = b[i - n] /\ b[i - n] = name[n + 1 + (i - n)]
      BY <1>3, <2>3, <3>1
    <3> QED
      BY <3>1, <3>2
  <2> QED
    BY <1>3, <2>3, <2>4
<1>7. PICK f : Parting(f, name) /\ Pieces(name) = f[N]
  BY <1>1, PartingSteps
<1>8. PICK g : Parting(g, r) /\ Pieces(r) = g[N - 1]
  BY <1>6, PartingSteps
<1>9. \A k \in 0..n : f[k] = g[k]
  <2>1. Len(name) \in Nat /\ Len(r) \in Nat /\ n <= Len(name) /\ n <= Len(r) /\ n \in Nat
    BY <1>1, <1>6
  <2>2. \A i \in 1..n : name[i] = r[i]
    BY <1>6
  <2> QED
    BY <1>7, <1>8, <2>1, <2>2, PartedAlike
<1>10. f[n].at = "piece"
  <2>1. Parted(f[n - 1], name[n], f[n])
    BY <1>1, <1>7 DEF Parting
  <2> QED
    BY <2>1 DEF Parted
<1>11. Alike(f[n + 1], g[n])
  <2>1. n + 1 \in 1..N /\ (n + 1) - 1 = n /\ n \in 0..N
    BY <1>1
  <2>2. f[n + 1] = NextPiece(f[n], name[n + 1]) /\ f[n] \in Taken /\ name[n + 1] \in NameParts
    BY <1>1, <1>7, <2>1 DEF Parting
  <2>3. Alike(f[n + 1], f[n])
    BY <1>10, <2>2, AlikeLonger
  <2>4. f[n] = g[n]
    BY <1>9
  <2> QED
    BY <2>3, <2>4
<1> DEFINE T == {k \in Nat : k >= n => Alike(f[k + 1], g[k])}
<1>12. 0 \in T
  BY <1>1
<1>13. ASSUME NEW k \in 1..(N - 1), k - 1 \in T PROVE k \in T
  <2> SUFFICES ASSUME k >= n PROVE Alike(f[k + 1], g[k])
    BY <1>1
  <2>1. CASE k = n
    BY <1>11, <2>1
  <2>2. CASE k # n
    <3>1. /\ k + 1 \in 1..N /\ (k + 1) - 1 = k /\ k \in 0..N /\ k - 1 \in 0..(N - 1) /\ (k - 1) + 1 = k
          /\ k \in (n + 1)..(N - 1) /\ k - 1 \in Nat /\ k - 1 >= n
      BY <1>1, <2>2
    <3>2. Alike(f[k], g[k - 1])
      BY <1>13, <3>1
    <3>3. /\ f[k + 1] = NextPiece(f[k], name[k + 1]) /\ f[k] \in Taken
          /\ g[k] = NextPiece(g[k - 1], r[k]) /\ g[k - 1] \in Taken /\ r[k] = name[k + 1] /\ name[k + 1] \in NameParts
      BY <1>1, <1>6, <1>7, <1>8, <3>1 DEF Parting
    <3> QED
      BY <3>2, <3>3, AlikeStep
  <2> QED
    BY <2>1, <2>2
<1> HIDE DEF T
<1>14. N - 1 \in T
  <2>1. N - 1 \in Nat
    BY <1>1
  <2>2. \A k \in 0..(N - 1) : k \in T
    BY <1>12, <1>13, <2>1, InductionUpTo
  <2> QED
    BY <2>1, <2>2
<1>15. Alike(f[N], g[N - 1])
  <2>1. (N - 1) + 1 = N /\ N - 1 >= n
    BY <1>1
  <2> QED
    BY <1>14, <2>1 DEF T
<1> QED
  BY <1>5, <1>6, <1>7, <1>8, <1>15 DEF Alike

\* The specifier that counts is one.
LEMMA DateIndexLaw ==
  ASSUME NEW name \in Seq(NameParts)
  PROVE  DateIndex(name) # 0 => DateIndex(name) \in 1..Len(name) /\ name[DateIndex(name)] = DateTimeSpecifier
<1> PICK specifiers : specifiers = {i \in DOMAIN name : name[i] = DateTimeSpecifier /\ (i > 1 => name[i - 1] # Percent)}
  OBVIOUS
<1>1. DOMAIN name = 1..Len(name) /\ specifiers \subseteq Nat
  BY LenProperties
<1>2. specifiers # {} => Min(specifiers) \in specifiers
  BY <1>1, Smallest
<1>3. DateIndex(name) = IF specifiers = {} THEN 0 ELSE Min(specifiers)
  BY DEF DateIndex
<1> QED
  BY <1>1, <1>2, <1>3

\* A date in the name of a file makes no more pieces, and the name still ends in one.
LEMMA ResolvedLaw ==
  ASSUME NEW name \in Filenames
  PROVE  /\ resolveFilename(name) \in Seq(NameParts)
         /\ Alike(Pieces(resolveFilename(name)), Pieces(name))
         /\ Pieces(name).at = "piece" /\ Pieces(resolveFilename(name)).at = "piece"
<1>1. name \in Seq(NameParts) /\ name # <<>> /\ Last(name) # Separator
  <2>1. name \in Seq(Range(name)) /\ name # <<>> /\ Last(name) # Separator
    BY FilenamesAssumption
  <2>2. Range(name) \subseteq NameParts
    BY DEF NameParts
  <2> QED
    BY <2>1, <2>2
<1>2. PICK N \in Nat : N = Len(name) /\ N \in 1..N /\ N \in 0..N /\ name[N] # Separator
  <2>1. Len(name) \in Nat /\ Len(name) # 0
    BY <1>1, EmptySeq, LenProperties
  <2> QED
    BY <1>1, <2>1 DEF Last
<1>3. Pieces(name).at = "piece" /\ Pieces(name) \in Taken
  <2>1. PICK f : Parting(f, name) /\ Pieces(name) = f[N]
    BY <1>1, <1>2, PartingSteps
  <2>2. Parted(f[N - 1], name[N], f[N]) /\ f[N] \in Taken
    BY <1>2, <2>1 DEF Parting
  <2> QED
    BY <1>2, <2>1, <2>2 DEF Parted
<1> PICK at, braces : at = DateIndex(name) /\ braces = (at # 0 /\ at < Len(name) /\ name[at + 1] = Braces)
  OBVIOUS
<1> PICK rest, date : rest = (IF braces THEN RemoveAt(name, at + 1) ELSE name) /\ date = ReplaceAll(Now(braces), Separator, "-")
  OBVIOUS
<1>4. resolveFilename(name) = IF at = 0 THEN name ELSE WithDate(rest, date)
  BY DEF resolveFilename
<1>5. CASE at = 0
  BY <1>1, <1>3, <1>4, <1>5 DEF Alike
<1>6. CASE at # 0
  <2>1. at \in 1..Len(name) /\ name[at] = DateTimeSpecifier
    BY <1>1, <1>6, DateIndexLaw
  <2>2. DateTimeSpecifier # Separator /\ Braces # Separator
    BY DEF DateTimeSpecifier, Separator, Braces
  <2>3. rest \in Seq(NameParts) /\ Alike(Pieces(rest), Pieces(name))
    <3>1. CASE braces
      <4>1. at + 1 <= Len(name) /\ name[at + 1] = Braces
        <5>1. at < Len(name) /\ name[at + 1] = Braces
          BY <3>1, Zenon
        <5> QED
          BY <1>2, <2>1, <5>1
      <4>2. RemoveAt(name, at + 1) \in Seq(NameParts) /\ Alike(Pieces(RemoveAt(name, at + 1)), Pieces(name))
        BY <1>1, <2>1, <2>2, <4>1, RemovedLaw
      <4> QED
        BY <3>1, <4>2
    <3>2. CASE ~braces
      BY <1>1, <3>2 DEF Alike
    <3> QED
      BY <3>1, <3>2
  <2>4. date \in DatesShown
    BY DateOf
  <2>5. WithDate(rest, date) \in Seq(NameParts) /\ Alike(Pieces(WithDate(rest, date)), Pieces(rest))
    BY <2>3, <2>4, WithDateLaw
  <2> QED
    BY <1>3, <1>4, <1>6, <2>3, <2>5 DEF Alike
<1> QED
  BY <1>5, <1>6

-----------------------------------------------------------------------------
\* The directory of a file is what is above its last piece.
LEMMA DirectoryLaw ==
  ASSUME NEW r \in Seq(NameParts), Pieces(r).at = "piece", NEW e, e = extractPathFromFilename(r)
  PROVE  /\ PathOf(r) \in Paths /\ PathOf(r) # <<>>
         /\ Len(e) < Len(r) => PathOf(e) = Front(PathOf(r))
         /\ ~(Len(e) < Len(r)) => Front(PathOf(r)) = <<>>
<1> PICK S : S = NameParts
  OBVIOUS
<1>1. PICK N \in Nat : N = Len(r)
  BY LenProperties
<1>2. PICK f : Parting(f, r) /\ Pieces(r) = f[N]
  BY <1>1, PartingSteps
<1>3. /\ f[0] = Nothing /\ \A k \in 0..N : f[k] \in Taken
      /\ \A k \in 1..N : Parted(f[k - 1], r[k], f[k])
  BY <1>1, <1>2 DEF Parting
<1>4. f[N].at = "piece" /\ f[N] \in Taken
  BY <1>1, <1>2, <1>3
<1>5. N \in 1..N /\ r[N] # Separator
  <2>1. N # 0
    BY <1>3, <1>4 DEF Nothing
  <2>2. N \in 1..N
    BY <2>1
  <2> QED
    BY <1>3, <1>4, <2>2 DEF Parted
<1> DEFINE I == {i \in 1..N : r[i] = Separator}
<1>6. PICK j \in 0..(N - 1) :
        /\ j = IF I = {} THEN 0 ELSE Max(I)
        /\ I # {} => j \in I
        /\ \A i \in (j + 1)..N : r[i] # Separator
  <2>1. CASE I = {}
    <3>1. 0 \in 0..(N - 1) /\ \A i \in (0 + 1)..N : i \in 1..N
      BY <1>5
    <3> QED
      BY <2>1, <3>1
  <2>2. CASE I # {}
    <3>1. I \subseteq 0..N
      OBVIOUS
    <3>2. Max(I) \in I /\ \A x \in I : Max(I) >= x
      BY <2>2, <3>1, Largest
    <3>3. PICK m \in 1..N : m = Max(I) /\ r[m] = Separator /\ \A x \in I : m >= x
      BY <3>2
    <3>4. m # N
      BY <1>5, <3>3
    <3>5. m \in 0..(N - 1)
      BY <3>4
    <3>6. ASSUME NEW i \in (m + 1)..N PROVE r[i] # Separator
      <4>1. i \in 1..N /\ ~(m >= i)
        OBVIOUS
      <4> QED
        BY <3>3, <4>1
    <3> QED
      BY <2>2, <3>2, <3>3, <3>5, <3>6
  <2> QED
    BY <2>1, <2>2
<1>7. I = {} <=> Separator \notin Range(r)
  <2>1. DOMAIN r = 1..N
    BY <1>1, LenProperties
  <2> QED
    BY <2>1 DEF Range
<1>8. e = IF I = {} THEN r ELSE SubSeq(r, 1, Max(I))
  BY <1>1, <1>7 DEF extractPathFromFilename, SelectLastInSeq
<1> HIDE DEF I
<1>9. f[j].at # "piece" /\ j \in 0..N
  <2>1. CASE j = 0
    BY <1>3, <2>1 DEF Nothing
  <2>2. CASE j # 0
    <3>1. j \in 1..N /\ j \in I
      BY <1>6, <2>2
    <3>2. r[j] = Separator
      BY <3>1 DEF I
    <3>3. Parted(f[j - 1], r[j], f[j])
      BY <1>3, <3>1
    <3> QED
      BY <3>1, <3>2, <3>3 DEF Parted
  <2> QED
    BY <2>1, <2>2
<1> DEFINE T == {k \in Nat : k > j => f[k].at = "piece" /\ Front(f[k].path) = f[j].path}
<1>10. 0 \in T
  OBVIOUS
<1>11. ASSUME NEW k \in 1..N, k - 1 \in T PROVE k \in T
  <2> SUFFICES ASSUME k > j PROVE f[k].at = "piece" /\ Front(f[k].path) = f[j].path
    OBVIOUS
  <2>1. k \in (j + 1)..N
    OBVIOUS
  <2>2. r[k] # Separator /\ Parted(f[k - 1], r[k], f[k])
    BY <1>3, <1>6, <2>1
  <2>3. CASE k - 1 = j
    BY <1>9, <2>2, <2>3 DEF Parted
  <2>4. CASE k - 1 # j
    <3>1. k - 1 > j
      BY <2>4
    <3>2. f[k - 1].at = "piece" /\ Front(f[k - 1].path) = f[j].path
      BY <1>11, <3>1
    <3> QED
      BY <2>2, <3>2 DEF Parted
  <2> QED
    BY <2>3, <2>4
<1> HIDE DEF T
<1>12. Front(f[N].path) = f[j].path
  <2>1. \A k \in 0..N : k \in T
    BY <1>10, <1>11, InductionUpTo
  <2>2. N \in T /\ N > j
    BY <2>1
  <2> QED
    BY <2>2 DEF T
<1>13. PathOf(r) \in Paths /\ PathOf(r) # <<>> /\ PathOf(r) = f[N].path
  BY <1>2, <1>4 DEF PathOf, Taken
<1>14. CASE I = {}
  <2>1. e = r /\ j = 0
    BY <1>6, <1>8, <1>14
  <2>2. f[0].path = <<>>
    BY <1>3 DEF Nothing
  <2>3. ~(Len(e) < Len(r))
    BY <1>1, <2>1
  <2> QED
    BY <1>12, <1>13, <2>1, <2>2, <2>3
<1>15. CASE I # {}
  <2>1. e = SubSeq(r, 1, j) /\ j \in 1..N
    BY <1>6, <1>8, <1>15 DEF I
  <2>2. e \in Seq(S) /\ Len(e) = j /\ \A i \in 1..j : r[i] = e[i]
    BY <1>1, <2>1
  <2>3. PICK g : Parting(g, e) /\ Pieces(e) = g[j]
    BY <2>2, PartingSteps
  <2>4. f[j] = g[j]
    <3>1. Len(r) \in Nat /\ Len(e) \in Nat /\ j \in Nat /\ j <= Len(r) /\ j <= Len(e) /\ j \in 0..j
      BY <1>1, <2>1, <2>2
    <3> QED
      BY <1>2, <2>2, <2>3, <3>1, PartedAlike
  <2>5. PathOf(e) = f[j].path
    BY <2>3, <2>4 DEF PathOf
  <2>6. Len(e) < Len(r)
    BY <1>1, <2>2
  <2> QED
    BY <1>12, <1>13, <2>5, <2>6
<1> QED
  BY <1>14, <1>15

-----------------------------------------------------------------------------
\* Directories that may be on the disk: none was made that cannot be, and none without those above.
SoundDirs(ds) ==
  /\ Present \subseteq ds /\ ds \cap Denied \subseteq Present
  /\ \A p \in ds : \A n \in 1..Len(p) : pathExists(ds, SubSeq(p, 1, n))

\* What a directory cannot be made of: what the system denies, and files.
Bars(files) == (Denied \ Present) \cup files

Free(files, path, n) == \A m \in 1..n : SubSeq(path, 1, m) \notin Bars(files)

\* Files are no directories.
Apart(ds, files) == \A p \in files : ~pathExists(ds, p)

\* Where a directory is, those above it are, and could be made.
LEMMA ThereIsFree ==
  ASSUME NEW ds, SoundDirs(ds), NEW files, Apart(ds, files), NEW S, NEW p \in Seq(S), pathExists(ds, p)
  PROVE  /\ \A m \in 1..Len(p) : pathExists(ds, SubSeq(p, 1, m))
         /\ Free(files, p, Len(p))
<1>1. PICK N \in Nat : N = Len(p)
  BY LenProperties
<1>2. ASSUME NEW m \in 1..N PROVE pathExists(ds, SubSeq(p, 1, m)) /\ SubSeq(p, 1, m) \notin Bars(files)
  <2>1. PICK a : a = SubSeq(p, 1, m)
    OBVIOUS
  <2>2. a \in Seq(S) /\ Len(a) = m /\ a # <<>>
    <3>1. m \in 0..Len(p)
      BY <1>1
    <3>2. a \in Seq(S) /\ Len(a) = m
      BY <2>1, <3>1, SubSeqLaw
    <3> QED
      BY <3>2, EmptySeq
  <2>3. pathExists(ds, a)
    <3>1. CASE p \in ds
      BY <1>1, <2>1, <3>1 DEF SoundDirs
    <3>2. CASE p = <<>>
      BY <1>1, <3>2
    <3>3. CASE p = <<<<Separator>>>>
      <4>1. N = 1
        BY <1>1, <3>3
      <4>2. m = 1
        BY <4>1
      <4>3. a = p
        <5>1. a[1] = p[1] /\ Len(p) = 1
          <6>1. m \in 0..Len(p) /\ m = 1 /\ 1 \in 1..m
            BY <1>1, <4>1, <4>2
          <6>2. \A i \in 1..m : SubSeq(p, 1, m)[i] = p[i]
            BY <6>1, SubSeqLaw
          <6> QED
            BY <1>1, <2>1, <4>1, <6>1, <6>2
        <5>2. \A i \in 1..Len(a) : a[i] = p[i]
          BY <2>2, <4>2, <5>1
        <5> QED
          BY <2>2, <4>2, <5>1, <5>2, SeqEqual
      <4> QED
        BY <4>3
    <3> QED
      BY <3>1, <3>2, <3>3 DEF pathExists
  <2>4. a \in ds \/ a = <<<<Separator>>>>
    BY <2>2, <2>3 DEF pathExists
  <2>5. a \notin Bars(files)
    BY <2>3, <2>4, DirectoriesAssumption DEF SoundDirs, Bars, Apart
  <2> QED
    BY <2>1, <2>3, <2>5
<1> QED
  BY <1>1, <1>2 DEF Free

\* A directory is made if the one above is there, it is not denied and no file.
LEMMA MkdirLaw ==
  ASSUME NEW ds, SoundDirs(ds), NEW files, Apart(ds, files), NEW S, NEW p \in Seq(S), p # <<>>,
         NEW made, made = IF pathExists(ds, p) THEN ds ELSE mkdir(ds, files, p)
  PROVE  /\ SoundDirs(made) /\ Apart(made, files) /\ ds \subseteq made
         /\ pathExists(made, p) <=> pathExists(ds, Front(p)) /\ p \notin Bars(files)
<1>1. CASE pathExists(ds, p)
  <2>1. PICK N \in Nat : N = Len(p)
    BY LenProperties
  <2>2. made = ds
    BY <1>1
  <2>3. /\ \A m \in 1..N : pathExists(ds, SubSeq(p, 1, m))
        /\ p \notin Bars(files)
    <3>1. \A m \in 1..Len(p) : pathExists(ds, SubSeq(p, 1, m))
      BY <1>1, ThereIsFree
    <3>2. p \in ds \/ p = <<<<Separator>>>>
      BY <1>1 DEF pathExists
    <3>3. p \notin Bars(files)
      BY <1>1, <3>2, DirectoriesAssumption DEF SoundDirs, Bars, Apart
    <3> QED
      BY <2>1, <3>1, <3>3
  <2>4. pathExists(ds, Front(p))
    <3>1. Front(p) = SubSeq(p, 1, N - 1) /\ N - 1 \in 0..N /\ Front(p) \in Seq(S) /\ Len(Front(p)) = N - 1
      BY <2>1, FrontLaw
    <3>2. CASE N - 1 = 0
      <4>1. Front(p) = <<>>
        BY <3>1, <3>2, EmptySeq
      <4> QED
        BY <4>1 DEF pathExists
    <3>3. CASE N - 1 # 0
      <4>1. N - 1 \in 1..N
        BY <3>1, <3>3
      <4> QED
        BY <2>3, <3>1, <4>1
    <3> QED
      BY <3>2, <3>3
  <2> QED
    BY <1>1, <2>2, <2>3, <2>4
<1>2. CASE ~pathExists(ds, p) /\ pathExists(ds, Front(p)) /\ p \notin Denied \cup files
  <2>1. made = ds \cup {p}
    BY <1>2 DEF mkdir
  <2>2. PICK N \in Nat : N = Len(p)
    BY LenProperties
  <2>3. \A q : pathExists(ds, q) => pathExists(made, q)
    BY <2>1 DEF pathExists
  <2>4. ASSUME NEW n \in 1..N PROVE pathExists(made, SubSeq(p, 1, n))
    <3>1. CASE n = N
      <4>1. PICK a : a = SubSeq(p, 1, N)
        OBVIOUS
      <4>2. N \in 0..Len(p)
        BY <2>2
      <4>3. a \in Seq(S) /\ Len(a) = N /\ \A i \in 1..N : a[i] = p[i]
        BY <4>1, <4>2, SubSeqLaw
      <4>4. a = p
        BY <2>2, <4>3, SeqEqual
      <4> QED
        BY <2>1, <3>1, <4>1, <4>4 DEF pathExists
    <3>2. CASE n # N
      <4>1. n \in 0..(N - 1) /\ n \in 1..(N - 1)
        BY <3>2
      <4>2. /\ Front(p) = SubSeq(p, 1, N - 1) /\ N - 1 \in 0..Len(p)
            /\ Front(p) \in Seq(S) /\ Len(Front(p)) = N - 1
        BY <2>2, FrontLaw
      <4>3. SubSeq(Front(p), 1, n) = SubSeq(p, 1, n)
        BY <4>1, <4>2, SubSubLaw
      <4>4. \A m \in 1..Len(Front(p)) : pathExists(ds, SubSeq(Front(p), 1, m))
        BY <1>2, <4>2, ThereIsFree
      <4>5. pathExists(ds, SubSeq(p, 1, n))
        BY <4>1, <4>2, <4>3, <4>4
      <4> QED
        BY <2>3, <4>5
    <3> QED
      BY <3>1, <3>2
  <2>5. SoundDirs(made)
    <3>1. Present \subseteq made /\ made \cap Denied \subseteq Present
      BY <1>2, <2>1 DEF SoundDirs
    <3>2. ASSUME NEW q \in made PROVE \A n \in 1..Len(q) : pathExists(made, SubSeq(q, 1, n))
      <4>1. CASE q = p
        BY <2>2, <2>4, <4>1
      <4>2. CASE q \in ds
        BY <2>3, <4>2 DEF SoundDirs
      <4> QED
        BY <2>1, <4>1, <4>2
    <3> QED
      BY <3>1, <3>2 DEF SoundDirs
  <2>6. pathExists(made, p)
    BY <2>1 DEF pathExists
  <2>7. Apart(made, files)
    BY <1>2, <2>1 DEF Apart, pathExists
  <2> QED
    BY <1>2, <2>1, <2>5, <2>6, <2>7 DEF Bars
<1>3. CASE ~pathExists(ds, p) /\ ~(pathExists(ds, Front(p)) /\ p \notin Denied \cup files)
  <2>1. made = ds
    BY <1>3 DEF mkdir
  <2>2. p \notin Present
    BY <1>3 DEF SoundDirs, pathExists
  <2> QED
    BY <1>3, <2>1, <2>2 DEF Bars
<1> QED
  BY <1>1, <1>2, <1>3

\* All directories on the way are made, as far as they can be.
LEMMA CreatePathLaw ==
  ASSUME NEW ds, SoundDirs(ds), NEW files, Apart(ds, files), NEW S, NEW path \in Seq(S),
         NEW made, made = createPath(ds, files, path)
  PROVE  /\ SoundDirs(made) /\ Apart(made, files) /\ ds \subseteq made /\ made \subseteq ds \cup Seq(S)
         /\ pathExists(made, path) <=> Free(files, path, Len(path))
<1>1. CASE pathExists(ds, path)
  <2>1. createPath(ds, files, path) = ds
    BY <1>1 DEF createPath
  <2> QED
    BY <1>1, <2>1, ThereIsFree
<1>2. CASE ~pathExists(ds, path)
  <2>1. PICK N \in Nat : N = Len(path)
    BY LenProperties
  <2>2. PICK seq : seq = [n \in 1..N |-> n]
    OBVIOUS
  <2>3. seq \in Seq(Nat) /\ DOMAIN seq = 1..N /\ Len(seq) = N /\ \A k \in 1..N : seq[k] = k
    BY <2>2
  <2> DEFINE Dir(d, n) == IF pathExists(d, SubSeq(path, 1, n)) THEN d ELSE mkdir(d, files, SubSeq(path, 1, n))
  <2>4. PICK All : All = SUBSET (ds \cup {SubSeq(path, 1, n) : n \in Nat})
    OBVIOUS
  <2>5. \A d \in All, n \in Nat : Dir(d, n) \in All
    BY <2>4 DEF mkdir
  <2>6. ds \in All
    BY <2>4
  <2> DEFINE iter == CHOOSE it : it = [s \in SUBSET DOMAIN seq |->
                IF s = {} THEN ds ELSE Dir(it[s \ {Max(s)}], seq[Max(s)])]
  <2>7. createPath(ds, files, path) = iter[DOMAIN seq]
    BY <1>2, <2>1, <2>2 DEF createPath, FoldLeft, MapThenFoldSet
  <2> HIDE DEF Dir
  <2>8. PICK F : F = [q \in All \X Nat |-> Dir(q[1], q[2])]
    OBVIOUS
  <2>9. F \in [All \X Nat -> All]
    BY <2>5, <2>8
  <2>10. PICK it : Folding(it, F, ds, seq, Nat, All)
    BY <2>3, <2>6, <2>9, FoldDefined, Zenon
  <2>11. it = [s \in SUBSET DOMAIN seq |-> IF s = {} THEN ds ELSE Dir(it[s \ {Max(s)}], seq[Max(s)])]
    BY <2>8, <2>10 DEF Folding
  <2>12. iter = [s \in SUBSET DOMAIN seq |-> IF s = {} THEN ds ELSE Dir(iter[s \ {Max(s)}], seq[Max(s)])]
    BY <2>11
  <2> HIDE DEF iter
  <2>13. PICK f : Beginnings(f, iter, seq)
    BY <2>3, FoldSteps
  <2>14. f[0] = ds /\ f[N] = iter[DOMAIN seq]
    BY <2>3, <2>12, <2>13 DEF Beginnings
  <2>15. ASSUME NEW k \in 1..N PROVE f[k] = Dir(f[k - 1], k)
    <3>1. /\ f[k] = iter[1..k] /\ 1..k \in SUBSET DOMAIN seq /\ 1..k # {}
          /\ f[k - 1] = iter[(1..k) \ {Max(1..k)}] /\ Max(1..k) = k
      BY <2>3, <2>13 DEF Beginnings
    <3>2. f[k] = Dir(f[k - 1], seq[k])
      BY <2>12, <3>1, Zenon
    <3> QED
      BY <2>3, <3>2
  <2> DEFINE T == {k \in Nat : /\ SoundDirs(f[k]) /\ Apart(f[k], files) /\ ds \subseteq f[k] /\ f[k] \subseteq ds \cup Seq(S)
                               /\ pathExists(f[k], SubSeq(path, 1, k)) <=> Free(files, path, k)}
  <2>16. 0 \in T
    <3>1. 0 \in 0..Len(path)
      BY <2>1
    <3>2. SubSeq(path, 1, 0) \in Seq(S) /\ Len(SubSeq(path, 1, 0)) = 0
      BY <3>1, SubSeqLaw
    <3>3. SubSeq(path, 1, 0) = <<>>
      BY <3>2, EmptySeq
    <3>4. pathExists(f[0], SubSeq(path, 1, 0))
      BY <3>3 DEF pathExists
    <3>5. Free(files, path, 0)
      BY DEF Free
    <3> QED
      BY <2>14, <3>4, <3>5
  <2>17. ASSUME NEW k \in 1..N, k - 1 \in T PROVE k \in T
    <3>1. PICK d : d = f[k - 1]
      OBVIOUS
    <3>2. PICK p : p = SubSeq(path, 1, k)
      OBVIOUS
    <3>3. /\ SoundDirs(d) /\ Apart(d, files) /\ ds \subseteq d /\ d \subseteq ds \cup Seq(S)
          /\ pathExists(d, SubSeq(path, 1, k - 1)) <=> Free(files, path, k - 1)
      BY <2>17, <3>1
    <3>4. k \in 0..Len(path) /\ k - 1 \in 0..k
      BY <2>1
    <3>5. p \in Seq(S) /\ Len(p) = k
      BY <3>2, <3>4, SubSeqLaw
    <3>6. p # <<>>
      BY <3>5, EmptySeq
    <3>7. Front(p) = SubSeq(path, 1, k - 1)
      <4>1. Front(p) = SubSeq(p, 1, k - 1)
        BY <3>5, <3>6, FrontLaw
      <4>2. SubSeq(SubSeq(path, 1, k), 1, k - 1) = SubSeq(path, 1, k - 1)
        BY <3>4, SubSubLaw
      <4> QED
        BY <3>2, <4>1, <4>2
    <3>8. PICK new : new = IF pathExists(d, p) THEN d ELSE mkdir(d, files, p)
      OBVIOUS
    <3>9. f[k] = new
      BY <2>15, <3>1, <3>2, <3>8 DEF Dir
    <3>10. /\ SoundDirs(new) /\ Apart(new, files) /\ d \subseteq new
           /\ pathExists(new, p) <=> pathExists(d, Front(p)) /\ p \notin Bars(files)
      BY <3>3, <3>5, <3>6, <3>8, MkdirLaw
    <3>11. ds \subseteq new /\ new \subseteq ds \cup Seq(S)
      BY <3>3, <3>5, <3>8, <3>10 DEF mkdir
    <3>12. Free(files, path, k) <=> Free(files, path, k - 1) /\ p \notin Bars(files)
      <4>1. \A m : m \in 1..k <=> m \in 1..(k - 1) \/ m = k
        OBVIOUS
      <4> QED
        BY <3>2, <4>1 DEF Free
    <3>13. pathExists(new, p) <=> Free(files, path, k)
      BY <3>3, <3>7, <3>10, <3>12
    <3> QED
      BY <3>2, <3>9, <3>10, <3>11, <3>13
  <2> HIDE DEF T
  <2>18. N \in T
    <3>1. \A k \in 0..N : k \in T
      BY <2>16, <2>17, InductionUpTo
    <3> QED
      BY <3>1
  <2>19. SubSeq(path, 1, N) = path
    <3>1. PICK a : a = SubSeq(path, 1, N)
      OBVIOUS
    <3>2. N \in 0..Len(path)
      BY <2>1
    <3>3. a \in Seq(S) /\ Len(a) = N /\ \A i \in 1..N : a[i] = path[i]
      BY <3>1, <3>2, SubSeqLaw
    <3>4. a = path
      BY <2>1, <3>3, SeqEqual
    <3> QED
      BY <3>1, <3>4
  <2>20. createPath(ds, files, path) = f[N]
    BY <2>7, <2>14
  <2> QED
    BY <2>1, <2>18, <2>19, <2>20 DEF T
<1> QED
  BY <1>1, <1>2

-----------------------------------------------------------------------------
(***************************************************************************)
(* The file of a level.                                                    *)
(***************************************************************************)

\* The directories above a file are those on the way to its directory.
LEMMA AboveLaw ==
  ASSUME NEW files, NEW S, NEW p \in Seq(S), p # <<>>
  PROVE  Above(p) \cap Bars(files) = {} <=> Free(files, Front(p), Len(Front(p)))
<1>1. PICK N \in Nat : N = Len(p)
  BY LenProperties
<1>2. /\ Front(p) = SubSeq(p, 1, N - 1) /\ N - 1 \in 0..Len(p)
      /\ Front(p) \in Seq(S) /\ Len(Front(p)) = N - 1
  BY <1>1, FrontLaw
<1>3. \A m \in 1..(N - 1) : SubSeq(Front(p), 1, m) = SubSeq(p, 1, m)
  <2> SUFFICES ASSUME NEW m \in 1..(N - 1) PROVE SubSeq(Front(p), 1, m) = SubSeq(p, 1, m)
    OBVIOUS
  <2>1. m \in 0..(N - 1)
    OBVIOUS
  <2> QED
    BY <1>2, <2>1, SubSubLaw
<1>4. Free(files, Front(p), Len(Front(p))) <=> \A m \in 1..(N - 1) : SubSeq(p, 1, m) \notin Bars(files)
  BY <1>2, <1>3 DEF Free
<1>5. Above(p) = {SubSeq(p, 1, m) : m \in 1..(N - 1)}
  BY <1>1 DEF Above
<1> QED
  BY <1>4, <1>5

\* Nothing is in the way of a file: all above it can be directories, and it can be a file.
Clear(ds, files, p) == Above(p) \cap Bars(files) = {} /\ p \notin Denied /\ ~pathExists(ds, p)

\* Files are where they can be.
SoundFiles(ds, files) == \A p \in files : pathExists(ds, Front(p)) /\ p \notin Denied /\ ~pathExists(ds, p)

\* What is in the way stays there.
LEMMA ClearBefore ==
  ASSUME NEW ds, NEW files, NEW made, NEW more, ds \subseteq made, files \subseteq more, NEW p, Clear(made, more, p)
  PROVE  Clear(ds, files, p)
  BY DEF Clear, Bars, pathExists

-----------------------------------------------------------------------------
\* Types of what is on the disk and of what is open.
Directories == SUBSET (Present \cup Paths)
Disks == UNION {[D -> Seq(Nat)] : D \in SUBSET (Paths \ {<<>>})}
NamesInUse == {fileName(l) : l \in DLevels}
StreamPlaces == {nullFile, appending} \cup Nat
Streams == UNION {[D -> StreamPlaces] : D \in SUBSET NamesInUse}

\* What is open is settled by what is on the disk: a file nothing is in the way of.
Attached(ss, ds, files) ==
  \A n \in DOMAIN ss : IF ss[n] = nullFile THEN ~Clear(ds, files, PathOf(n)) ELSE PathOf(n) \in files

\* Nothing is in the way of the files that are there.
LEMMA FilesAreClear ==
  ASSUME NEW ds, SoundDirs(ds), NEW files \in SUBSET (Paths \ {<<>>}), SoundFiles(ds, files), NEW p \in files
  PROVE  Clear(ds, files, p)
<1>1. PICK S : S = Seq(NameParts)
  OBVIOUS
<1>2. p \in Seq(S) /\ p # <<>>
  BY <1>1 DEF Paths
<1>3. Front(p) \in Seq(S)
  BY <1>2, FrontLaw
<1>4. Apart(ds, files) /\ pathExists(ds, Front(p))
  BY DEF SoundFiles, Apart
<1>5. Free(files, Front(p), Len(Front(p)))
  BY <1>3, <1>4, ThereIsFree
<1> QED
  BY <1>2, <1>5, AboveLaw DEF SoundFiles, Clear

\* Names lead to files.
LEMMA NamesLaw ==
  ASSUME filenames \in [DLevels -> Filenames], NEW n \in NamesInUse
  PROVE  n \in Seq(NameParts) /\ Pieces(n).at = "piece" /\ PathOf(n) \in Paths /\ PathOf(n) # <<>>
<1>1. PICK l \in DLevels : n = fileName(l)
  BY DEF NamesInUse
<1>2. n = resolveFilename(filenames[l]) /\ filenames[l] \in Filenames
  BY <1>1 DEF fileName
<1>3. n \in Seq(NameParts) /\ Pieces(n).at = "piece"
  BY <1>2, ResolvedLaw
<1> QED
  BY <1>3, DirectoryLaw

\* What a disk holds.
LEMMA FileOfDisk ==
  ASSUME NEW d \in Disks
  PROVE  DOMAIN d \in SUBSET (Paths \ {<<>>}) /\ \A p \in DOMAIN d : d[p] \in Seq(Nat) /\ p \in Paths /\ p # <<>>
<1>1. PICK D \in SUBSET (Paths \ {<<>>}) : d \in [D -> Seq(Nat)]
  BY DEF Disks
<1> QED
  BY <1>1

\* A disk with another content of a file.
LEMMA FileReplaced ==
  ASSUME NEW d \in Disks, NEW p \in DOMAIN d, NEW c \in Seq(Nat), NEW e, e = [d EXCEPT ![p] = c]
  PROVE  e \in Disks
<1>1. PICK D \in SUBSET (Paths \ {<<>>}) : d \in [D -> Seq(Nat)]
  BY DEF Disks
<1>2. e \in [D -> Seq(Nat)]
  BY <1>1
<1> QED
  BY <1>2 DEF Disks

\* What is open.
LEMMA StreamOf ==
  ASSUME NEW ss \in Streams
  PROVE  /\ DOMAIN ss \in SUBSET NamesInUse /\ \A n \in DOMAIN ss : ss[n] \in StreamPlaces
         /\ \A n \in DOMAIN ss, w \in StreamPlaces : [ss EXCEPT ![n] = w] \in Streams
<1>1. PICK D \in SUBSET NamesInUse : ss \in [D -> StreamPlaces]
  BY DEF Streams
<1>2. ASSUME NEW n \in DOMAIN ss, NEW w \in StreamPlaces PROVE [ss EXCEPT ![n] = w] \in Streams
  <2>1. [ss EXCEPT ![n] = w] \in [D -> StreamPlaces]
    BY <1>1
  <2> QED
    BY <2>1 DEF Streams
<1> QED
  BY <1>1, <1>2

\* Empty files for some paths more.
Added(e, d, P) ==
  /\ e \in Disks /\ DOMAIN e = DOMAIN d \cup P
  /\ \A p \in DOMAIN e : e[p] = IF p \in DOMAIN d THEN d[p] ELSE <<>>

\* WithFiles adds empty files.
LEMMA FilesAdded ==
  ASSUME NEW d \in Disks, NEW P \in SUBSET (Paths \ {<<>>}), NEW e, e = WithFiles(d, P)
  PROVE  Added(e, d, P)
<1> PICK none : none = <<>>
  OBVIOUS
<1>1. none \in Seq(Nat)
  OBVIOUS
<1>2. PICK D \in SUBSET (Paths \ {none}) : d \in [D -> Seq(Nat)]
  BY DEF Disks
<1>3. e = [p \in D \cup P |-> IF p \in D THEN d[p] ELSE none]
  BY <1>2 DEF WithFiles
<1>4. e \in [D \cup P -> Seq(Nat)]
  BY <1>1, <1>2, <1>3
<1>5. D \cup P \in SUBSET (Paths \ {none})
  OBVIOUS
<1>6. e \in Disks
  BY <1>4, <1>5 DEF Disks
<1> QED
  BY <1>2, <1>3, <1>4, <1>6 DEF Added

-----------------------------------------------------------------------------
\* What insertFile goes by and keeps.
Sound(ds, ss, d) == SoundDirs(ds) /\ SoundFiles(ds, DOMAIN d) /\ Attached(ss, ds, DOMAIN d)
OpenState == {s \in [dirs : Directories, streams : Streams, disk : Disks] : Sound(s.dirs, s.streams, s.disk)}

\* The directories that are made for a file can be, and if nothing is in its way they are there.
LEMMA DirectoriesMade ==
  ASSUME filenames \in [DLevels -> Filenames], NEW ds \in Directories, NEW d \in Disks,
         SoundDirs(ds), SoundFiles(ds, DOMAIN d), NEW r \in NamesInUse,
         NEW e, e = extractPathFromFilename(r),
         NEW made, made = IF Len(e) < Len(r) THEN createPath(ds, DOMAIN d, PathOf(e)) ELSE ds
  PROVE  /\ made \in Directories /\ ds \subseteq made /\ SoundDirs(made) /\ SoundFiles(made, DOMAIN d)
         /\ pathExists(made, Front(PathOf(r))) <=> Above(PathOf(r)) \cap Bars(DOMAIN d) = {}
<1>1. r \in Seq(NameParts) /\ Pieces(r).at = "piece"
  BY NamesLaw
<1>2. PICK S : S = Seq(NameParts)
  OBVIOUS
<1>3. PICK P \in Seq(S) : P = PathOf(r) /\ P # <<>>
        /\ (Len(e) < Len(r) => PathOf(e) = Front(P)) /\ (~(Len(e) < Len(r)) => Front(P) = <<>>)
  BY <1>1, <1>2, DirectoryLaw DEF Paths
<1>4. Front(P) \in Seq(S) /\ Paths = Seq(S)
  BY <1>2, <1>3, FrontLaw DEF Paths
<1>5. PICK files : files = DOMAIN d
  OBVIOUS
<1>6. Apart(ds, files)
  BY <1>5 DEF SoundFiles, Apart
<1>7. /\ SoundDirs(made) /\ Apart(made, files) /\ ds \subseteq made /\ made \subseteq ds \cup Paths
      /\ pathExists(made, Front(P)) <=> Free(files, Front(P), Len(Front(P)))
  <2>1. CASE Len(e) < Len(r)
    <3>1. made = createPath(ds, files, Front(P))
      BY <1>3, <1>5, <2>1
    <3> QED
      BY <1>4, <1>6, <3>1, CreatePathLaw
  <2>2. CASE ~(Len(e) < Len(r))
    <3>1. made = ds /\ Front(P) = <<>>
      BY <1>3, <2>2
    <3>2. pathExists(made, Front(P))
      BY <3>1 DEF pathExists
    <3>3. Free(files, Front(P), Len(Front(P)))
      BY <1>4, <1>6, <3>1, <3>2, ThereIsFree
    <3> QED
      BY <1>6, <3>1, <3>2, <3>3
  <2> QED
    BY <2>1, <2>2
<1>8. Above(P) \cap Bars(files) = {} <=> Free(files, Front(P), Len(Front(P)))
  BY <1>3, AboveLaw
<1>9. SoundFiles(made, files)
  BY <1>5, <1>7 DEF SoundFiles, Apart, pathExists
<1>10. made \in Directories
  BY <1>7 DEF Directories
<1> QED
  BY <1>3, <1>5, <1>7, <1>8, <1>9, <1>10

\* After the file of one level.
Inserted(t, ss, d, lv) ==
  /\ DOMAIN t.streams = DOMAIN ss \cup {fileName(lv)}
  /\ \A n \in DOMAIN t.streams : IF n \in DOMAIN ss THEN t.streams[n] = ss[n] ELSE t.streams[n] \in {nullFile, appending}
  /\ \E P : Added(t.disk, d, P)

\* insertFile makes what can be made, and opens the file of the level if nothing is in its way.
LEMMA InsertLaw ==
  ASSUME filenames \in [DLevels -> Filenames], NEW s \in OpenState, NEW lv \in DLevels, NEW t, t = insertFile(s, lv)
  PROVE  t \in OpenState /\ Inserted(t, s.streams, s.disk, lv)
<1>1. PICK ds \in Directories : ds = s.dirs
  BY DEF OpenState
<1>2. PICK ss \in Streams : ss = s.streams
  BY DEF OpenState
<1>3. PICK d \in Disks : d = s.disk
  BY DEF OpenState
<1>4. s = [dirs |-> ds, streams |-> ss, disk |-> d] /\ SoundDirs(ds) /\ SoundFiles(ds, DOMAIN d) /\ Attached(ss, ds, DOMAIN d)
  BY <1>1, <1>2, <1>3 DEF OpenState, Sound
<1>5. PICK r \in NamesInUse : r = fileName(lv)
  BY DEF NamesInUse
<1>6. PICK P \in Paths \ {<<>>} : P = PathOf(r)
  BY NamesLaw
<1>7. PICK e : e = extractPathFromFilename(r)
  OBVIOUS
<1>8. PICK made : made = IF Len(e) < Len(r) THEN createPath(ds, DOMAIN d, PathOf(e)) ELSE ds
  OBVIOUS
<1>9. /\ made \in Directories /\ ds \subseteq made /\ SoundDirs(made) /\ SoundFiles(made, DOMAIN d)
      /\ pathExists(made, Front(P)) <=> Above(P) \cap Bars(DOMAIN d) = {}
  BY <1>4, <1>6, <1>7, <1>8, DirectoriesMade
<1>10. PICK fs : fs = newFileStream(made, P)
  OBVIOUS
<1>11. fs \in {nullFile, appending} /\ (fs = nullFile <=> ~Clear(made, DOMAIN d, P))
  BY <1>9, <1>10 DEF newFileStream, Clear, nullFile, appending
<1>12. t = IF r \in DOMAIN ss THEN [s EXCEPT !.dirs = made]
           ELSE [dirs |-> made,
                 streams |-> [n \in DOMAIN ss \cup {r} |-> IF n = r THEN fs ELSE ss[n]],
                 disk |-> IF fs = nullFile THEN d ELSE WithFiles(d, {P})]
  BY <1>1, <1>2, <1>3, <1>5, <1>6, <1>7, <1>8, <1>10 DEF insertFile
<1>13. CASE r \in DOMAIN ss
  <2>1. t = [dirs |-> made, streams |-> ss, disk |-> d]
    BY <1>4, <1>12, <1>13
  <2>2. t.dirs = made /\ t.streams = ss /\ t.disk = d /\ t \in [dirs : Directories, streams : Streams, disk : Disks]
    BY <1>9, <2>1
  <2>3. Attached(ss, made, DOMAIN d)
    BY <1>4, <1>9, ClearBefore DEF Attached
  <2>4. t \in OpenState
    BY <1>9, <2>2, <2>3 DEF OpenState, Sound
  <2>5. Added(d, d, {})
    BY DEF Added
  <2> QED
    BY <1>2, <1>3, <1>5, <1>13, <2>2, <2>4, <2>5 DEF Inserted
<1>14. CASE r \notin DOMAIN ss
  <2>1. PICK ss2 : ss2 = [n \in DOMAIN ss \cup {r} |-> IF n = r THEN fs ELSE ss[n]]
    OBVIOUS
  <2>2. PICK d2 : d2 = IF fs = nullFile THEN d ELSE WithFiles(d, {P})
    OBVIOUS
  <2>3. t = [dirs |-> made, streams |-> ss2, disk |-> d2]
    BY <1>12, <1>14, <2>1, <2>2
  <2>4. PICK new : new = IF fs = nullFile THEN {} ELSE {P}
    OBVIOUS
  <2>5. Added(d2, d, new)
    <3>1. CASE fs = nullFile
      <4>1. d2 = d /\ new = {}
        BY <2>2, <2>4, <3>1
      <4> QED
        BY <4>1 DEF Added
    <3>2. CASE fs # nullFile
      <4>1. d2 = WithFiles(d, new) /\ new \in SUBSET (Paths \ {<<>>})
        BY <2>2, <2>4, <3>2
      <4> QED
        BY <4>1, FilesAdded
    <3> QED
      BY <3>1, <3>2
  <2>6. ss2 \in Streams /\ DOMAIN ss2 = DOMAIN ss \cup {r} /\ \A n \in DOMAIN ss2 : ss2[n] = IF n = r THEN fs ELSE ss[n]
    <3>1. DOMAIN ss \in SUBSET NamesInUse /\ \A n \in DOMAIN ss : ss[n] \in StreamPlaces
      BY StreamOf
    <3>2. fs \in StreamPlaces
      BY <1>11 DEF StreamPlaces
    <3>3. ss2 \in [DOMAIN ss \cup {r} -> StreamPlaces] /\ DOMAIN ss \cup {r} \in SUBSET NamesInUse
      BY <2>1, <3>1, <3>2
    <3> QED
      BY <2>1, <3>3 DEF Streams
  <2>7. t.dirs = made /\ t.streams = ss2 /\ t.disk = d2 /\ t \in [dirs : Directories, streams : Streams, disk : Disks]
    BY <1>9, <2>3, <2>5, <2>6 DEF Added
  <2>8. DOMAIN d2 = DOMAIN d \cup new
    BY <2>5 DEF Added
  <2>9. SoundFiles(made, DOMAIN d2)
    <3>1. fs # nullFile => pathExists(made, Front(P)) /\ P \notin Denied /\ ~pathExists(made, P)
      BY <1>9, <1>11 DEF Clear
    <3> QED
      BY <1>9, <2>4, <2>8, <3>1 DEF SoundFiles
  <2>10. ASSUME NEW n \in DOMAIN ss2
         PROVE  IF ss2[n] = nullFile THEN ~Clear(made, DOMAIN d2, PathOf(n)) ELSE PathOf(n) \in DOMAIN d2
    <3>1. CASE n = r
      <4>1. ss2[n] = fs /\ PathOf(n) = P
        BY <1>6, <2>6, <3>1
      <4>2. CASE fs = nullFile
        <5>1. DOMAIN d2 = DOMAIN d
          BY <2>4, <2>8, <4>2
        <5> QED
          BY <1>11, <4>1, <4>2, <5>1
      <4>3. CASE fs # nullFile
        BY <2>4, <2>8, <4>1, <4>3
      <4> QED
        BY <4>2, <4>3
    <3>2. CASE n # r
      <4>1. n \in DOMAIN ss /\ ss2[n] = ss[n] /\ DOMAIN d \subseteq DOMAIN d2
        BY <2>6, <2>8, <3>2
      <4>2. IF ss[n] = nullFile THEN ~Clear(ds, DOMAIN d, PathOf(n)) ELSE PathOf(n) \in DOMAIN d
        BY <1>4, <4>1 DEF Attached
      <4>3. Clear(made, DOMAIN d2, PathOf(n)) => Clear(ds, DOMAIN d, PathOf(n))
        BY <1>9, <4>1, ClearBefore
      <4> QED
        BY <4>1, <4>2, <4>3
    <3> QED
      BY <3>1, <3>2
  <2>11. t \in OpenState
    BY <1>9, <2>7, <2>9, <2>10 DEF OpenState, Sound, Attached
  <2>12. \A n \in DOMAIN ss2 : IF n \in DOMAIN ss THEN ss2[n] = ss[n] ELSE ss2[n] \in {nullFile, appending}
    BY <1>11, <1>14, <2>6
  <2> QED
    BY <1>2, <1>3, <1>5, <2>5, <2>6, <2>7, <2>11, <2>12 DEF Inserted
<1> QED
  BY <1>13, <1>14

\* What was on the disk still is, what is new is empty.
Grown(e, d) ==
  /\ e \in Disks /\ DOMAIN d \subseteq DOMAIN e
  /\ \A p \in DOMAIN e : e[p] = IF p \in DOMAIN d THEN d[p] ELSE <<>>

\* More files on a disk that has grown.
LEMMA GrownLaw ==
  ASSUME NEW d \in Disks, NEW e, Grown(e, d), NEW P, NEW g, Added(g, e, P)
  PROVE  Grown(g, d) /\ DOMAIN g = DOMAIN e \cup P
<1> PICK none : none = <<>>
  OBVIOUS
<1>1. e \in Disks /\ DOMAIN d \subseteq DOMAIN e /\ \A p \in DOMAIN e : e[p] = IF p \in DOMAIN d THEN d[p] ELSE none
  BY DEF Grown
<1>2. /\ g \in Disks /\ DOMAIN g = DOMAIN e \cup P
      /\ \A p \in DOMAIN g : g[p] = IF p \in DOMAIN e THEN e[p] ELSE none
  BY DEF Added
<1>3. \A p \in DOMAIN g : g[p] = IF p \in DOMAIN d THEN d[p] ELSE none
  BY <1>1, <1>2
<1> QED
  BY <1>1, <1>2, <1>3 DEF Grown

-----------------------------------------------------------------------------
\* The logger with the files of the levels that were configured, those in K.
Opened(s, K) ==
  /\ s \in OpenState /\ Grown(s.disk, disk)
  /\ \A l \in K : fileName(l) \in DOMAIN s.streams
  /\ \A n \in DOMAIN s.streams : s.streams[n] \in {nullFile, appending}

\* One level more.
LEMMA OpenedStep ==
  ASSUME filenames \in [DLevels -> Filenames], NEW s \in OpenState, NEW lv \in DLevels
  PROVE  /\ insertFile(s, lv) \in OpenState
         /\ \A K : disk \in Disks /\ Opened(s, K) => Opened(insertFile(s, lv), K \cup {lv})
<1>1. PICK t : t = insertFile(s, lv)
  OBVIOUS
<1>2. t \in OpenState /\ Inserted(t, s.streams, s.disk, lv)
  BY <1>1, InsertLaw
<1>3. ASSUME NEW K, disk \in Disks, Opened(s, K) PROVE Opened(t, K \cup {lv})
  <2>1. Grown(s.disk, disk)
    BY <1>3 DEF Opened
  <2>2. PICK P : Added(t.disk, s.disk, P)
    BY <1>2 DEF Inserted
  <2>3. Grown(t.disk, disk)
    <3>1. PICK e, g : e = s.disk /\ g = t.disk
      OBVIOUS
    <3>2. Grown(e, disk) /\ Added(g, e, P) /\ disk \in Disks
      BY <1>3, <2>1, <2>2, <3>1
    <3>3. Grown(g, disk)
      BY <3>2, GrownLaw
    <3> QED
      BY <3>1, <3>3
  <2>4. DOMAIN t.streams = DOMAIN s.streams \cup {fileName(lv)}
    BY <1>2 DEF Inserted
  <2>5. ASSUME NEW n \in DOMAIN t.streams PROVE t.streams[n] \in {nullFile, appending}
    BY <1>2, <1>3 DEF Inserted, Opened
  <2>6. \A l \in K \cup {lv} : fileName(l) \in DOMAIN t.streams
    BY <1>3, <2>4 DEF Opened
  <2> QED
    BY <1>2, <2>3, <2>5, <2>6 DEF Opened
<1> QED
  BY <1>1, <1>2, <1>3

\* Nothing open.
LEMMA NothingOpen ==
  ASSUME NEW ss, ss = <<>>
  PROVE  ss \in Streams /\ DOMAIN ss = {}
<1>1. ss \in [{} -> StreamPlaces] /\ DOMAIN ss = {}
  OBVIOUS
<1>2. {} \in SUBSET NamesInUse
  OBVIOUS
<1> QED
  BY <1>1, <1>2 DEF Streams

\* All levels.
LEMMA OpenedLaw ==
  ASSUME filenames \in [DLevels -> Filenames], disk \in Disks, dirs \in Directories, SoundDirs(dirs),
         SoundFiles(dirs, DOMAIN disk), streams = <<>>, NEW s,
         s = FoldLeft(insertFile, [dirs |-> dirs, streams |-> streams, disk |-> disk], LevelSeq)
  PROVE  Opened(s, DLevels)
<1>1. streams \in Streams /\ DOMAIN streams = {}
  BY NothingOpen
<1>2. PICK base : base = [dirs |-> dirs, streams |-> streams, disk |-> disk]
  OBVIOUS
<1>3. base.dirs = dirs /\ base.streams = streams /\ base.disk = disk
      /\ base \in [dirs : Directories, streams : Streams, disk : Disks]
  BY <1>1, <1>2
<1>4. base \in OpenState
  BY <1>1, <1>3 DEF OpenState, Sound, Attached
<1>5. Opened(base, {})
  <2>1. Grown(disk, disk)
    BY DEF Grown
  <2> QED
    BY <1>1, <1>3, <1>4, <2>1 DEF Opened
<1>6. LevelSeq \in Seq(DLevels)
  BY LevelSeqAssumption
<1> DEFINE iter == CHOOSE it : it = [b \in SUBSET DOMAIN LevelSeq |->
              IF b = {} THEN base ELSE insertFile(it[b \ {Max(b)}], LevelSeq[Max(b)])]
<1>7. s = iter[DOMAIN LevelSeq]
  BY <1>2 DEF FoldLeft, MapThenFoldSet
<1>8. \A x \in OpenState, l \in DLevels : insertFile(x, l) \in OpenState
  BY OpenedStep
<1>9. PICK F : F = [q \in OpenState \X DLevels |-> insertFile(q[1], q[2])]
  OBVIOUS
<1>10. F \in [OpenState \X DLevels -> OpenState]
  BY <1>8, <1>9
<1>11. PICK it : Folding(it, F, base, LevelSeq, DLevels, OpenState)
  BY <1>4, <1>6, <1>10, FoldDefined, Zenon
<1>12. it = [b \in SUBSET DOMAIN LevelSeq |->
              IF b = {} THEN base ELSE insertFile(it[b \ {Max(b)}], LevelSeq[Max(b)])]
  BY <1>9, <1>11 DEF Folding
<1>13. iter = [b \in SUBSET DOMAIN LevelSeq |->
              IF b = {} THEN base ELSE insertFile(iter[b \ {Max(b)}], LevelSeq[Max(b)])]
  BY <1>12
<1> HIDE DEF iter
<1>14. PICK f : Beginnings(f, iter, LevelSeq)
  BY <1>6, FoldSteps
<1>15. f[0] = base /\ f[Len(LevelSeq)] = s
  BY <1>7, <1>13, <1>14 DEF Beginnings
<1>16. ASSUME NEW k \in 1..Len(LevelSeq) PROVE f[k] = insertFile(f[k - 1], LevelSeq[k])
  <2>1. /\ f[k] = iter[1..k] /\ 1..k \in SUBSET DOMAIN LevelSeq /\ 1..k # {}
        /\ f[k - 1] = iter[(1..k) \ {Max(1..k)}] /\ Max(1..k) = k
    BY <1>14 DEF Beginnings
  <2> QED
    BY <1>13, <2>1, Zenon
<1>17. PICK N \in Nat : N = Len(LevelSeq) /\ DOMAIN LevelSeq = 1..N /\ \A k \in 1..N : LevelSeq[k] \in DLevels
  BY <1>6, LenProperties, ElementOfSeq
<1> DEFINE Done(k) == {LevelSeq[i] : i \in 1..k}
           T == {k \in Nat : Opened(f[k], Done(k))}
<1>18. 0 \in T
  <2>1. Done(0) = {}
    OBVIOUS
  <2> HIDE DEF Done
  <2> QED
    BY <1>5, <1>15, <2>1
<1>19. ASSUME NEW k \in 1..N, k - 1 \in T PROVE k \in T
  <2>1. Opened(f[k - 1], Done(k - 1)) /\ f[k - 1] \in OpenState
    BY <1>19 DEF Opened
  <2>2. Done(k) = Done(k - 1) \cup {LevelSeq[k]}
    <3>1. \A i : i \in 1..k <=> i \in 1..(k - 1) \/ i = k
      OBVIOUS
    <3> QED
      BY <3>1
  <2>3. LevelSeq[k] \in DLevels /\ f[k] = insertFile(f[k - 1], LevelSeq[k])
    BY <1>16, <1>17
  <2> HIDE DEF Done
  <2>4. Opened(f[k], Done(k))
    BY <2>1, <2>2, <2>3, OpenedStep
  <2> QED
    BY <2>4
<1>20. Opened(f[N], Done(N))
  <2> HIDE DEF T
  <2>1. \A k \in 0..N : k \in T
    BY <1>18, <1>19, InductionUpTo
  <2>2. N \in T
    BY <2>1
  <2> QED
    BY <2>2 DEF T
<1>21. Done(N) = DLevels
  BY <1>17 DEF DLevels, Range
<1> QED
  BY <1>15, <1>17, <1>20, <1>21

\* Adding the lines of a file up.
Adding(f, c) ==
  /\ f[0] = 0
  /\ \A k \in 1..Len(c) : f[k] = f[k - 1] + c[k]
  /\ \A k \in 0..Len(c) : f[k] \in Nat

\* getSizeOfFile adds up.
LEMMA AddingSteps ==
  ASSUME NEW c \in Seq(Nat)
  PROVE  \E f : Adding(f, c) /\ getSizeOfFile(c) = f[Len(c)]
<1> DEFINE iter == CHOOSE it : it = [s \in SUBSET DOMAIN c |->
              IF s = {} THEN 0 ELSE it[s \ {Max(s)}] + c[Max(s)]]
<1>1. getSizeOfFile(c) = iter[DOMAIN c]
  BY DEF getSizeOfFile, FoldLeft, MapThenFoldSet
<1>2. PICK F : F = [q \in Nat \X Nat |-> q[1] + q[2]]
  OBVIOUS
<1>3. F \in [Nat \X Nat -> Nat]
  BY <1>2
<1>4. PICK it : Folding(it, F, 0, c, Nat, Nat)
  BY <1>3, FoldDefined
<1>5. it = [s \in SUBSET DOMAIN c |-> IF s = {} THEN 0 ELSE it[s \ {Max(s)}] + c[Max(s)]]
  BY <1>2, <1>4 DEF Folding
<1>6. iter = [s \in SUBSET DOMAIN c |-> IF s = {} THEN 0 ELSE iter[s \ {Max(s)}] + c[Max(s)]]
  BY <1>5
<1> HIDE DEF iter
<1>7. PICK f : Beginnings(f, iter, c)
  BY FoldSteps
<1>8. f[0] = 0 /\ f[Len(c)] = iter[DOMAIN c]
  BY <1>6, <1>7 DEF Beginnings
<1>9. ASSUME NEW k \in 1..Len(c) PROVE f[k] = f[k - 1] + c[k]
  <2>1. /\ f[k] = iter[1..k] /\ 1..k \in SUBSET DOMAIN c /\ 1..k # {}
        /\ f[k - 1] = iter[(1..k) \ {Max(1..k)}] /\ Max(1..k) = k
    BY <1>7 DEF Beginnings
  <2> QED
    BY <1>6, <2>1, Zenon
<1>10. PICK N \in Nat : N = Len(c) /\ \A k \in 1..N : c[k] \in Nat
  BY LenProperties, ElementOfSeq
<1>11. \A k \in 0..N : f[k] \in Nat
  <2> DEFINE T == {k \in Nat : f[k] \in Nat}
  <2>1. 0 \in T
    BY <1>8
  <2>2. ASSUME NEW k \in 1..N, k - 1 \in T PROVE k \in T
    BY <1>9, <1>10, <2>2
  <2> HIDE DEF T
  <2>3. \A k \in 0..N : k \in T
    BY <2>1, <2>2, InductionUpTo
  <2> QED
    BY <2>3 DEF T
<1> QED
  BY <1>1, <1>8, <1>9, <1>10, <1>11 DEF Adding

\* The size of a file, and of one with a line more.
LEMMA SizeLaw ==
  ASSUME NEW c \in Seq(Nat)
  PROVE  /\ getSizeOfFile(c) \in Nat
         /\ \A n \in Nat : getSizeOfFile(Append(c, n)) = getSizeOfFile(c) + n
<1>1. PICK N \in Nat : N = Len(c)
  BY LenProperties
<1>2. PICK f : Adding(f, c) /\ getSizeOfFile(c) = f[N]
  BY <1>1, AddingSteps
<1>3. ASSUME NEW n \in Nat PROVE getSizeOfFile(Append(c, n)) = getSizeOfFile(c) + n
  <2>1. PICK d : d = Append(c, n)
    OBVIOUS
  <2>2. d \in Seq(Nat) /\ Len(d) = N + 1 /\ d[N + 1] = n /\ \A i \in 1..N : d[i] = c[i]
    BY <1>1, <2>1, AppendProperties
  <2>3. PICK g : Adding(g, d) /\ getSizeOfFile(d) = g[N + 1]
    BY <2>2, AddingSteps
  <2> DEFINE T == {k \in Nat : f[k] = g[k]}
  <2>4. 0 \in T
    BY <1>2, <2>3 DEF Adding
  <2>5. ASSUME NEW k \in 1..N, k - 1 \in T PROVE k \in T
    <3>1. k \in 1..Len(c) /\ k \in 1..Len(d)
      BY <1>1, <2>2
    <3>2. f[k] = f[k - 1] + c[k] /\ g[k] = g[k - 1] + d[k]
      BY <1>2, <2>3, <3>1 DEF Adding
    <3> QED
      BY <2>2, <2>5, <3>2
  <2> HIDE DEF T
  <2>6. f[N] = g[N]
    <3>1. \A k \in 0..N : k \in T
      BY <2>4, <2>5, InductionUpTo
    <3>2. N \in T
      BY <3>1
    <3> QED
      BY <3>2 DEF T
  <2>7. g[N + 1] = g[N] + n
    <3>1. N + 1 \in 1..Len(d) /\ (N + 1) - 1 = N
      BY <2>2
    <3> QED
      BY <2>2, <2>3, <3>1 DEF Adding
  <2> QED
    BY <1>2, <2>1, <2>3, <2>6, <2>7
<1> QED
  BY <1>1, <1>2, <1>3 DEF Adding

\* An empty file.
LEMMA EmptySize ==
  getSizeOfFile(<<>>) = 0
<1> PICK none : none = <<>>
  OBVIOUS
<1>1. none \in Seq(Nat) /\ Len(none) = 0
  OBVIOUS
<1>2. PICK f : Adding(f, none) /\ getSizeOfFile(none) = f[Len(none)]
  BY <1>1, AddingSteps
<1> QED
  BY <1>1, <1>2 DEF Adding

-----------------------------------------------------------------------------
\* The logger is configured: each level has its stream, and each stream a file.
RollState == {s \in [dirs : Directories, streams : Streams, disk : Disks] :
                /\ NamesInUse \subseteq DOMAIN s.streams
                /\ \A n \in DOMAIN s.streams : s.streams[n] # nullFile => PathOf(n) \in DOMAIN s.disk}

\* The stream of a file that goes by one name writes at its end.
InPlace(ss, d) ==
  \A n \in DOMAIN ss : ss[n] # nullFile /\ OneName(PathOf(n)) => ss[n] \in {appending, getSizeOfFile(d[PathOf(n)])}

\* Some files were emptied, and their streams opened anew.
Rolled(t, s) ==
  /\ t.dirs = s.dirs /\ DOMAIN t.streams = DOMAIN s.streams /\ DOMAIN t.disk = DOMAIN s.disk
  /\ \A p \in DOMAIN s.disk : t.disk[p] = s.disk[p] \/ t.disk[p] = <<>>
  /\ \A n \in DOMAIN s.streams : t.streams[n] = nullFile <=> s.streams[n] = nullFile
  /\ InPlace(s.streams, s.disk) => InPlace(t.streams, t.disk)

\* The file of a level is below its maximum.
Within(s, l) ==
  s.streams[fileName(l)] # nullFile /\ limits[l] # 0 => getSizeOfFile(s.disk[PathOf(fileName(l))]) < limits[l]

\* Two names of one file.
LEMMA TwoNames ==
  ASSUME NEW m \in NamesInUse, NEW n \in NamesInUse, m # n, PathOf(m) = PathOf(n)
  PROVE  ~OneName(PathOf(m))
<1>1. PICK k \in DLevels : m = fileName(k)
  BY DEF NamesInUse
<1>2. PICK l \in DLevels : n = fileName(l)
  BY DEF NamesInUse
<1> QED
  BY <1>1, <1>2 DEF OneName, Writers

\* unsafeValidateFileRolling empties a file that has reached the limit.
LEMMA RollingLaw ==
  ASSUME filenames \in [DLevels -> Filenames], limits \in [DLevels -> Nat], NEW s \in RollState, NEW lv \in DLevels,
         NEW t, t = unsafeValidateFileRolling(s, lv)
  PROVE  t \in RollState /\ Rolled(t, s) /\ Within(t, lv)
<1>1. PICK ds \in Directories : ds = s.dirs
  BY DEF RollState
<1>2. PICK ss \in Streams : ss = s.streams
  BY DEF RollState
<1>3. PICK d \in Disks : d = s.disk
  BY DEF RollState
<1>4. PICK n \in NamesInUse : n = fileName(lv)
  BY DEF NamesInUse
<1>5. PICK P \in Paths \ {<<>>} : P = PathOf(n)
  BY NamesLaw
<1>6. /\ NamesInUse \subseteq DOMAIN ss /\ DOMAIN ss \subseteq NamesInUse /\ n \in DOMAIN ss
      /\ \A m \in DOMAIN ss : ss[m] # nullFile => PathOf(m) \in DOMAIN d
  BY <1>2, <1>3, StreamOf DEF RollState
<1>7. PICK full : full = (ss[n] # nullFile /\ limits[lv] # 0 /\ getSizeOfFile(d[P]) >= limits[lv])
  OBVIOUS
<1>8. t = IF full THEN [dirs |-> ds, disk |-> [d EXCEPT ![P] = <<>>], streams |-> [ss EXCEPT ![n] = 0]] ELSE s
  BY <1>1, <1>2, <1>3, <1>4, <1>5, <1>7, Zenon DEF unsafeValidateFileRolling
<1>9. CASE ~full
  <2>1. t = s
    BY <1>8, <1>9, Zenon
  <2>2. ASSUME ss[n] # nullFile, limits[lv] # 0 PROVE getSizeOfFile(d[P]) < limits[lv]
    <3>1. ~(getSizeOfFile(d[P]) >= limits[lv])
      BY <1>7, <1>9, <2>2, Zenon
    <3>2. P \in DOMAIN d
      BY <1>5, <1>6, <2>2
    <3>3. d[P] \in Seq(Nat)
      BY <3>2, FileOfDisk
    <3>4. getSizeOfFile(d[P]) \in Nat /\ limits[lv] \in Nat
      BY <3>3, SizeLaw
    <3> QED
      BY <3>1, <3>4
  <2> QED
    BY <1>2, <1>3, <1>4, <1>5, <2>1, <2>2 DEF Rolled, Within
<1>10. CASE full
  <2>1. ss[n] # nullFile /\ limits[lv] # 0 /\ P \in DOMAIN d
    <3>1. ss[n] # nullFile /\ limits[lv] # 0
      BY <1>7, <1>10, Zenon
    <3> QED
      BY <1>5, <1>6, <3>1
  <2>2. PICK ss2 : ss2 = [ss EXCEPT ![n] = 0]
    OBVIOUS
  <2>3. PICK d2 : d2 = [d EXCEPT ![P] = <<>>]
    OBVIOUS
  <2>4. t = [dirs |-> ds, streams |-> ss2, disk |-> d2]
    <3>1. t = [dirs |-> ds, disk |-> [d EXCEPT ![P] = <<>>], streams |-> [ss EXCEPT ![n] = 0]]
      BY <1>8, <1>10, Zenon
    <3> QED
      BY <2>2, <2>3, <3>1
  <2>5. ss2 \in Streams /\ DOMAIN ss2 = DOMAIN ss /\ ss2[n] = 0 /\ \A m \in DOMAIN ss : m # n => ss2[m] = ss[m]
    <3>1. 0 \in StreamPlaces
      BY DEF StreamPlaces
    <3>2. ss2 \in Streams
      BY <1>6, <2>2, <3>1, StreamOf
    <3> QED
      BY <1>6, <2>2, <3>2
  <2>6. d2 \in Disks /\ DOMAIN d2 = DOMAIN d /\ d2[P] = <<>> /\ \A p \in DOMAIN d : p # P => d2[p] = d[p]
    <3> PICK none : none = <<>>
      OBVIOUS
    <3>1. none \in Seq(Nat)
      OBVIOUS
    <3>2. d2 \in Disks
      BY <2>1, <2>3, <3>1, FileReplaced
    <3> QED
      BY <2>1, <2>3, <3>2
  <2>7. t.dirs = ds /\ t.streams = ss2 /\ t.disk = d2 /\ t \in [dirs : Directories, streams : Streams, disk : Disks]
    BY <2>4, <2>5, <2>6
  <2>8. 0 # nullFile /\ \A m \in DOMAIN ss : ss2[m] = nullFile <=> ss[m] = nullFile
    BY <2>1, <2>5 DEF nullFile
  <2>9. t \in RollState
    BY <1>6, <2>5, <2>6, <2>7, <2>8 DEF RollState
  <2>10. getSizeOfFile(d2[P]) = 0
    BY <2>6, EmptySize
  <2>11. ASSUME InPlace(ss, d) PROVE InPlace(ss2, d2)
    <3> SUFFICES ASSUME NEW m \in DOMAIN ss, ss2[m] # nullFile, OneName(PathOf(m))
                 PROVE  ss2[m] \in {appending, getSizeOfFile(d2[PathOf(m)])}
      BY <2>5 DEF InPlace
    <3>1. CASE m = n
      BY <1>5, <2>5, <2>10, <3>1
    <3>2. CASE m # n
      <4>1. PathOf(m) # P
        BY <1>5, <1>6, <3>2, TwoNames
      <4>2. ss[m] # nullFile
        BY <2>8
      <4>3. PathOf(m) \in DOMAIN d
        BY <1>6, <4>2
      <4>4. ss2[m] = ss[m] /\ d2[PathOf(m)] = d[PathOf(m)]
        BY <2>5, <2>6, <3>2, <4>1, <4>3
      <4>5. ss[m] \in {appending, getSizeOfFile(d[PathOf(m)])}
        BY <2>11, <4>2 DEF InPlace
      <4> QED
        BY <4>4, <4>5
    <3> QED
      BY <3>1, <3>2
  <2>12. \A p \in DOMAIN d : d2[p] = d[p] \/ d2[p] = <<>>
    BY <2>6
  <2>13. Rolled(t, s)
    BY <1>1, <1>2, <1>3, <2>5, <2>6, <2>7, <2>8, <2>11, <2>12 DEF Rolled
  <2>14. limits[lv] \in Nat /\ (limits[lv] # 0 => 0 < limits[lv])
    OBVIOUS
  <2>15. Within(t, lv)
    BY <1>4, <1>5, <2>7, <2>10, <2>14 DEF Within
  <2> QED
    BY <2>9, <2>13, <2>15
<1>11. full \/ ~full
  OBVIOUS
<1> QED
  BY <1>9, <1>10, <1>11, Zenon

\* Rolling again.
LEMMA RolledTwice ==
  ASSUME NEW s, NEW t, NEW u, Rolled(t, s), Rolled(u, t)
  PROVE  Rolled(u, s)
  BY DEF Rolled

\* A file that is below the maximum of a level stays so.
LEMMA WithinStill ==
  ASSUME limits \in [DLevels -> Nat], NEW s \in RollState, NEW t \in RollState, Rolled(t, s),
         NEW l \in DLevels, Within(s, l)
  PROVE  Within(t, l)
<1>1. PICK n \in NamesInUse : n = fileName(l)
  BY DEF NamesInUse
<1>2. PICK P : P = PathOf(n)
  OBVIOUS
<1> SUFFICES ASSUME t.streams[n] # nullFile, limits[l] # 0 PROVE getSizeOfFile(t.disk[P]) < limits[l]
  BY <1>1, <1>2 DEF Within
<1>3. n \in DOMAIN s.streams
  BY DEF RollState
<1>4. s.streams[n] # nullFile
  BY <1>3 DEF Rolled
<1>5. P \in DOMAIN s.disk /\ getSizeOfFile(s.disk[P]) < limits[l]
  BY <1>1, <1>2, <1>3, <1>4 DEF RollState, Within
<1>6. t.disk[P] = s.disk[P] \/ t.disk[P] = <<>>
  BY <1>5 DEF Rolled
<1>7. limits[l] \in Nat /\ 0 < limits[l]
  OBVIOUS
<1> QED
  BY <1>5, <1>6, <1>7, EmptySize

\* All files when the logger has been configured.
LEMMA RolledLaw ==
  ASSUME filenames \in [DLevels -> Filenames], limits \in [DLevels -> Nat], NEW s \in RollState,
         NEW t, t = FoldLeft(unsafeValidateFileRolling, s, LevelSeq)
  PROVE  t \in RollState /\ Rolled(t, s) /\ \A l \in DLevels : Within(t, l)
<1>1. LevelSeq \in Seq(DLevels)
  BY LevelSeqAssumption
<1> DEFINE iter == CHOOSE it : it = [b \in SUBSET DOMAIN LevelSeq |->
              IF b = {} THEN s ELSE unsafeValidateFileRolling(it[b \ {Max(b)}], LevelSeq[Max(b)])]
<1>2. t = iter[DOMAIN LevelSeq]
  BY DEF FoldLeft, MapThenFoldSet
<1>3. \A x \in RollState, l \in DLevels : unsafeValidateFileRolling(x, l) \in RollState
  BY RollingLaw
<1>4. PICK F : F = [q \in RollState \X DLevels |-> unsafeValidateFileRolling(q[1], q[2])]
  OBVIOUS
<1>5. F \in [RollState \X DLevels -> RollState]
  BY <1>3, <1>4
<1>6. PICK it : Folding(it, F, s, LevelSeq, DLevels, RollState)
  BY <1>1, <1>5, FoldDefined, Zenon
<1>7. it = [b \in SUBSET DOMAIN LevelSeq |->
              IF b = {} THEN s ELSE unsafeValidateFileRolling(it[b \ {Max(b)}], LevelSeq[Max(b)])]
  BY <1>4, <1>6 DEF Folding
<1>8. iter = [b \in SUBSET DOMAIN LevelSeq |->
              IF b = {} THEN s ELSE unsafeValidateFileRolling(iter[b \ {Max(b)}], LevelSeq[Max(b)])]
  BY <1>7
<1> HIDE DEF iter
<1>9. PICK f : Beginnings(f, iter, LevelSeq)
  BY <1>1, FoldSteps
<1>10. f[0] = s /\ f[Len(LevelSeq)] = t
  BY <1>2, <1>8, <1>9 DEF Beginnings
<1>11. ASSUME NEW k \in 1..Len(LevelSeq) PROVE f[k] = unsafeValidateFileRolling(f[k - 1], LevelSeq[k])
  <2>1. /\ f[k] = iter[1..k] /\ 1..k \in SUBSET DOMAIN LevelSeq /\ 1..k # {}
        /\ f[k - 1] = iter[(1..k) \ {Max(1..k)}] /\ Max(1..k) = k
    BY <1>9 DEF Beginnings
  <2> QED
    BY <1>8, <2>1, Zenon
<1>12. PICK N \in Nat : N = Len(LevelSeq) /\ DOMAIN LevelSeq = 1..N /\ \A k \in 1..N : LevelSeq[k] \in DLevels
  BY <1>1, LenProperties, ElementOfSeq
<1> DEFINE Good(k) == f[k] \in RollState /\ Rolled(f[k], s) /\ \A i \in 1..k : Within(f[k], LevelSeq[i])
           T == {k \in Nat : Good(k)}
<1>13. 0 \in T
  <2>1. Rolled(s, s)
    BY DEF Rolled
  <2> QED
    BY <1>10, <2>1
<1>14. ASSUME NEW k \in 1..N, k - 1 \in T PROVE k \in T
  <2>1. f[k - 1] \in RollState /\ Rolled(f[k - 1], s) /\ \A i \in 1..(k - 1) : Within(f[k - 1], LevelSeq[i])
    BY <1>14
  <2>2. LevelSeq[k] \in DLevels /\ f[k] = unsafeValidateFileRolling(f[k - 1], LevelSeq[k])
    BY <1>11, <1>12
  <2>3. f[k] \in RollState /\ Rolled(f[k], f[k - 1]) /\ Within(f[k], LevelSeq[k])
    BY <2>1, <2>2, RollingLaw
  <2>4. Rolled(f[k], s)
    BY <2>1, <2>3, RolledTwice
  <2>5. ASSUME NEW i \in 1..k PROVE Within(f[k], LevelSeq[i])
    <3>1. CASE i = k
      BY <2>3, <3>1
    <3>2. CASE i # k
      <4>1. i \in 1..(k - 1) /\ i \in 1..N
        BY <3>2
      <4> QED
        BY <1>12, <2>1, <2>3, <4>1, WithinStill
    <3> QED
      BY <3>1, <3>2
  <2> QED
    BY <2>3, <2>4, <2>5
<1>15. N \in T
  <2> HIDE DEF T
  <2>1. \A k \in 0..N : k \in T
    BY <1>13, <1>14, InductionUpTo
  <2> QED
    BY <2>1
<1>16. Good(N)
  BY <1>15
<1>17. \A l \in DLevels : \E i \in 1..N : l = LevelSeq[i]
  BY <1>12 DEF DLevels, Range
<1> QED
  BY <1>10, <1>12, <1>16, <1>17

-----------------------------------------------------------------------------
\* The size of a file.
Bounded(d, path) ==
  Writers(path) # {} /\ (\A l \in Writers(path) : limits[l] # 0) =>
    getSizeOfFile(d[path]) < Max({limits[l] : l \in Writers(path)}) + Max(LineSizes)

\* There are finitely many levels.
LEMMA LevelsFinite == IsFiniteSet(DLevels)
<1>1. LevelSeq \in Seq(DLevels)
  BY LevelSeqAssumption
<1>2. PICK N \in Nat : N = Len(LevelSeq) /\ DOMAIN LevelSeq = 1..N /\ \A k \in 1..N : LevelSeq[k] \in DLevels
  BY <1>1, LenProperties, ElementOfSeq
<1>3. LevelSeq \in [1..N -> DLevels]
  BY <1>1, <1>2
<1>4. LevelSeq \in Surjection(1..N, DLevels)
  BY <1>2, <1>3 DEF Surjection, DLevels, Range
<1>5. IsFiniteSet(1..N)
  BY FS_Interval
<1> QED
  BY <1>4, <1>5, FS_Surjection

\* The largest limit of some levels.
LEMMA LargestLimit ==
  ASSUME limits \in [DLevels -> Nat], NEW W \in SUBSET DLevels, W # {}
  PROVE  /\ Max({limits[l] : l \in W}) \in Nat
         /\ \A l \in W : limits[l] <= Max({limits[l2] : l2 \in W})
<1>1. IsFiniteSet(W)
  BY LevelsFinite, FS_Subset
<1>2. PICK L : L = {limits[l] : l \in W}
  OBVIOUS
<1>3. PICK f : f = [l \in W |-> limits[l]]
  OBVIOUS
<1>4. f \in Surjection(W, L)
  BY <1>2, <1>3 DEF Surjection
<1>5. IsFiniteSet(L) /\ L \subseteq Nat /\ L # {}
  BY <1>1, <1>2, <1>4, FS_Surjection
<1>6. Max(L) \in L /\ \A x \in L : Max(L) >= x
  BY <1>5, LargestOfFinite
<1> QED
  BY <1>2, <1>5, <1>6

\* The longest line.
LEMMA LargestLine ==
  Max(LineSizes) \in Nat /\ \A n \in LineSizes : n \in Nat /\ n <= Max(LineSizes)
<1>1. LineSizes \subseteq Nat /\ IsFiniteSet(LineSizes) /\ LineSizes # {}
  BY SizesAssumption
<1>2. Max(LineSizes) \in LineSizes /\ \A x \in LineSizes : Max(LineSizes) >= x
  BY <1>1, LargestOfFinite
<1> QED
  BY <1>1, <1>2

\* A level writes to a file that is below its maximum, or was until its last line.
LEMMA BoundedLaw ==
  ASSUME limits \in [DLevels -> Nat], NEW path, NEW l \in Writers(path), NEW c \in Seq(Nat),
         limits[l] # 0 => getSizeOfFile(c) < limits[l], NEW e, NEW size \in LineSizes,
         e[path] \in {c, Append(c, size)}
  PROVE  Bounded(e, path)
<1>1. PICK W \in SUBSET DLevels : W = Writers(path)
  BY DEF Writers
<1> SUFFICES ASSUME \A k \in W : limits[k] # 0
             PROVE  getSizeOfFile(e[path]) < Max({limits[k] : k \in W}) + Max(LineSizes)
  BY <1>1 DEF Bounded
<1>2. PICK m : m = Max({limits[k] : k \in W})
  OBVIOUS
<1>3. m \in Nat /\ limits[l] <= m /\ limits[l] \in Nat
  BY <1>1, <1>2, LargestLimit
<1>4. PICK n : n = Max(LineSizes) /\ n \in Nat /\ size \in Nat /\ size <= n
  BY LargestLine
<1>5. PICK x : x = getSizeOfFile(c) /\ x \in Nat /\ x < limits[l]
  BY <1>1, SizeLaw
<1>6. getSizeOfFile(e[path]) \in {x, x + size}
  BY <1>4, <1>5, SizeLaw
<1>7. getSizeOfFile(e[path]) < m + n
  BY <1>3, <1>4, <1>5, <1>6
<1> QED
  BY <1>2, <1>4, <1>7

\* A file that is emptied is bounded.
LEMMA BoundedStill ==
  ASSUME limits \in [DLevels -> Nat], NEW d, NEW e, NEW path, Bounded(d, path), e[path] \in {d[path], <<>>}
  PROVE  Bounded(e, path)
<1>1. PICK W \in SUBSET DLevels : W = Writers(path)
  BY DEF Writers
<1> SUFFICES ASSUME W # {}, \A k \in W : limits[k] # 0
             PROVE  getSizeOfFile(e[path]) < Max({limits[k] : k \in W}) + Max(LineSizes)
  BY <1>1 DEF Bounded
<1>2. PICK m : m = Max({limits[k] : k \in W})
  OBVIOUS
<1>3. PICK l \in W : limits[l] # 0
  OBVIOUS
<1>4. m \in Nat /\ limits[l] <= m /\ limits[l] \in Nat
  BY <1>2, LargestLimit
<1>5. PICK n : n = Max(LineSizes) /\ n \in Nat
  BY LargestLine
<1>6. getSizeOfFile(d[path]) < m + n
  BY <1>1, <1>2, <1>5 DEF Bounded
<1>7. PICK none : none = <<>> /\ getSizeOfFile(none) = 0
  BY EmptySize
<1>8. 0 < m + n
  BY <1>3, <1>4, <1>5
<1>9. e[path] = d[path] \/ e[path] = none
  BY <1>7
<1>10. getSizeOfFile(e[path]) < m + n
  BY <1>6, <1>7, <1>8, <1>9
<1> QED
  BY <1>2, <1>5, <1>10

-----------------------------------------------------------------------------
\* A line is added to a file that goes by one name; of others nothing is said.
LEMMA WriteLaw ==
  ASSUME filenames \in [DLevels -> Filenames], NEW s \in RollState, InPlace(s.streams, s.disk),
         NEW lv \in DLevels, NEW n \in NamesInUse, n = fileName(lv), s.streams[n] # nullFile,
         NEW P, P = PathOf(n), NEW size \in LineSizes, NEW t, t = WriteLine(s, lv, size)
  PROVE  /\ t \in RollState /\ t.dirs = s.dirs /\ DOMAIN t.streams = DOMAIN s.streams
         /\ P \in DOMAIN s.disk /\ DOMAIN t.disk = DOMAIN s.disk
         /\ \A m \in DOMAIN s.streams : t.streams[m] = nullFile <=> s.streams[m] = nullFile
         /\ \A p \in DOMAIN s.disk : p # P => t.disk[p] = s.disk[p]
         /\ OneName(P) => t.disk[P] = Append(s.disk[P], size)
         /\ InPlace(t.streams, t.disk)
<1>1. PICK ds \in Directories : ds = s.dirs
  BY DEF RollState
<1>2. PICK ss \in Streams : ss = s.streams
  BY DEF RollState
<1>3. PICK d \in Disks : d = s.disk
  BY DEF RollState
<1>4. /\ NamesInUse \subseteq DOMAIN ss /\ DOMAIN ss \subseteq NamesInUse /\ n \in DOMAIN ss
      /\ \A m \in DOMAIN ss : ss[m] # nullFile => PathOf(m) \in DOMAIN d
  BY <1>2, <1>3, StreamOf DEF RollState
<1>5. P \in DOMAIN d
  BY <1>2, <1>4
<1>6. PICK c \in Seq(Nat) : c = d[P]
  BY <1>5, FileOfDisk
<1>7. PICK end \in Nat : end = getSizeOfFile(c)
  BY SizeLaw
<1>8. PICK k \in Nat : k = size
  BY LargestLine
<1>9. PICK at \in StreamPlaces : at = ss[n] /\ at # nullFile
  BY <1>2, <1>4, StreamOf
<1>10. at = appending \/ at \in Nat
  BY <1>9 DEF StreamPlaces
<1>11. PICK a : a = IF at = appending THEN at ELSE at + k
  OBVIOUS
<1>12. PICK c2 : c2 = IF at \in {appending, end} THEN Append(c, k) ELSE <<IF at + k > end THEN at + k ELSE end>>
  OBVIOUS
<1>13. PICK ss2 : ss2 = [ss EXCEPT ![n] = a]
  OBVIOUS
<1>14. PICK d2 : d2 = [d EXCEPT ![P] = c2]
  OBVIOUS
<1>15. t = [dirs |-> ds, disk |-> d2, streams |-> ss2]
  <2>1. getSizeOfFile(d[P]) = end /\ d[P] = c /\ ss[n] = at /\ size = k
    BY <1>6, <1>7, <1>8, <1>9
  <2>2. t = [dirs |-> ds,
             disk |-> [d EXCEPT ![P] = IF at \in {appending, end} THEN Append(@, k)
                                       ELSE <<IF at + k > end THEN at + k ELSE end>>],
             streams |-> [ss EXCEPT ![n] = IF at = appending THEN at ELSE at + k]]
    BY <1>1, <1>2, <1>3, <2>1 DEF WriteLine
  <2>3. d2 = [d EXCEPT ![P] = IF at \in {appending, end} THEN Append(@, k)
                              ELSE <<IF at + k > end THEN at + k ELSE end>>]
    BY <1>12, <1>14, <2>1
  <2> QED
    BY <1>11, <1>13, <2>2, <2>3
<1>16. a \in StreamPlaces /\ a # nullFile /\ (at = appending => a = appending) /\ (at # appending => a = at + k)
  <2>1. CASE at = appending
    BY <1>9, <1>11, <2>1
  <2>2. CASE at # appending
    <3>1. a \in Nat /\ a = at + k
      BY <1>10, <1>11, <2>2
    <3> QED
      BY <2>2, <3>1 DEF StreamPlaces, nullFile
  <2> QED
    BY <2>1, <2>2
<1>17. c2 \in Seq(Nat)
  <2>1. CASE at \in {appending, end}
    <3>1. c2 = Append(c, k)
      BY <1>12, <2>1
    <3> QED
      BY <3>1, AppendProperties
  <2>2. CASE at \notin {appending, end}
    <3>1. PICK x \in Nat : x = IF at + k > end THEN at + k ELSE end
      BY <1>10, <2>2
    <3>2. c2 = <<x>>
      BY <1>12, <2>2, <3>1
    <3> QED
      BY <3>2
  <2> QED
    BY <2>1, <2>2
<1>18. ss2 \in Streams /\ DOMAIN ss2 = DOMAIN ss /\ ss2[n] = a /\ \A m \in DOMAIN ss : m # n => ss2[m] = ss[m]
  <2>1. ss2 \in Streams
    BY <1>4, <1>13, <1>16, StreamOf
  <2> QED
    BY <1>4, <1>13, <2>1
<1>19. d2 \in Disks /\ DOMAIN d2 = DOMAIN d /\ d2[P] = c2 /\ \A p \in DOMAIN d : p # P => d2[p] = d[p]
  <2>1. d2 \in Disks
    BY <1>5, <1>14, <1>17, FileReplaced
  <2> QED
    BY <1>5, <1>14, <2>1
<1>20. t.dirs = ds /\ t.streams = ss2 /\ t.disk = d2 /\ t \in [dirs : Directories, streams : Streams, disk : Disks]
  BY <1>15, <1>18, <1>19
<1>21. \A m \in DOMAIN ss : ss2[m] = nullFile <=> ss[m] = nullFile
  BY <1>9, <1>16, <1>18
<1>22. t \in RollState
  BY <1>4, <1>18, <1>19, <1>20, <1>21 DEF RollState
<1>23. OneName(P) => at \in {appending, end}
  BY <1>2, <1>3, <1>4, <1>6, <1>7, <1>9 DEF InPlace
<1>24. OneName(P) => d2[P] = Append(d[P], size)
  BY <1>6, <1>8, <1>12, <1>19, <1>23
<1>25. ASSUME NEW m \in DOMAIN ss, ss2[m] # nullFile, OneName(PathOf(m))
       PROVE  ss2[m] \in {appending, getSizeOfFile(d2[PathOf(m)])}
  <2>1. CASE m = n
    <3>1. at \in {appending, end} /\ d2[P] = Append(c, k)
      BY <1>12, <1>19, <1>23, <1>25, <2>1
    <3>2. getSizeOfFile(d2[P]) = end + k
      BY <1>7, <3>1, SizeLaw
    <3> QED
      BY <1>16, <1>18, <2>1, <3>1, <3>2
  <2>2. CASE m # n
    <3>1. PathOf(m) # P
      BY <1>4, <1>25, <2>2, TwoNames
    <3>2. ss[m] # nullFile /\ PathOf(m) \in DOMAIN d
      BY <1>4, <1>21, <1>25
    <3>3. ss2[m] = ss[m] /\ d2[PathOf(m)] = d[PathOf(m)]
      BY <1>18, <1>19, <2>2, <3>1, <3>2
    <3>4. ss[m] \in {appending, getSizeOfFile(d[PathOf(m)])}
      BY <1>2, <1>3, <1>25, <3>2 DEF InPlace
    <3> QED
      BY <3>3, <3>4
  <2> QED
    BY <2>1, <2>2
<1>26. InPlace(ss2, d2)
  BY <1>18, <1>25 DEF InPlace
<1> QED
  BY <1>1, <1>2, <1>3, <1>5, <1>18, <1>19, <1>20, <1>21, <1>22, <1>24, <1>26

-----------------------------------------------------------------------------
\* What is on the disk, what is open and what was written agree.
FilesKept(ds, ss, d, h) ==
  /\ ds \in Directories /\ ss \in Streams /\ d \in Disks /\ h \in Disks
  /\ Sound(ds, ss, d) /\ InPlace(ss, d)
  /\ DOMAIN h = DOMAIN d
  /\ \A path \in DOMAIN d : OneName(path) => IsSuffix(d[path], h[path])

FilesFit(d) == \A path \in DOMAIN d : OneName(path) => Bounded(d, path)

\* The inductive invariant.
FilesInv ==
  /\ filenames \in [DLevels -> Filenames] /\ limits \in [DLevels -> Nat] /\ running \in BOOLEAN /\ strict \in BOOLEAN
  /\ FilesKept(dirs, streams, disk, lines)
  /\ running => NamesInUse \subseteq DOMAIN streams
  /\ ~running => streams = <<>>
  /\ running /\ strict => FilesFit(disk)

\* A step that leaves the configuration.
LEMMA FilesLater ==
  ASSUME filenames' = filenames, limits' = limits, limits \in [DLevels -> Nat]
  PROVE  /\ NamesInUse' = NamesInUse
         /\ FilesKept(dirs', streams', disk', lines') => FilesKept(dirs, streams, disk, lines)'
         /\ FilesFit(disk') => FilesFit(disk)'
<1>1. \A l : fileName(l)' = fileName(l)
  BY DEF fileName
<1>2. NamesInUse' = NamesInUse
  BY <1>1 DEF NamesInUse
<1>3. Streams' = Streams
  BY <1>2 DEF Streams
<1>4. \A path : Writers(path)' = Writers(path)
  BY <1>1 DEF Writers
<1>5. \A path : OneName(path)' <=> OneName(path)
  BY <1>1, <1>4 DEF OneName
<1>6. FilesKept(dirs', streams', disk', lines') => FilesKept(dirs, streams, disk, lines)'
  <2> SUFFICES ASSUME FilesKept(dirs', streams', disk', lines') PROVE FilesKept(dirs, streams, disk, lines)'
    OBVIOUS
  <2>1. /\ dirs' \in Directories /\ streams' \in Streams /\ disk' \in Disks /\ lines' \in Disks
        /\ Sound(dirs', streams', disk') /\ InPlace(streams', disk') /\ DOMAIN lines' = DOMAIN disk'
        /\ \A path \in DOMAIN disk' : OneName(path) => IsSuffix(disk'[path], lines'[path])
    BY DEF FilesKept
  <2>2. (dirs \in Directories)' /\ (streams \in Streams)' /\ (disk \in Disks)' /\ (lines \in Disks)' /\ (DOMAIN lines = DOMAIN disk)'
    BY <1>3, <2>1
  <2>3. Sound(dirs, streams, disk)'
    BY <2>1 DEF Sound, SoundDirs, SoundFiles, Attached, Clear, Bars
  <2>4. InPlace(streams, disk)'
    BY <1>5, <2>1 DEF InPlace
  <2>5. (\A path \in DOMAIN disk : OneName(path) => IsSuffix(disk[path], lines[path]))'
    BY <1>5, <2>1
  <2> QED
    BY <2>2, <2>3, <2>4, <2>5 DEF FilesKept
<1>7. FilesFit(disk') => FilesFit(disk)'
  <2> SUFFICES ASSUME FilesFit(disk'), NEW path \in DOMAIN disk', OneName(path)' PROVE Bounded(disk, path)'
    BY DEF FilesFit
  <2>1. Bounded(disk', path)
    BY <1>5 DEF FilesFit
  <2>2. PICK W \in SUBSET DLevels : W = Writers(path)
    BY DEF Writers
  <2>3. W = Writers(path)'
    BY <1>4, <2>2
  <2>4. PICK m : m = Max({limits[l] : l \in W})
    OBVIOUS
  <2>5. m = Max({limits'[l] : l \in W})
    BY <2>4
  <2>6. W # {} /\ (\A l \in W : limits[l] # 0) => getSizeOfFile(disk'[path]) < m + Max(LineSizes)
    BY <2>1, <2>2, <2>4 DEF Bounded
  <2>7. W # {} /\ (\A l \in W : limits'[l] # 0) => getSizeOfFile(disk'[path]) < m + Max(LineSizes)
    BY <2>6
  <2> QED
    BY <2>3, <2>5, <2>7 DEF Bounded
<1> QED
  BY <1>2, <1>6, <1>7

\* The inductive invariant holds at first.
LEMMA FilesAtFirst == DInit => FilesInv
<1> SUFFICES ASSUME DInit PROVE FilesInv
  OBVIOUS
<1> PICK none : none = <<>>
  OBVIOUS
<1>1. limits \in [DLevels -> Nat] /\ filenames \in [DLevels -> Filenames] /\ running = FALSE /\ strict \in BOOLEAN
  BY SizesAssumption DEF DInit
<1>2. dirs \in Directories /\ SoundDirs(dirs)
  <2>1. dirs = Present
    BY DEF DInit
  <2> QED
    BY <2>1, DirectoriesAssumption DEF Directories, SoundDirs
<1>3. disk = none /\ lines = none /\ streams = <<>>
  BY DEF DInit
<1>4. none \in Disks /\ DOMAIN none = {}
  <2>1. none \in [{} -> Seq(Nat)] /\ DOMAIN none = {}
    OBVIOUS
  <2>2. {} \in SUBSET (Paths \ {<<>>})
    OBVIOUS
  <2> QED
    BY <2>1, <2>2 DEF Disks
<1>5. DOMAIN disk = {} /\ disk \in Disks /\ lines \in Disks /\ DOMAIN lines = DOMAIN disk
  BY <1>3, <1>4
<1>6. streams \in Streams /\ DOMAIN streams = {}
  BY <1>3, NothingOpen
<1>7. Sound(dirs, streams, disk) /\ InPlace(streams, disk)
  BY <1>2, <1>5, <1>6 DEF Sound, SoundFiles, Attached, InPlace
<1>8. \A path \in DOMAIN disk : OneName(path) => IsSuffix(disk[path], lines[path])
  BY <1>5
<1>9. FilesKept(dirs, streams, disk, lines)
  BY <1>2, <1>5, <1>6, <1>7, <1>8 DEF FilesKept
<1> QED
  BY <1>1, <1>3, <1>9 DEF FilesInv

\* Rolling keeps it.
LEMMA KeptRolled ==
  ASSUME limits \in [DLevels -> Nat], NEW s, NEW t \in RollState, NEW h,
         FilesKept(s.dirs, s.streams, s.disk, h), Rolled(t, s)
  PROVE  FilesKept(t.dirs, t.streams, t.disk, h) /\ (FilesFit(s.disk) => FilesFit(t.disk))
<1>1. PICK ds, ss, d : ds = s.dirs /\ ss = s.streams /\ d = s.disk
  OBVIOUS
<1>2. PICK ss2, d2 : ss2 = t.streams /\ d2 = t.disk
  OBVIOUS
<1>3. /\ t.dirs = ds /\ DOMAIN ss2 = DOMAIN ss /\ DOMAIN d2 = DOMAIN d
      /\ \A p \in DOMAIN d : d2[p] = d[p] \/ d2[p] = <<>>
      /\ \A n \in DOMAIN ss : ss2[n] = nullFile <=> ss[n] = nullFile
      /\ InPlace(ss, d) => InPlace(ss2, d2)
  BY <1>1, <1>2 DEF Rolled
<1>4. /\ ds \in Directories /\ d \in Disks /\ h \in Disks /\ Sound(ds, ss, d) /\ InPlace(ss, d) /\ DOMAIN h = DOMAIN d
      /\ \A path \in DOMAIN d : OneName(path) => IsSuffix(d[path], h[path])
  BY <1>1 DEF FilesKept
<1>5. ss2 \in Streams /\ d2 \in Disks
  BY <1>2 DEF RollState
<1>6. Sound(ds, ss2, d2)
  BY <1>3, <1>4 DEF Sound, Attached
<1>7. ASSUME NEW path \in DOMAIN d2, OneName(path) PROVE IsSuffix(d2[path], h[path])
  <2>1. h[path] \in Seq(Nat)
    BY <1>3, <1>4, FileOfDisk
  <2>2. IsSuffix(<<>>, h[path])
    BY <2>1, SuffixLaw
  <2>3. IsSuffix(d[path], h[path]) /\ (d2[path] = d[path] \/ d2[path] = <<>>)
    BY <1>3, <1>4, <1>7
  <2> QED
    BY <2>2, <2>3
<1>8. FilesKept(ds, ss2, d2, h)
  BY <1>3, <1>4, <1>5, <1>6, <1>7 DEF FilesKept
<1>9. ASSUME FilesFit(d), NEW path \in DOMAIN d2, OneName(path) PROVE Bounded(d2, path)
  <2>1. Bounded(d, path) /\ d2[path] \in {d[path], <<>>}
    BY <1>3, <1>9 DEF FilesFit
  <2> QED
    BY <2>1, BoundedStill
<1> QED
  BY <1>1, <1>2, <1>3, <1>8, <1>9 DEF FilesFit

\* A history with a line more.
Appended(g, h, path, size) == g = [h EXCEPT ![path] = Append(@, size)]

\* Writing keeps it.
LEMMA KeptWritten ==
  ASSUME filenames \in [DLevels -> Filenames], limits \in [DLevels -> Nat], NEW s \in RollState, NEW h,
         FilesKept(s.dirs, s.streams, s.disk, h),
         NEW lv \in DLevels, s.streams[fileName(lv)] # nullFile, NEW size \in LineSizes,
         NEW t, t = WriteLine(s, lv, size),
         NEW g, Appended(g, h, PathOf(fileName(lv)), size)
  PROVE  /\ t \in RollState /\ t.dirs = s.dirs /\ DOMAIN t.streams = DOMAIN s.streams
         /\ FilesKept(t.dirs, t.streams, t.disk, g)
         /\ FilesFit(s.disk) /\ Within(s, lv) => FilesFit(t.disk)
<1> PICK n \in NamesInUse : n = fileName(lv)
  BY DEF NamesInUse
<1> PICK P : P = PathOf(n)
  OBVIOUS
<1>1. PICK ds, ss, d : ds = s.dirs /\ ss = s.streams /\ d = s.disk
  OBVIOUS
<1>2. PICK ss2, d2 : ss2 = t.streams /\ d2 = t.disk
  OBVIOUS
<1>3. /\ ds \in Directories /\ d \in Disks /\ h \in Disks /\ Sound(ds, ss, d) /\ InPlace(ss, d) /\ DOMAIN h = DOMAIN d
      /\ \A path \in DOMAIN d : OneName(path) => IsSuffix(d[path], h[path])
  BY <1>1 DEF FilesKept
<1>4. /\ t \in RollState /\ t.dirs = ds /\ DOMAIN ss2 = DOMAIN ss
      /\ P \in DOMAIN d /\ DOMAIN d2 = DOMAIN d
      /\ \A m \in DOMAIN ss : ss2[m] = nullFile <=> ss[m] = nullFile
      /\ \A p \in DOMAIN d : p # P => d2[p] = d[p]
      /\ OneName(P) => d2[P] = Append(d[P], size)
      /\ InPlace(ss2, d2)
  BY <1>1, <1>2, <1>3, WriteLaw
<1>5. ss2 \in Streams /\ d2 \in Disks
  BY <1>2, <1>4 DEF RollState
<1>6. Sound(ds, ss2, d2)
  BY <1>3, <1>4 DEF Sound, Attached
<1>7. PICK k \in Nat : k = size
  BY LargestLine
<1>8. PICK c \in Seq(Nat) : c = h[P]
  BY <1>3, <1>4, FileOfDisk
<1>9. g \in Disks /\ DOMAIN g = DOMAIN d2 /\ g[P] = Append(h[P], k) /\ \A p \in DOMAIN d : p # P => g[p] = h[p]
  <2>1. PICK c2 \in Seq(Nat) : c2 = Append(c, k)
    BY AppendProperties
  <2>2. g = [h EXCEPT ![P] = c2]
    BY <1>7, <1>8, <2>1 DEF Appended
  <2>3. g \in Disks
    <3>1. h \in Disks /\ P \in DOMAIN h /\ c2 \in Seq(Nat)
      BY <1>3, <1>4
    <3> QED
      BY <2>2, <3>1, FileReplaced
  <2> QED
    BY <1>3, <1>4, <1>8, <2>1, <2>2, <2>3
<1>10. ASSUME NEW path \in DOMAIN d2, OneName(path) PROVE IsSuffix(d2[path], g[path])
  <2>1. IsSuffix(d[path], h[path]) /\ d[path] \in Seq(Nat) /\ h[path] \in Seq(Nat)
    BY <1>3, <1>4, <1>10, FileOfDisk
  <2>2. CASE path = P
    <3>1. d2[path] = Append(d[path], k) /\ g[path] = Append(h[path], k)
      BY <1>4, <1>7, <1>9, <1>10, <2>2
    <3> QED
      BY <2>1, <3>1, SuffixLaw
  <2>3. CASE path # P
    BY <1>4, <1>9, <2>1, <2>3
  <2> QED
    BY <2>2, <2>3
<1>11. FilesKept(ds, ss2, d2, g)
  BY <1>3, <1>4, <1>5, <1>6, <1>9, <1>10 DEF FilesKept
<1>12. ASSUME FilesFit(d), Within(s, lv), NEW path \in DOMAIN d2, OneName(path) PROVE Bounded(d2, path)
  <2>1. CASE path = P
    <3>1. lv \in Writers(P)
      BY DEF Writers
    <3>2. d[P] \in Seq(Nat) /\ d2[P] = Append(d[P], size)
      BY <1>3, <1>4, <1>12, <2>1, FileOfDisk
    <3>3. limits[lv] # 0 => getSizeOfFile(d[P]) < limits[lv]
      BY <1>1, <1>12 DEF Within
    <3> QED
      BY <2>1, <3>1, <3>2, <3>3, BoundedLaw
  <2>2. CASE path # P
    <3>1. Bounded(d, path) /\ d2[path] \in {d[path], <<>>}
      BY <1>4, <1>12, <2>2 DEF FilesFit
    <3> QED
      BY <3>1, BoundedStill
  <2> QED
    BY <2>1, <2>2
<1> QED
  BY <1>1, <1>2, <1>4, <1>11, <1>12 DEF FilesFit

\* The steps.
LEMMA FilesConfigured == FilesInv /\ ConfigureFiles => FilesInv'
<1> SUFFICES ASSUME FilesInv, ConfigureFiles PROVE FilesInv'
  OBVIOUS
<1> PICK none : none = <<>>
  OBVIOUS
<1>1. PICK s : s = FoldLeft(insertFile, [dirs |-> dirs, streams |-> streams, disk |-> disk], LevelSeq)
  OBVIOUS
<1>2. PICK t : t = FoldLeft(unsafeValidateFileRolling, s, LevelSeq)
  OBVIOUS
<1>3. /\ dirs' = t.dirs /\ streams' = t.streams /\ disk' = t.disk
      /\ lines' = WithFiles(lines, DOMAIN t.disk)
      /\ ~running /\ running' = TRUE /\ UNCHANGED <<filenames, limits, strict>>
  BY <1>1, <1>2 DEF ConfigureFiles
<1>4. /\ filenames \in [DLevels -> Filenames] /\ limits \in [DLevels -> Nat] /\ strict \in BOOLEAN
      /\ FilesKept(dirs, streams, disk, lines) /\ streams = <<>>
  BY <1>3 DEF FilesInv
<1>5. /\ dirs \in Directories /\ disk \in Disks /\ lines \in Disks /\ DOMAIN lines = DOMAIN disk
      /\ SoundDirs(dirs) /\ SoundFiles(dirs, DOMAIN disk)
      /\ \A path \in DOMAIN disk : OneName(path) => IsSuffix(disk[path], lines[path])
  BY <1>4 DEF FilesKept, Sound
<1>6. Opened(s, DLevels)
  BY <1>1, <1>4, <1>5, OpenedLaw
<1>7. PICK ss, d : ss = s.streams /\ d = s.disk
  OBVIOUS
<1>8. /\ s.dirs \in Directories /\ ss \in Streams /\ d \in Disks /\ Sound(s.dirs, ss, d)
      /\ s \in [dirs : Directories, streams : Streams, disk : Disks]
      /\ Grown(d, disk) /\ NamesInUse \subseteq DOMAIN ss /\ \A n \in DOMAIN ss : ss[n] \in {nullFile, appending}
  BY <1>6, <1>7 DEF Opened, OpenState, NamesInUse
<1>9. s \in RollState /\ InPlace(ss, d)
  BY <1>7, <1>8 DEF RollState, InPlace, Sound, Attached
<1>10. t \in RollState /\ Rolled(t, s) /\ \A l \in DLevels : Within(t, l)
  BY <1>2, <1>4, <1>9, RolledLaw
<1>11. PICK h : h = WithFiles(lines, DOMAIN d)
  OBVIOUS
<1>12. Added(h, lines, DOMAIN d)
  <2>1. DOMAIN d \in SUBSET (Paths \ {<<>>})
    BY <1>8, FileOfDisk
  <2> QED
    BY <1>5, <1>11, <2>1, FilesAdded
<1>13. h \in Disks /\ DOMAIN h = DOMAIN d
  <2>1. DOMAIN disk \subseteq DOMAIN d
    BY <1>8 DEF Grown
  <2> QED
    BY <1>5, <1>12, <2>1 DEF Added
<1>14. ASSUME NEW path \in DOMAIN d, OneName(path) PROVE IsSuffix(d[path], h[path])
  <2>1. CASE path \in DOMAIN disk
    <3>1. d[path] = disk[path] /\ h[path] = lines[path]
      BY <1>5, <1>8, <1>12, <1>13, <2>1 DEF Grown, Added
    <3> QED
      BY <1>5, <1>14, <2>1, <3>1
  <2>2. CASE path \notin DOMAIN disk
    <3>1. d[path] = none
      BY <1>8, <2>2 DEF Grown
    <3>2. h[path] \in Seq(Nat)
      BY <1>13, FileOfDisk
    <3> QED
      BY <3>1, <3>2, SuffixLaw
  <2> QED
    BY <2>1, <2>2
<1>15. FilesKept(s.dirs, s.streams, s.disk, h)
  BY <1>7, <1>8, <1>9, <1>13, <1>14 DEF FilesKept
<1>16. FilesKept(t.dirs, t.streams, t.disk, h)
  BY <1>4, <1>10, <1>15, KeptRolled
<1>17. PICK ss2, d2 : ss2 = t.streams /\ d2 = t.disk
  OBVIOUS
<1>18. FilesFit(d2)
  <2> SUFFICES ASSUME NEW path \in DOMAIN d2, NEW l \in Writers(path) PROVE Bounded(d2, path)
    BY DEF FilesFit, Bounded
  <2>1. PICK n \in NamesInUse : n = fileName(l) /\ l \in DLevels /\ PathOf(n) = path
    BY DEF NamesInUse, Writers
  <2>2. /\ Sound(t.dirs, ss2, d2) /\ d2 \in Disks /\ n \in DOMAIN ss2
    BY <1>10, <1>16, <1>17 DEF FilesKept, RollState
  <2>3. SoundDirs(t.dirs) /\ SoundFiles(t.dirs, DOMAIN d2) /\ Attached(ss2, t.dirs, DOMAIN d2)
    BY <2>2 DEF Sound
  <2>4. Clear(t.dirs, DOMAIN d2, path)
    BY <2>2, <2>3, FileOfDisk, FilesAreClear
  <2>5. ss2[n] # nullFile
    BY <2>1, <2>2, <2>3, <2>4 DEF Attached
  <2>6. limits[l] # 0 => getSizeOfFile(d2[path]) < limits[l]
    BY <1>10, <1>17, <2>1, <2>5 DEF Within
  <2>7. d2[path] \in Seq(Nat)
    BY <2>2, FileOfDisk
  <2>8. PICK size \in LineSizes : TRUE
    BY SizesAssumption
  <2> QED
    BY <1>4, <2>6, <2>7, <2>8, BoundedLaw
<1>19. DOMAIN t.disk = DOMAIN d /\ DOMAIN ss2 = DOMAIN ss
  BY <1>7, <1>10, <1>17 DEF Rolled
<1>20. FilesKept(dirs', streams', disk', lines') /\ FilesFit(disk')
  BY <1>3, <1>11, <1>16, <1>17, <1>18, <1>19
<1>21. FilesKept(dirs, streams, disk, lines)' /\ FilesFit(disk)' /\ NamesInUse' = NamesInUse
  BY <1>3, <1>4, <1>20, FilesLater
<1>22. NamesInUse' \subseteq DOMAIN streams'
  BY <1>3, <1>8, <1>17, <1>19, <1>21
<1> QED
  BY <1>3, <1>4, <1>21, <1>22 DEF FilesInv

\* A line.
LEMMA FilesAfterLine ==
  ASSUME NEW lv \in DLevels, NEW size \in LineSizes, NEW toFile \in BOOLEAN
  PROVE  FilesInv /\ LogLine(lv, size, toFile) => FilesInv'
<1> SUFFICES ASSUME FilesInv, LogLine(lv, size, toFile) PROVE FilesInv'
  OBVIOUS
<1>1. PICK s : s = [dirs |-> dirs, streams |-> streams, disk |-> disk]
  OBVIOUS
<1>2. PICK r : r = IF strict THEN unsafeValidateFileRolling(s, lv) ELSE s
  OBVIOUS
<1>3. PICK n \in NamesInUse : n = fileName(lv)
  BY DEF NamesInUse
<1>4. PICK written \in BOOLEAN : written = (toFile /\ streams[n] # nullFile)
  OBVIOUS
<1>5. PICK t : t = IF written THEN WriteLine(r, lv, size) ELSE r
  OBVIOUS
<1>6. PICK g : g = IF written THEN [lines EXCEPT ![PathOf(n)] = Append(@, size)] ELSE lines
  OBVIOUS
<1>7. /\ running /\ streams' = t.streams /\ disk' = t.disk /\ lines' = g
      /\ UNCHANGED <<filenames, limits, strict, dirs, running>>
  BY <1>1, <1>2, <1>3, <1>4, <1>5, <1>6 DEF LogLine
<1>8. /\ filenames \in [DLevels -> Filenames] /\ limits \in [DLevels -> Nat] /\ strict \in BOOLEAN
      /\ FilesKept(dirs, streams, disk, lines) /\ NamesInUse \subseteq DOMAIN streams /\ (strict => FilesFit(disk))
  BY <1>7 DEF FilesInv
<1>9. s.dirs = dirs /\ s.streams = streams /\ s.disk = disk
  BY <1>1
<1>10. s \in RollState
  <2>1. s \in [dirs : Directories, streams : Streams, disk : Disks]
    BY <1>1, <1>8 DEF FilesKept
  <2>2. \A m \in DOMAIN streams : streams[m] # nullFile => PathOf(m) \in DOMAIN disk
    BY <1>8 DEF FilesKept, Sound, Attached
  <2> QED
    BY <1>8, <1>9, <2>1, <2>2 DEF RollState
<1>11. r \in RollState /\ Rolled(r, s) /\ (strict => Within(r, lv))
  <2>1. CASE strict
    <3>1. r = unsafeValidateFileRolling(s, lv)
      BY <1>2, <2>1
    <3> QED
      BY <1>8, <1>10, <3>1, RollingLaw
  <2>2. CASE ~strict
    <3>1. r = s
      BY <1>2, <2>2
    <3> QED
      BY <1>10, <2>2, <3>1 DEF Rolled
  <2> QED
    BY <1>8, <2>1, <2>2
<1>12. FilesKept(r.dirs, r.streams, r.disk, lines) /\ (strict => FilesFit(r.disk))
  BY <1>8, <1>9, <1>11, KeptRolled
<1>13. r.dirs = dirs /\ DOMAIN r.streams = DOMAIN streams /\ (r.streams[n] = nullFile <=> streams[n] = nullFile)
  BY <1>8, <1>9, <1>11 DEF Rolled
<1>14. t.dirs = dirs /\ DOMAIN t.streams = DOMAIN streams
       /\ FilesKept(t.dirs, t.streams, t.disk, g) /\ (strict => FilesFit(t.disk))
  <2>1. CASE written
    <3>1. t = WriteLine(r, lv, size) /\ Appended(g, lines, PathOf(fileName(lv)), size)
      BY <1>3, <1>5, <1>6, <2>1 DEF Appended
    <3>2. r.streams[fileName(lv)] # nullFile
      BY <1>3, <1>4, <1>13, <2>1
    <3>3. /\ filenames \in [DLevels -> Filenames] /\ limits \in [DLevels -> Nat]
          /\ r \in RollState /\ FilesKept(r.dirs, r.streams, r.disk, lines)
      BY <1>8, <1>11, <1>12
    <3>4. /\ t.dirs = r.dirs /\ DOMAIN t.streams = DOMAIN r.streams
          /\ FilesKept(t.dirs, t.streams, t.disk, g)
          /\ FilesFit(r.disk) /\ Within(r, lv) => FilesFit(t.disk)
      BY <3>1, <3>2, <3>3, KeptWritten
    <3> QED
      BY <1>11, <1>12, <1>13, <3>4
  <2>2. CASE ~written
    <3>1. t = r /\ g = lines
      BY <1>5, <1>6, <2>2
    <3> QED
      BY <1>12, <1>13, <3>1
  <2> QED
    BY <2>1, <2>2
<1>15. FilesKept(dirs', streams', disk', lines') /\ (strict => FilesFit(disk'))
  BY <1>7, <1>14
<1>16. FilesKept(dirs, streams, disk, lines)' /\ (strict => FilesFit(disk)') /\ NamesInUse' = NamesInUse
  BY <1>7, <1>8, <1>15, FilesLater
<1>17. NamesInUse' \subseteq DOMAIN streams'
  BY <1>7, <1>8, <1>14, <1>16
<1> QED
  BY <1>7, <1>8, <1>16, <1>17 DEF FilesInv

\* The end of the program.
LEMMA FilesAfterEnd == FilesInv /\ ProgramEnds => FilesInv'
<1> SUFFICES ASSUME FilesInv, ProgramEnds PROVE FilesInv'
  OBVIOUS
<1>1. ~running' /\ running' \in BOOLEAN /\ streams' = <<>> /\ UNCHANGED <<filenames, limits, strict, dirs, disk, lines>>
  BY DEF ProgramEnds
<1>2. /\ filenames \in [DLevels -> Filenames] /\ limits \in [DLevels -> Nat] /\ strict \in BOOLEAN
      /\ FilesKept(dirs, streams, disk, lines)
  BY DEF FilesInv
<1>3. streams' \in Streams /\ DOMAIN streams' = {}
  BY <1>1, NothingOpen
<1>4. Sound(dirs, streams', disk) /\ InPlace(streams', disk)
  BY <1>2, <1>3 DEF FilesKept, Sound, Attached, InPlace
<1>5. FilesKept(dirs', streams', disk', lines')
  BY <1>1, <1>2, <1>3, <1>4 DEF FilesKept
<1>6. FilesKept(dirs, streams, disk, lines)'
  BY <1>1, <1>2, <1>5, FilesLater
<1> QED
  BY <1>1, <1>2, <1>6 DEF FilesInv

\* What it means.
LEMMA FilesInvImplies == FilesInv => FilesAsAsked
<1> SUFFICES ASSUME FilesInv PROVE FilesAsAsked
  OBVIOUS
<1>1. /\ filenames \in [DLevels -> Filenames] /\ disk \in Disks /\ SoundDirs(dirs) /\ SoundFiles(dirs, DOMAIN disk)
      /\ Attached(streams, dirs, DOMAIN disk)
  BY DEF FilesInv, FilesKept, Sound
<1>2. ASSUME running, NEW l \in DLevels, NEW path, path = PathOf(fileName(l))
      PROVE  /\ streams[fileName(l)] # nullFile <=>
                  /\ Above(path) \cap ((Denied \ Present) \cup DOMAIN disk) = {}
                  /\ path \notin Denied /\ ~pathExists(dirs, path)
             /\ Len(path) = Len(PathOf(filenames[l]))
  <2>1. fileName(l) \in DOMAIN streams
    BY <1>2 DEF FilesInv, NamesInUse
  <2>2. streams[fileName(l)] # nullFile <=> Clear(dirs, DOMAIN disk, path)
    <3>1. DOMAIN disk \in SUBSET (Paths \ {<<>>})
      BY <1>1, FileOfDisk
    <3>2. path \in DOMAIN disk => Clear(dirs, DOMAIN disk, path)
      BY <1>1, <3>1, FilesAreClear
    <3> QED
      BY <1>1, <1>2, <2>1, <3>2 DEF Attached
  <2>3. Alike(Pieces(fileName(l)), Pieces(filenames[l]))
    BY <1>1, ResolvedLaw DEF fileName
  <2> QED
    BY <1>2, <2>2, <2>3 DEF Clear, Bars, Alike, PathOf
<1>3. FileWhereAsked
  BY <1>2 DEF FileWhereAsked
<1>4. FileBounded
  BY DEF FileBounded, FilesInv, FilesKept, FilesFit, Bounded
<1> QED
  BY <1>3, <1>4 DEF FilesAsAsked

(***************************************************************************)
(* FilesAsAsked holds for every configuration, disk and set of levels, and *)
(* for any lines.  A level has its stream exactly if nothing is in the way *)
(* of its file: directories that cannot be made, other files, or that it   *)
(* is a directory or may not be written.  A file that goes by one name     *)
(* holds the last lines written to it, and rolling keeps it within the     *)
(* largest maximum and a line.                                             *)
(***************************************************************************)
THEOREM FilesTheorem == DInit /\ [][DNext]_dvars => []FilesAsAsked
<1>1. FilesInv /\ [DNext]_dvars => FilesInv'
  <2> SUFFICES ASSUME FilesInv, [DNext]_dvars PROVE FilesInv'
    OBVIOUS
  <2>1. CASE ConfigureFiles
    BY <2>1, FilesConfigured
  <2>2. CASE ProgramEnds
    BY <2>2, FilesAfterEnd
  <2>3. CASE \E lv \in DLevels, size \in LineSizes, toFile \in BOOLEAN : LogLine(lv, size, toFile)
    BY <2>3, FilesAfterLine
  <2>4. CASE UNCHANGED dvars
    <3>1. UNCHANGED <<filenames, limits, strict, dirs, disk, streams, running, lines>>
      BY <2>4 DEF dvars
    <3>2. FilesKept(dirs, streams, disk, lines) /\ limits \in [DLevels -> Nat] /\ (running /\ strict => FilesFit(disk))
      BY DEF FilesInv
    <3>3. FilesKept(dirs', streams', disk', lines') /\ (running /\ strict => FilesFit(disk'))
      BY <3>1, <3>2
    <3>4. FilesKept(dirs, streams, disk, lines)' /\ (running /\ strict => FilesFit(disk)') /\ NamesInUse' = NamesInUse
      BY <3>1, <3>2, <3>3, FilesLater
    <3> QED
      BY <3>1, <3>4 DEF FilesInv
  <2> QED
    BY <2>1, <2>2, <2>3, <2>4 DEF DNext
<1> QED
  BY <1>1, FilesAtFirst, FilesInvImplies, PTL

=============================================================================
