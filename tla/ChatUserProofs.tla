--------------------------- MODULE ChatUserProofs ---------------------------
(***************************************************************************)
(* Proofs about ChatUser, for any number of ping retries and any bounds on *)
(* the queues.                                                             *)
(***************************************************************************)
EXTENDS ChatUser, DataLemmas

\* Nothing has happened yet but the nickname read: the handlers of the other
\* chains come after its handler.
NickFirst ==
  (read = "nick" \/ Waiting({"nick", "nick_error"})) =>
    /\ ~listed /\ ~member /\ ~timer /\ ~writing /\ backlog = 0
    /\ \A i \in 1..Len(queue) : queue[i] \in {"nick", "nick_error"}

\* A user with a read loop or a timer that nobody has stopped is listed.
UnstoppedListed ==
  (read \in {"header", "message"} \/ timer
     \/ Waiting({"header", "message", "empty", "read_error", "tick", "cancelled"}))
  /\ stops = 0 => listed

\* Nothing refers to an object that was deleted.
FreedIsLoose == freed => ~Held

\* A handler of H waits behind every function posted by write().
PostedBefore(H) ==
  \E j \in 1..Len(queue) : queue[j] \in H /\ \A i \in 1..Len(queue) : queue[i] = "posted" => i < j

\* What outlives the functions posted by write(): the read loop, which every listed
\* user and member has, the timer, or a handler queued behind them.
PostedOutlived ==
  open /\ stops < 2 /\ Waiting({"posted"}) =>
    \/ Chain(read # "none", ReadHandlers) = 1
    \/ Chain(timer, {"tick"}) = 1
    \/ PostedBefore({"cancelled", "close"})

\* The answer to a refused client is on its way, and not sent yet, when the
\* function that closes the socket waits.
CloseBehindAnswer ==
  \A j \in 1..Len(queue) : queue[j] = "close" =>
    /\ \A i \in 1..j - 1 : queue[i] \notin WriteHandlers
    /\ backlog > 0 \/ \E i \in 1..j - 1 : queue[i] = "posted"

IInv ==
  /\ OneOfEach
  /\ NickFirst /\ UnstoppedListed
  /\ FreedIsLoose /\ PostedOutlived
  /\ CloseBehindAnswer

-----------------------------------------------------------------------------
(***************************************************************************)
(* The queue.                                                              *)
(***************************************************************************)

\* Whether a handler of H waits is a matter of how many do.
LEMMA WaitingCounted ==
  ASSUME queue \in Seq(Handlers), NEW H
  PROVE  Count(H) \in Nat /\ (Waiting(H) <=> Count(H) # 0)
BY HowManyType DEF Waiting, Count

\* What a call queues at once, if it does.
LEMMA WhenCounted ==
  ASSUME NEW cond \in BOOLEAN, NEW h \in Handlers
  PROVE  /\ When(cond, h) \in Seq(Handlers)
         /\ \A H : HowMany(When(cond, h), H) = IF cond /\ h \in H THEN 1 ELSE 0
<1>1. CASE cond
  <2>1. When(cond, h) = <<h>>
    BY <1>1 DEF When
  <2>2. <<h>> \in Seq(Handlers)
    OBVIOUS
  <2> QED
    BY <1>1, <2>1, <2>2, HowManyOne
<1>2. CASE ~cond
  <2>1. When(cond, h) = <<>> /\ <<>> \in Seq(Handlers)
    BY <1>2, EmptySeq DEF When
  <2> QED
    BY <1>2, <2>1, HowManyEmpty
<1> QED
  BY <1>1, <1>2

\* Two such calls, in turn.
LEMMA ConcatCounted ==
  ASSUME NEW p \in Seq(Handlers), NEW q \in Seq(Handlers)
  PROVE  /\ p \o q \in Seq(Handlers)
         /\ \A H : /\ HowMany(p, H) \in Nat /\ HowMany(q, H) \in Nat
                   /\ HowMany(p \o q, H) = HowMany(p, H) + HowMany(q, H)
BY ConcatProperties, HowManyConcat, HowManyType

\* A completion queues its handler behind the others.
LEMMA AppendCounted ==
  ASSUME queue \in Seq(Handlers), NEW h \in Handlers, queue' = Append(queue, h)
  PROVE  /\ queue' \in Seq(Handlers)
         /\ \A H : HowMany(queue', H) = HowMany(queue, H) + (IF h \in H THEN 1 ELSE 0)
         /\ Len(queue) \in Nat /\ Len(queue') = Len(queue) + 1
         /\ \A i \in 1..Len(queue') : queue'[i] = IF i <= Len(queue) THEN queue[i] ELSE h
<1>1. queue' \in Seq(Handlers) /\ Len(queue') = Len(queue) + 1 /\ Len(queue) \in Nat
  BY AppendProperties, LenProperties
<1>2. \A i \in 1..Len(queue') : queue'[i] = IF i <= Len(queue) THEN queue[i] ELSE h
  BY <1>1, AppendProperties
<1>3. \A H : HowMany(queue', H) = HowMany(queue, H) + (IF h \in H THEN 1 ELSE 0)
  BY HowManyAppend
<1> QED
  BY <1>1, <1>2, <1>3

\* A handler is taken from the front, and what it queues comes last.
LEMMA TakeCounted ==
  ASSUME queue \in Seq(Handlers), NEW h, NEW posts \in Seq(Handlers), Take(h, posts)
  PROVE  /\ queue' \in Seq(Handlers)
         /\ \A H : /\ HowMany(queue, H) \in Nat /\ HowMany(queue', H) \in Nat
                   /\ HowMany(queue, H) >= IF h \in H THEN 1 ELSE 0
                   /\ HowMany(queue', H) = HowMany(queue, H) - (IF h \in H THEN 1 ELSE 0) + HowMany(posts, H)
         /\ Len(queue) \in Nat \ {0} /\ queue[1] = h
         /\ Len(posts) \in Nat /\ Len(queue') = Len(queue) - 1 + Len(posts)
         /\ \A i \in 1..Len(queue') :
              queue'[i] = IF i < Len(queue) THEN queue[i + 1] ELSE posts[i - Len(queue) + 1]
<1>0. queue # <<>> /\ Head(queue) = h /\ queue' = Tail(queue) \o posts
  BY DEF Take
<1>1. /\ Tail(queue) \in Seq(Handlers) /\ Len(queue) \in Nat \ {0} /\ queue[1] = h
      /\ Len(Tail(queue)) = Len(queue) - 1 /\ Len(posts) \in Nat
      /\ \A i \in 1..Len(Tail(queue)) : Tail(queue)[i] = queue[i + 1]
  BY <1>0, HeadTailProperties, LenProperties
<1>2. queue' \in Seq(Handlers)
  BY <1>0, <1>1, ConcatProperties
<1>3. /\ Len(queue') = Len(queue) - 1 + Len(posts)
      /\ \A i \in 1..Len(queue') :
           queue'[i] = IF i < Len(queue) THEN queue[i + 1] ELSE posts[i - Len(queue) + 1]
  BY <1>0, <1>1, ConcatProperties
<1>4. ASSUME NEW H
      PROVE  /\ HowMany(queue, H) \in Nat /\ HowMany(queue', H) \in Nat
             /\ HowMany(queue, H) >= IF h \in H THEN 1 ELSE 0
             /\ HowMany(queue', H) = HowMany(queue, H) - (IF h \in H THEN 1 ELSE 0) + HowMany(posts, H)
  <2>1. HowMany(queue, H) = HowMany(Tail(queue), H) + (IF h \in H THEN 1 ELSE 0)
    BY <1>0, HowManyTail
  <2>2. HowMany(queue', H) = HowMany(Tail(queue), H) + HowMany(posts, H)
    BY <1>0, <1>1, HowManyConcat
  <2>3. HowMany(queue, H) \in Nat /\ HowMany(Tail(queue), H) \in Nat /\ HowMany(posts, H) \in Nat
    BY <1>1, HowManyType
  <2> QED
    BY <2>1, <2>2, <2>3
<1> QED
  BY <1>1, <1>2, <1>3, <1>4

\* Two handlers, each if it is due.
LEMMA PairCounted ==
  ASSUME NEW c \in BOOLEAN, NEW d \in BOOLEAN, NEW g \in Handlers, NEW h \in Handlers
  PROVE  /\ When(c, g) \o When(d, h) \in Seq(Handlers)
         /\ \A H : HowMany(When(c, g) \o When(d, h), H) =
              (IF c /\ g \in H THEN 1 ELSE 0) + (IF d /\ h \in H THEN 1 ELSE 0)
<1>1. /\ When(c, g) \in Seq(Handlers)
      /\ \A H : HowMany(When(c, g), H) = IF c /\ g \in H THEN 1 ELSE 0
  BY WhenCounted
<1>2. /\ When(d, h) \in Seq(Handlers)
      /\ \A H : HowMany(When(d, h), H) = IF d /\ h \in H THEN 1 ELSE 0
  BY WhenCounted
<1>3. /\ When(c, g) \o When(d, h) \in Seq(Handlers)
      /\ \A H : HowMany(When(c, g) \o When(d, h), H) = HowMany(When(c, g), H) + HowMany(When(d, h), H)
  BY <1>1, <1>2, ConcatCounted
<1> QED
  BY <1>1, <1>2, <1>3

\* What manager_stop queues: the notice of leaving, then the cancelled wait.
LEMMA StopPostsCounted ==
  ASSUME TypeOK
  PROVE  /\ StopPosts \in Seq(Handlers)
         /\ \A H : HowMany(StopPosts, H) = (IF member /\ "posted" \in H THEN 1 ELSE 0)
                                         + (IF timer /\ "cancelled" \in H THEN 1 ELSE 0)
<1>1. member \in BOOLEAN /\ timer \in BOOLEAN /\ "posted" \in Handlers /\ "cancelled" \in Handlers
  BY DEF TypeOK, Handlers
<1> QED
  BY <1>1, PairCounted DEF StopPosts

\* What close_socket queues: what was outstanding fails.
LEMMA ClosePostsCounted ==
  ASSUME TypeOK
  PROVE  /\ ClosePosts \in Seq(Handlers)
         /\ \A H : HowMany(ClosePosts, H) = (IF read # "none" /\ error(read) \in H THEN 1 ELSE 0)
                                          + (IF writing /\ "write_error" \in H THEN 1 ELSE 0)
<1>1. writing \in BOOLEAN /\ error(read) \in Handlers /\ "write_error" \in Handlers
  BY DEF TypeOK, Handlers, ReadHandlers, WriteHandlers, error
<1>2. PICK reading \in BOOLEAN : reading <=> read # "none"
  OBVIOUS
<1>3. PICK failure \in Handlers : failure = error(read)
  BY <1>1
<1>4. ClosePosts = When(reading, failure) \o When(writing, "write_error")
  BY <1>2, <1>3 DEF ClosePosts, When
<1>5. /\ When(reading, failure) \o When(writing, "write_error") \in Seq(Handlers)
      /\ \A H : HowMany(When(reading, failure) \o When(writing, "write_error"), H) =
           (IF reading /\ failure \in H THEN 1 ELSE 0) + (IF writing /\ "write_error" \in H THEN 1 ELSE 0)
  BY <1>1, PairCounted
<1> QED
  BY <1>2, <1>3, <1>4, <1>5

\* There are no more of a kind than of a wider kind.
LEMMA CountMonotone ==
  ASSUME queue \in Seq(Handlers), NEW G, NEW H, G \subseteq H
  PROVE  Count(G) <= Count(H)
<1>1. IsFiniteSet(Positions(queue, H)) /\ Positions(queue, G) \in SUBSET Positions(queue, H)
  BY HowManyType DEF Positions
<1> QED
  BY <1>1, FS_Subset DEF Count, HowMany

-----------------------------------------------------------------------------
(***************************************************************************)
(* The invariant, in terms of how many handlers wait.                      *)
(***************************************************************************)

ReadChain == Chain(read # "none", ReadHandlers)
WriteChain == Chain(writing, WriteHandlers)
PingChain == Chain(timer, {"tick"})

NickHandlers == {"nick", "nick_error"}
AcceptedHandlers == {"header", "message", "empty", "read_error", "tick", "cancelled"}

\* What the chains and the kinds of handlers are when a handler h was taken that
\* queued posts.
Moved(H, h, posts) ==
  /\ Count(H) \in Nat /\ HowMany(posts, H) \in Nat
  /\ Count(H)' = Count(H) - (IF h \in H THEN 1 ELSE 0) + HowMany(posts, H)
  /\ h \in H => Count(H) >= 1

\* The kinds the invariant counts.
LEMMA TakenMoves ==
  ASSUME TypeOK, NEW h, NEW posts \in Seq(Handlers), Take(h, posts)
  PROVE  /\ queue' \in Seq(Handlers)
         /\ Moved(ReadHandlers, h, posts) /\ Moved(WriteHandlers, h, posts) /\ Moved({"tick"}, h, posts)
         /\ Moved(NickHandlers, h, posts) /\ Moved(AcceptedHandlers, h, posts) /\ Moved({"posted"}, h, posts)
<1>1. queue \in Seq(Handlers)
  BY DEF TypeOK
<1>2. ASSUME NEW H PROVE Moved(H, h, posts)
  <2>1. /\ HowMany(queue, H) \in Nat
        /\ HowMany(queue, H) >= IF h \in H THEN 1 ELSE 0
        /\ HowMany(queue', H) = HowMany(queue, H) - (IF h \in H THEN 1 ELSE 0) + HowMany(posts, H)
    BY <1>1, TakeCounted
  <2>2. HowMany(posts, H) \in Nat
    BY HowManyType
  <2> QED
    BY <2>1, <2>2 DEF Moved, Count
<1> QED
  BY <1>1, <1>2, TakeCounted

\* A handler other than that of the nickname finds no nickname read, and that of
\* the nickname was the only one.
LEMMA NickTaken ==
  ASSUME IInv, NEW h \in Handlers, NEW posts \in Seq(Handlers), Take(h, posts)
  PROVE  /\ read # "nick"
         /\ h \notin NickHandlers => Count(NickHandlers) = 0
         /\ h \in NickHandlers =>
              /\ ~listed /\ ~member /\ ~timer /\ ~writing /\ backlog = 0
              /\ read = "none" /\ Count(NickHandlers) = 1 /\ Count(ReadHandlers) = 1
              /\ Count(WriteHandlers) = 0 /\ Count({"tick"}) = 0
              /\ Count(AcceptedHandlers) = 0 /\ Count({"posted"}) = 0
<1>0. TypeOK /\ queue \in Seq(Handlers) /\ OneReadLoop /\ NickFirst
  BY DEF IInv, OneOfEach, TypeOK
<1>1. Len(queue) \in Nat \ {0} /\ queue[1] = h
  BY <1>0, TakeCounted
<1>2. 1 \in 1..Len(queue)
  BY <1>1
<1>3. /\ Count(ReadHandlers) \in Nat /\ Count(NickHandlers) \in Nat
      /\ Count(NickHandlers) <= Count(ReadHandlers)
  <2>1. NickHandlers \subseteq ReadHandlers
    BY DEF NickHandlers, ReadHandlers
  <2> QED
    BY <1>0, <2>1, CountMonotone, WaitingCounted
<1>4. /\ (IF read # "none" THEN 1 ELSE 0) + Count(ReadHandlers) <= 1
  BY <1>0 DEF OneReadLoop, Chain
<1>5. h \in NickHandlers => Count(NickHandlers) >= 1
  BY <1>0, TakenMoves DEF Moved
<1>6. CASE h \notin NickHandlers
  <2>1. read # "nick" /\ ~Waiting(NickHandlers)
    BY <1>0, <1>1, <1>2, <1>6 DEF NickFirst, NickHandlers
  <2> QED
    BY <1>0, <1>6, <2>1, WaitingCounted
<1>7. CASE h \in NickHandlers
  <2>1. Waiting(NickHandlers)
    BY <1>0, <1>3, <1>5, <1>7, WaitingCounted
  <2>2. /\ ~listed /\ ~member /\ ~timer /\ ~writing /\ backlog = 0
        /\ \A i \in 1..Len(queue) : queue[i] \in NickHandlers
    BY <1>0, <2>1 DEF NickFirst, NickHandlers
  <2>3. read = "none" /\ Count(NickHandlers) = 1 /\ Count(ReadHandlers) = 1
    BY <1>3, <1>4, <1>5, <1>7
  <2>4. ASSUME NEW H, H \cap NickHandlers = {} PROVE Count(H) = 0
    <3>1. ~Waiting(H)
      BY <2>2, <2>4 DEF Waiting
    <3> QED
      BY <1>0, <3>1, WaitingCounted
  <2>5. /\ WriteHandlers \cap NickHandlers = {} /\ {"tick"} \cap NickHandlers = {}
        /\ AcceptedHandlers \cap NickHandlers = {} /\ {"posted"} \cap NickHandlers = {}
    BY DEF WriteHandlers, NickHandlers, AcceptedHandlers
  <2> QED
    BY <1>7, <2>2, <2>3, <2>4, <2>5
<1> QED
  BY <1>6, <1>7

\* After a handler was taken no nickname read is left.
LEMMA NickFirstTaken ==
  ASSUME IInv, NEW h \in Handlers, NEW posts \in Seq(Handlers), Take(h, posts),
         HowMany(posts, NickHandlers) = 0, read' # "nick"
  PROVE  NickFirst'
<1>1. Moved(NickHandlers, h, posts) /\ queue' \in Seq(Handlers)
  BY TakenMoves DEF IInv, OneOfEach
<1>2. HowMany(queue', NickHandlers) = 0
  BY <1>1, NickTaken DEF Moved, Count
<1>3. \A i \in 1..Len(queue') : queue'[i] \notin NickHandlers
  BY <1>1, <1>2, HowManyType
<1> QED
  BY <1>3 DEF NickFirst, Waiting, NickHandlers

\* What waits behind the functions posted by write() still does, or they are gone.
LEMMA PostedBeforeTaken ==
  ASSUME queue \in Seq(Handlers), NEW h, NEW posts \in Seq(Handlers), Take(h, posts),
         HowMany(posts, {"posted"}) = 0, NEW H, PostedBefore(H)
  PROVE  PostedBefore(H)' \/ ~Waiting({"posted"})'
<1>1. /\ Len(queue) \in Nat \ {0} /\ queue[1] = h
      /\ Len(posts) \in Nat /\ Len(queue') = Len(queue) - 1 + Len(posts)
      /\ \A i \in 1..Len(queue') :
           queue'[i] = IF i < Len(queue) THEN queue[i + 1] ELSE posts[i - Len(queue) + 1]
  BY TakeCounted
<1>2. \A i \in 1..Len(posts) : posts[i] # "posted"
  BY HowManyType
<1>3. PICK j \in 1..Len(queue) : queue[j] \in H /\ \A i \in 1..Len(queue) : queue[i] = "posted" => i < j
  BY DEF PostedBefore
<1>4. ASSUME NEW i \in 1..Len(queue'), queue'[i] = "posted"
      PROVE  i < j - 1
  <2>1. CASE i < Len(queue)
    BY <1>1, <1>3, <1>4, <2>1
  <2>2. CASE ~(i < Len(queue))
    BY <1>1, <1>2, <1>4, <2>2
  <2> QED
    BY <2>1, <2>2
<1>5. CASE j = 1
  BY <1>1, <1>4, <1>5 DEF Waiting
<1>6. CASE j # 1
  <2>1. j - 1 \in 1..Len(queue') /\ queue'[j - 1] = queue[j]
    BY <1>1, <1>6
  <2> QED
    BY <1>3, <1>4, <2>1 DEF PostedBefore
<1> QED
  BY <1>5, <1>6

\* A function that closes the socket still waits behind the answer.
LEMMA CloseTaken ==
  ASSUME IInv, NEW h, NEW posts \in Seq(Handlers), Take(h, posts),
         HowMany(posts, {"close"}) = 0,
         h \notin WriteHandlers /\ backlog > 0 => backlog' > 0,
         h = "posted" => backlog' > 0
  PROVE  CloseBehindAnswer'
<1>0. queue \in Seq(Handlers) /\ CloseBehindAnswer
  BY DEF IInv, OneOfEach, TypeOK
<1>1. /\ Len(queue) \in Nat \ {0} /\ queue[1] = h
      /\ Len(posts) \in Nat /\ Len(queue') = Len(queue) - 1 + Len(posts)
      /\ \A i \in 1..Len(queue') :
           queue'[i] = IF i < Len(queue) THEN queue[i + 1] ELSE posts[i - Len(queue) + 1]
  BY <1>0, TakeCounted
<1>2. \A i \in 1..Len(posts) : posts[i] # "close"
  BY HowManyType
<1> SUFFICES ASSUME NEW j \in 1..Len(queue'), queue'[j] = "close"
             PROVE  /\ \A i \in 1..j - 1 : queue'[i] \notin WriteHandlers
                    /\ backlog' > 0 \/ \E i \in 1..j - 1 : queue'[i] = "posted"
  BY DEF CloseBehindAnswer
<1>3. j < Len(queue) /\ j + 1 \in 1..Len(queue) /\ queue[j + 1] = "close"
  BY <1>1, <1>2
<1>4. /\ \A i \in 1..j : queue[i] \notin WriteHandlers
      /\ backlog > 0 \/ \E i \in 1..j : queue[i] = "posted"
  <2>1. (j + 1) - 1 = j
    OBVIOUS
  <2> QED
    BY <1>0, <1>3, <2>1 DEF CloseBehindAnswer
<1>5. \A i \in 1..j - 1 : queue'[i] = queue[i + 1] /\ i + 1 \in 1..j
  BY <1>1, <1>3
<1>6. h \notin WriteHandlers
  BY <1>1, <1>4
<1>7. ASSUME NEW i \in 1..j, queue[i] = "posted"
      PROVE  backlog' > 0 \/ \E k \in 1..j - 1 : queue'[k] = "posted"
  <2>1. CASE i = 1
    BY <1>1, <1>7, <2>1
  <2>2. CASE i # 1
    <3>1. i - 1 \in 1..j - 1 /\ (i - 1) + 1 = i
      BY <2>2
    <3>2. queue'[i - 1] = "posted"
      BY <1>5, <1>7, <3>1
    <3> QED
      BY <3>1, <3>2
  <2> QED
    BY <2>1, <2>2
<1> QED
  BY <1>4, <1>5, <1>6, <1>7

\* What a completion queues comes behind everything else.
LEMMA AppendKeepsOrder ==
  ASSUME queue \in Seq(Handlers), NEW h \in Handlers, queue' = Append(queue, h), h # "close"
  PROVE  /\ CloseBehindAnswer /\ backlog' = backlog => CloseBehindAnswer'
         /\ h # "posted" => /\ Waiting({"posted"})' => Waiting({"posted"})
                            /\ \A H : PostedBefore(H) => PostedBefore(H)'
<1>1. /\ Len(queue) \in Nat /\ Len(queue') = Len(queue) + 1
      /\ \A i \in 1..Len(queue') : queue'[i] = IF i <= Len(queue) THEN queue[i] ELSE h
  BY AppendCounted
<1>2. ASSUME CloseBehindAnswer, backlog' = backlog PROVE CloseBehindAnswer'
  <2> SUFFICES ASSUME NEW j \in 1..Len(queue'), queue'[j] = "close"
               PROVE  /\ \A i \in 1..j - 1 : queue'[i] \notin WriteHandlers
                      /\ backlog' > 0 \/ \E i \in 1..j - 1 : queue'[i] = "posted"
    BY DEF CloseBehindAnswer
  <2>1. j \in 1..Len(queue) /\ queue[j] = "close"
    BY <1>1
  <2>2. \A i \in 1..j - 1 : queue'[i] = queue[i]
    BY <1>1, <2>1
  <2> QED
    BY <1>2, <2>1, <2>2 DEF CloseBehindAnswer
<1>3. ASSUME h # "posted", Waiting({"posted"})' PROVE Waiting({"posted"})
  BY <1>1, <1>3 DEF Waiting
<1>4. ASSUME h # "posted", NEW H, PostedBefore(H) PROVE PostedBefore(H)'
  <2>1. PICK j \in 1..Len(queue) : queue[j] \in H /\ \A i \in 1..Len(queue) : queue[i] = "posted" => i < j
    BY <1>4 DEF PostedBefore
  <2>2. j \in 1..Len(queue') /\ queue'[j] \in H
    BY <1>1, <2>1
  <2>3. \A i \in 1..Len(queue') : queue'[i] = "posted" => i < j
    BY <1>1, <1>4, <2>1
  <2> QED
    BY <2>2, <2>3 DEF PostedBefore
<1> QED
  BY <1>2, <1>3, <1>4

-----------------------------------------------------------------------------
(***************************************************************************)
(* The steps.                                                              *)
(***************************************************************************)

\* All but FreedIsLoose, which is about Release.
Inv ==
  /\ OneOfEach
  /\ NickFirst /\ UnstoppedListed
  /\ PostedOutlived
  /\ CloseBehindAnswer

\* The chains are what they were when no link was added or taken away.
LEMMA LoopsKept ==
  ASSUME IInv, Release, TypeOK',
         ReadChain' = ReadChain, WriteChain' = WriteChain, PingChain' = PingChain,
         UNCHANGED <<open, backlog, listed, member, stops>>
  PROVE  OneOfEach'
BY DEF IInv, OneOfEach, OneReadLoop, OneWriter, OnePingLoop, ReadChain, WriteChain, PingChain, Release

\* The user is unstopped and listed as before, if it got none of its first
\* accepted handlers.
LEMMA ListedKept ==
  ASSUME IInv, queue' \in Seq(Handlers), UNCHANGED <<listed, stops>>,
         \/ read' \in {"header", "message"} \/ timer' \/ Count(AcceptedHandlers)' # 0 =>
              read \in {"header", "message"} \/ timer \/ Count(AcceptedHandlers) # 0
  PROVE  UnstoppedListed'
<1>1. Waiting(AcceptedHandlers) <=> Count(AcceptedHandlers) # 0
  BY WaitingCounted DEF IInv, OneOfEach, TypeOK
<1>2. Waiting(AcceptedHandlers)' <=> Count(AcceptedHandlers)' # 0
  BY HowManyType DEF Waiting, Count
<1> QED
  BY <1>1, <1>2 DEF IInv, UnstoppedListed, AcceptedHandlers

\* Completions, and the calls of other users' handlers.
LEMMA CompletionStep ==
  ASSUME IInv, Release, ReadDone \/ WriteDone \/ TimerExpires \/ OtherWrites
  PROVE  Inv'
<1>0. TypeOK /\ queue \in Seq(Handlers)
  BY DEF IInv, OneOfEach, TypeOK
<1>1. PICK h \in Handlers :
        /\ queue' = Append(queue, h)
        /\ \/ /\ ReadDone /\ h \in {read, error(read)}
           \/ /\ WriteDone /\ h \in WriteHandlers
           \/ /\ TimerExpires /\ h = "tick"
           \/ /\ OtherWrites /\ h = "posted"
  BY <1>0 DEF ReadDone, WriteDone, TimerExpires, OtherWrites, TypeOK, Handlers, ReadHandlers,
              WriteHandlers, error
<1>2. /\ queue' \in Seq(Handlers)
      /\ \A H : HowMany(queue', H) = HowMany(queue, H) + (IF h \in H THEN 1 ELSE 0)
      /\ Len(queue) \in Nat /\ Len(queue') = Len(queue) + 1
      /\ \A i \in 1..Len(queue') : queue'[i] = IF i <= Len(queue) THEN queue[i] ELSE h
  BY <1>0, <1>1, AppendCounted
<1>3. UNCHANGED <<open, backlog, listed, member, stops, retries, pong>>
  BY <1>1 DEF ReadDone, WriteDone, TimerExpires, OtherWrites, socket, ping, refs
<1>4. /\ HowMany(queue, ReadHandlers) \in Nat /\ HowMany(queue, WriteHandlers) \in Nat
      /\ HowMany(queue, {"tick"}) \in Nat
      /\ HowMany(queue', ReadHandlers) = HowMany(queue, ReadHandlers) + (IF h \in ReadHandlers THEN 1 ELSE 0)
      /\ HowMany(queue', WriteHandlers) = HowMany(queue, WriteHandlers) + (IF h \in WriteHandlers THEN 1 ELSE 0)
      /\ HowMany(queue', {"tick"}) = HowMany(queue, {"tick"}) + (IF h \in {"tick"} THEN 1 ELSE 0)
      /\ Count(AcceptedHandlers)' = Count(AcceptedHandlers) + (IF h \in AcceptedHandlers THEN 1 ELSE 0)
      /\ Count(AcceptedHandlers) \in Nat
  BY <1>0, <1>2, HowManyType DEF Count
<1>5. /\ TypeOK' /\ ReadChain' = ReadChain /\ WriteChain' = WriteChain /\ PingChain' = PingChain
      /\ UnstoppedListed' /\ NickFirst'
  <2>1. CASE ReadDone /\ h \in {read, error(read)}
    <3>1. /\ read # "none" /\ read' = "none" /\ h \in ReadHandlers
          /\ h \notin WriteHandlers /\ h \notin {"tick"}
          /\ UNCHANGED <<writing, timer>>
      BY <1>0, <2>1 DEF ReadDone, TypeOK, ReadHandlers, WriteHandlers, error, ping
    <3>2. TypeOK'
      BY <1>0, <1>2, <1>3, <3>1 DEF TypeOK, Release
    <3>3. ReadChain' = ReadChain /\ WriteChain' = WriteChain /\ PingChain' = PingChain
      BY <1>4, <3>1 DEF ReadChain, WriteChain, PingChain, Chain, Count
    <3>4. h \in AcceptedHandlers => read \in {"header", "message"}
      BY <1>0, <2>1, <3>1 DEF TypeOK, AcceptedHandlers, error
    <3>5. UnstoppedListed'
      BY <1>2, <1>3, <1>4, <3>1, <3>4, ListedKept
    <3>6. NickFirst'
      <4>1. CASE read = "nick"
        <5>1. /\ ~listed /\ ~member /\ ~timer /\ ~writing /\ backlog = 0
              /\ \A i \in 1..Len(queue) : queue[i] \in {"nick", "nick_error"}
          BY <4>1 DEF IInv, NickFirst
        <5>2. h \in {"nick", "nick_error"}
          BY <2>1, <4>1 DEF error
        <5> QED
          BY <1>2, <1>3, <3>1, <5>1, <5>2 DEF NickFirst
      <4>2. CASE read # "nick"
        <5>1. HowMany(queue, ReadHandlers) = 0
          BY <1>4, <3>1 DEF IInv, OneOfEach, OneReadLoop, Chain, Count
        <5>2. \A i \in 1..Len(queue) : queue[i] \notin {"nick", "nick_error"}
          BY <1>0, <5>1, HowManyType DEF ReadHandlers
        <5>3. h \notin {"nick", "nick_error"}
          BY <1>0, <2>1, <3>1, <4>2 DEF TypeOK, error
        <5> QED
          BY <1>2, <3>1, <5>2, <5>3 DEF NickFirst, Waiting
      <4> QED
        BY <4>1, <4>2
    <3> QED
      BY <3>2, <3>3, <3>5, <3>6
  <2>2. CASE WriteDone /\ h \in WriteHandlers
    <3>1. /\ writing /\ ~writing' /\ writing' = FALSE
          /\ h \notin ReadHandlers /\ h \notin {"tick"} /\ h \notin AcceptedHandlers
          /\ UNCHANGED <<read, timer>>
      BY <2>2 DEF WriteDone, ReadHandlers, WriteHandlers, AcceptedHandlers, ping
    <3>2. TypeOK'
      BY <1>0, <1>2, <1>3, <3>1 DEF TypeOK, Release
    <3>3. ReadChain' = ReadChain /\ WriteChain' = WriteChain /\ PingChain' = PingChain
      BY <1>4, <2>2, <3>1 DEF ReadChain, WriteChain, PingChain, Chain, Count
    <3>4. UnstoppedListed'
      BY <1>2, <1>3, <1>4, <3>1, ListedKept
    <3>5. NickFirst'
      BY <1>2, <2>2, <3>1 DEF IInv, NickFirst, Waiting, WriteHandlers
    <3> QED
      BY <3>2, <3>3, <3>4, <3>5
  <2>3. CASE TimerExpires /\ h = "tick"
    <3>1. /\ timer /\ ~timer' /\ timer' = FALSE
          /\ h \notin ReadHandlers /\ h \notin WriteHandlers
          /\ UNCHANGED <<read, writing>>
      BY <2>3 DEF TimerExpires, ReadHandlers, WriteHandlers, socket
    <3>2. TypeOK'
      BY <1>0, <1>2, <1>3, <3>1 DEF TypeOK, Release
    <3>3. ReadChain' = ReadChain /\ WriteChain' = WriteChain /\ PingChain' = PingChain
      BY <1>4, <2>3, <3>1 DEF ReadChain, WriteChain, PingChain, Chain, Count
    <3>4. UnstoppedListed'
      BY <1>2, <1>3, <3>1, ListedKept
    <3>5. NickFirst'
      BY <1>2, <2>3, <3>1 DEF IInv, NickFirst, Waiting
    <3> QED
      BY <3>2, <3>3, <3>4, <3>5
  <2>4. CASE OtherWrites /\ h = "posted"
    <3>1. /\ listed \/ member
          /\ h \notin ReadHandlers /\ h \notin WriteHandlers /\ h \notin {"tick"} /\ h \notin AcceptedHandlers
          /\ UNCHANGED <<read, writing, timer>>
      BY <2>4 DEF OtherWrites, ReadHandlers, WriteHandlers, AcceptedHandlers, socket, ping
    <3>2. TypeOK'
      BY <1>0, <1>2, <1>3, <3>1 DEF TypeOK, Release
    <3>3. ReadChain' = ReadChain /\ WriteChain' = WriteChain /\ PingChain' = PingChain
      BY <1>4, <3>1 DEF ReadChain, WriteChain, PingChain, Chain, Count
    <3>4. UnstoppedListed'
      BY <1>2, <1>3, <1>4, <3>1, ListedKept
    <3>5. NickFirst'
      BY <1>2, <2>4, <3>1 DEF IInv, NickFirst, Waiting
    <3> QED
      BY <3>2, <3>3, <3>4, <3>5
  <2> QED
    BY <1>1, <2>1, <2>2, <2>3, <2>4
<1>6. OneOfEach'
  BY <1>3, <1>5, LoopsKept
<1>7. h # "close"
  BY <1>0, <1>1 DEF TypeOK, WriteHandlers, error
<1>8. CloseBehindAnswer'
  BY <1>0, <1>1, <1>3, <1>7, AppendKeepsOrder DEF IInv
<1>9. PostedOutlived'
  <2>1. CASE h # "posted"
    <3>1. /\ Waiting({"posted"})' => Waiting({"posted"})
          /\ PostedBefore({"cancelled", "close"}) => PostedBefore({"cancelled", "close"})'
      BY <1>0, <1>1, <1>7, <2>1, AppendKeepsOrder
    <3> QED
      BY <1>3, <1>5, <3>1 DEF IInv, PostedOutlived, ReadChain, PingChain
  <2>2. CASE h = "posted"
    <3>1. listed \/ member
      BY <1>0, <1>1, <2>2 DEF OtherWrites, TypeOK, WriteHandlers, error
    <3>2. ReadChain' = 1
      BY <1>5, <3>1 DEF IInv, OneOfEach, OneReadLoop, ReadChain
    <3> QED
      BY <3>2 DEF PostedOutlived, ReadChain
  <2> QED
    BY <2>1, <2>2
<1> QED
  BY <1>5, <1>6, <1>8, <1>9 DEF Inv


\* What a read started on a closed socket queues, if the user is told something first
\* or not.
LEMMA FailedReadCounted ==
  ASSUME TypeOK
  PROVE  /\ FailedRead \in Seq(Handlers)
         /\ \A H : HowMany(FailedRead, H) = IF ~open /\ "read_error" \in H THEN 1 ELSE 0
         /\ <<"posted">> \o FailedRead \in Seq(Handlers)
         /\ \A H : HowMany(<<"posted">> \o FailedRead, H) =
              (IF "posted" \in H THEN 1 ELSE 0) + (IF ~open /\ "read_error" \in H THEN 1 ELSE 0)
<1>1. PICK closed \in BOOLEAN : closed <=> ~open
  OBVIOUS
<1>2. "read_error" \in Handlers /\ "posted" \in Handlers
  BY DEF Handlers, ReadHandlers
<1>3. /\ When(closed, "read_error") \in Seq(Handlers)
      /\ \A H : HowMany(When(closed, "read_error"), H) = IF closed /\ "read_error" \in H THEN 1 ELSE 0
  BY <1>2, WhenCounted
<1>4. FailedRead = When(closed, "read_error")
  BY <1>1 DEF FailedRead, When
<1>5. <<"posted">> \in Seq(Handlers) /\ \A H : HowMany(<<"posted">>, H) = IF "posted" \in H THEN 1 ELSE 0
  BY <1>2, HowManyOne
<1>6. /\ <<"posted">> \o FailedRead \in Seq(Handlers)
      /\ \A H : HowMany(<<"posted">> \o FailedRead, H) = HowMany(<<"posted">>, H) + HowMany(FailedRead, H)
  BY <1>3, <1>4, <1>5, ConcatCounted
<1> QED
  BY <1>1, <1>3, <1>4, <1>5, <1>6

\* A link of the read loop starts the next one.
LEMMA ReadsStep ==
  ASSUME IInv, Release, GoodHeader \/ Pong \/ Message
  PROVE  Inv'
<1>0. TypeOK /\ queue \in Seq(Handlers) /\ OneReadLoop /\ OneWriter /\ OnePingLoop
  BY DEF IInv, OneOfEach, TypeOK
<1>1. PICK h \in {"header", "message", "empty"}, posts \in {FailedRead, <<"posted">> \o FailedRead} :
        Take(h, posts)
  BY DEF GoodHeader, Pong, Message
<1>2. /\ UNCHANGED <<writing, open, backlog, timer, retries, listed, stops>>
      /\ member' \in BOOLEAN /\ pong' \in BOOLEAN
      /\ read' \in {"header", "message", "none"} /\ (read' = "none" <=> ~open)
  BY <1>0 DEF GoodHeader, Pong, Message, NextRead, refs, ping, TypeOK
<1>3. /\ posts \in Seq(Handlers)
      /\ \A H : "posted" \notin H =>
           HowMany(posts, H) = IF ~open /\ "read_error" \in H THEN 1 ELSE 0
  <2>1. CASE posts = FailedRead
    BY <1>0, <2>1, FailedReadCounted
  <2>2. CASE posts = <<"posted">> \o FailedRead
    BY <1>0, <2>2, FailedReadCounted
  <2> QED
    BY <1>1, <2>1, <2>2
<1>4. /\ HowMany(posts, ReadHandlers) = IF open THEN 0 ELSE 1
      /\ HowMany(posts, WriteHandlers) = 0 /\ HowMany(posts, {"tick"}) = 0
      /\ HowMany(posts, NickHandlers) = 0 /\ HowMany(posts, {"close"}) = 0
  BY <1>3 DEF ReadHandlers, WriteHandlers, NickHandlers
<1>5. /\ queue' \in Seq(Handlers) /\ h \in Handlers
      /\ Moved(ReadHandlers, h, posts) /\ Moved(WriteHandlers, h, posts) /\ Moved({"tick"}, h, posts)
      /\ Moved(AcceptedHandlers, h, posts)
  BY <1>0, <1>1, <1>3, TakenMoves DEF Handlers, ReadHandlers
<1>6. TypeOK'
  BY <1>0, <1>2, <1>5 DEF TypeOK, Release
<1>7. /\ h \in ReadHandlers /\ h \notin WriteHandlers /\ h \notin {"tick"} /\ h \in AcceptedHandlers
      /\ h # "posted"
  BY DEF ReadHandlers, WriteHandlers, AcceptedHandlers
<1>8. ReadChain' = 1 /\ WriteChain' = WriteChain /\ PingChain' = PingChain
  BY <1>0, <1>2, <1>4, <1>5, <1>7
     DEF ReadChain, WriteChain, PingChain, Chain, Moved, OneReadLoop, OneWriter, OnePingLoop
<1>9. OneOfEach'
  BY <1>0, <1>2, <1>6, <1>8
     DEF OneOfEach, OneReadLoop, OneWriter, OnePingLoop, ReadChain, WriteChain, PingChain, Release, TypeOK
<1>10. NickFirst'
  BY <1>1, <1>2, <1>3, <1>4, <1>5, NickFirstTaken
<1>11. UnstoppedListed'
  BY <1>2, <1>5, <1>7, ListedKept DEF Moved
<1>12. PostedOutlived'
  BY <1>8 DEF PostedOutlived, ReadChain
<1>13. CloseBehindAnswer'
  BY <1>1, <1>2, <1>3, <1>4, <1>7, CloseTaken
<1> QED
  BY <1>9, <1>10, <1>11, <1>12, <1>13 DEF Inv

\* do_accept's handler takes the user in: the three chains start.
LEMMA AcceptedStep ==
  ASSUME IInv, Release, NickAccepted
  PROVE  Inv'
<1> DEFINE posts == <<"posted", "posted">>
<1>0. TypeOK /\ queue \in Seq(Handlers) /\ OneReadLoop /\ OneWriter /\ OnePingLoop
  BY DEF IInv, OneOfEach, TypeOK
<1>1. /\ Take("nick", posts)
      /\ listed' = TRUE /\ timer' = TRUE /\ read' = "header"
      /\ UNCHANGED <<writing, open, backlog, retries, pong, member, stops>>
  BY DEF NickAccepted
<1>2. "nick" \in Handlers /\ "posted" \in Handlers
  BY DEF Handlers, ReadHandlers
<1>3. posts \in Seq(Handlers) /\ \A H : "posted" \notin H => HowMany(posts, H) = 0
  <2>1. posts = <<"posted">> \o <<"posted">> /\ <<"posted">> \in Seq(Handlers)
    BY <1>2
  <2>2. \A H : HowMany(<<"posted">>, H) = IF "posted" \in H THEN 1 ELSE 0
    BY HowManyOne
  <2>3. /\ <<"posted">> \o <<"posted">> \in Seq(Handlers)
        /\ \A H : HowMany(<<"posted">> \o <<"posted">>, H) = HowMany(<<"posted">>, H) + HowMany(<<"posted">>, H)
    BY <2>1, ConcatCounted
  <2> HIDE DEF posts
  <2> QED
    BY <2>1, <2>2, <2>3
<1> HIDE DEF posts
<1>4. /\ HowMany(posts, ReadHandlers) = 0 /\ HowMany(posts, WriteHandlers) = 0
      /\ HowMany(posts, {"tick"}) = 0 /\ HowMany(posts, NickHandlers) = 0
      /\ HowMany(posts, {"close"}) = 0
  BY <1>3 DEF ReadHandlers, WriteHandlers, NickHandlers
<1>5. /\ queue' \in Seq(Handlers)
      /\ Moved(ReadHandlers, "nick", posts) /\ Moved(WriteHandlers, "nick", posts)
      /\ Moved({"tick"}, "nick", posts)
  BY <1>0, <1>1, <1>3, TakenMoves
<1>6. TypeOK'
  BY <1>0, <1>1, <1>5 DEF TypeOK, Release
<1>7. /\ "nick" \in ReadHandlers /\ "nick" \notin WriteHandlers /\ "nick" \in NickHandlers
  BY DEF ReadHandlers, WriteHandlers, NickHandlers
<1>8. /\ ~timer /\ read = "none" /\ Count(ReadHandlers) = 1 /\ Count({"tick"}) = 0
  BY <1>1, <1>2, <1>3, <1>7, NickTaken
<1>9. ReadChain' = 1 /\ WriteChain' = WriteChain /\ PingChain' = 1
  BY <1>1, <1>4, <1>5, <1>7, <1>8 DEF ReadChain, WriteChain, PingChain, Chain, Moved
<1>10. OneOfEach'
  <2>1. OneReadLoop' /\ OnePingLoop'
    BY <1>9 DEF OneReadLoop, OnePingLoop, ReadChain, PingChain
  <2>2. OneWriter'
    BY <1>0, <1>1, <1>9 DEF OneWriter, WriteChain, Release
  <2> QED
    BY <1>6, <2>1, <2>2 DEF OneOfEach
<1>11. NickFirst'
  BY <1>1, <1>2, <1>3, <1>4, NickFirstTaken
<1>12. UnstoppedListed'
  BY <1>1 DEF UnstoppedListed
<1>13. PostedOutlived'
  BY <1>9 DEF PostedOutlived, ReadChain
<1>14. CloseBehindAnswer'
  BY <1>1, <1>3, <1>4, <1>7, CloseTaken
<1> QED
  BY <1>10, <1>11, <1>12, <1>13, <1>14 DEF Inv

\* do_accept's handler refuses the user: the answer, and behind it the close.
LEMMA RefusedStep ==
  ASSUME IInv, Release, NickRefused
  PROVE  Inv'
<1> DEFINE posts == <<"posted", "close">>
<1>0. TypeOK /\ queue \in Seq(Handlers) /\ OneReadLoop /\ OneWriter /\ OnePingLoop
  BY DEF IInv, OneOfEach, TypeOK
<1>1. /\ Take("nick", posts)
      /\ UNCHANGED <<read, writing, open, backlog, timer, retries, pong, listed, member, stops>>
  BY DEF NickRefused, socket, ping, refs
<1>2. "nick" \in Handlers /\ "posted" \in Handlers /\ "close" \in Handlers
  BY DEF Handlers, ReadHandlers
<1>3. posts \in Seq(Handlers) /\ \A H : "posted" \notin H /\ "close" \notin H => HowMany(posts, H) = 0
  <2>0. <<"posted">> \in Seq(Handlers) /\ <<"close">> \in Seq(Handlers)
    BY <1>2
  <2>1. PICK a \in Seq(Handlers) : a = <<"posted">>
    BY <2>0
  <2>2. PICK b \in Seq(Handlers) : b = <<"close">>
    BY <2>0
  <2>3. posts = a \o b
    BY <2>1, <2>2
  <2>4. \A H : HowMany(a, H) = (IF "posted" \in H THEN 1 ELSE 0) /\ HowMany(b, H) = IF "close" \in H THEN 1 ELSE 0
    BY <2>1, <2>2, HowManyOne
  <2>5. a \o b \in Seq(Handlers) /\ \A H : HowMany(a \o b, H) = HowMany(a, H) + HowMany(b, H)
    BY ConcatCounted
  <2> HIDE DEF posts
  <2> QED
    BY <2>3, <2>4, <2>5
<1>4. /\ HowMany(posts, ReadHandlers) = 0 /\ HowMany(posts, WriteHandlers) = 0
      /\ HowMany(posts, {"tick"}) = 0 /\ HowMany(posts, NickHandlers) = 0
      /\ HowMany(posts, AcceptedHandlers) = 0
  BY <1>3 DEF ReadHandlers, WriteHandlers, NickHandlers, AcceptedHandlers
<1>5. /\ queue' \in Seq(Handlers)
      /\ Moved(ReadHandlers, "nick", posts) /\ Moved(WriteHandlers, "nick", posts)
      /\ Moved({"tick"}, "nick", posts) /\ Moved(AcceptedHandlers, "nick", posts)
  BY <1>0, <1>1, <1>3, TakenMoves
<1>6. TypeOK'
  BY <1>0, <1>1, <1>5 DEF TypeOK, Release
<1>7. /\ "nick" \in ReadHandlers /\ "nick" \notin WriteHandlers /\ "nick" \in NickHandlers
      /\ "nick" \notin AcceptedHandlers
  BY DEF ReadHandlers, WriteHandlers, NickHandlers, AcceptedHandlers
<1>8. /\ ~listed /\ ~member /\ ~timer /\ ~writing /\ backlog = 0 /\ read = "none"
      /\ Count(ReadHandlers) = 1 /\ Count(WriteHandlers) = 0 /\ Count({"tick"}) = 0
      /\ Count(AcceptedHandlers) = 0 /\ Count(NickHandlers) = 1
  BY <1>1, <1>2, <1>3, <1>7, NickTaken
<1>9. ReadChain' = 0 /\ WriteChain' = 0 /\ PingChain' = 0 /\ Count(AcceptedHandlers)' = 0
  BY <1>1, <1>4, <1>5, <1>7, <1>8 DEF ReadChain, WriteChain, PingChain, Chain, Moved
<1>10. OneOfEach'
  BY <1>0, <1>1, <1>6, <1>8, <1>9
     DEF OneOfEach, OneReadLoop, OneWriter, OnePingLoop, ReadChain, WriteChain, PingChain
<1>11. NickFirst'
  BY <1>1, <1>2, <1>3, <1>4, <1>8, NickFirstTaken
<1>12. UnstoppedListed'
  BY <1>1, <1>5, <1>8, <1>9, ListedKept
<1>13. Len(queue) = 1 /\ Len(queue') = 2 /\ queue'[1] = "posted" /\ queue'[2] = "close"
  <2>1. /\ Len(queue) \in Nat \ {0}
        /\ Len(queue') = Len(queue) - 1 + Len(posts)
        /\ \A i \in 1..Len(queue') :
             queue'[i] = IF i < Len(queue) THEN queue[i + 1] ELSE posts[i - Len(queue) + 1]
    BY <1>0, <1>1, <1>3, TakeCounted
  <2>2. \A i \in 1..Len(queue) : queue[i] \in NickHandlers
    <3>1. Waiting(NickHandlers)
      BY <1>0, <1>8, WaitingCounted
    <3> QED
      BY <3>1 DEF IInv, NickFirst, NickHandlers
  <2>3. Len(queue) = 1
    <3>1. Positions(queue, NickHandlers) = 1..Len(queue)
      BY <2>2 DEF Positions
    <3>2. Cardinality(1..Len(queue)) = Len(queue)
      <4>1. 1 \in Int /\ Len(queue) \in Int /\ Len(queue) >= 1
        BY <2>1
      <4> QED
        BY <4>1, FS_Interval
    <3> QED
      BY <1>8, <3>1, <3>2 DEF Count, HowMany
  <2> QED
    BY <2>1, <2>3
<1>14. PostedOutlived'
  <2>1. PostedBefore({"cancelled", "close"})'
    BY <1>13 DEF PostedBefore
  <2> QED
    BY <2>1 DEF PostedOutlived
<1>15. CloseBehindAnswer'
  <2> SUFFICES ASSUME NEW j \in 1..Len(queue'), queue'[j] = "close"
               PROVE  /\ \A i \in 1..j - 1 : queue'[i] \notin WriteHandlers
                      /\ backlog' > 0 \/ \E i \in 1..j - 1 : queue'[i] = "posted"
    BY DEF CloseBehindAnswer
  <2>1. j = 2 /\ 1..j - 1 = {1}
    BY <1>13
  <2> QED
    BY <1>13, <2>1 DEF WriteHandlers
<1> QED
  BY <1>10, <1>11, <1>12, <1>14, <1>15 DEF Inv

\* close_socket: what was outstanding fails, and nobody is listed any more or less.
LEMMA ClosesStep ==
  ASSUME IInv, Release, NickClose \/ PingTimeout
  PROVE  Inv'
<1>0. TypeOK /\ queue \in Seq(Handlers) /\ OneReadLoop /\ OneWriter /\ OnePingLoop
  BY DEF IInv, OneOfEach, TypeOK
<1>1. PICK h \in {"close", "nick_error", "tick"}, posts \in {ClosePosts, When(member, "posted") \o ClosePosts} :
        Take(h, posts)
  BY DEF NickClose, PingTimeout
<1>2. /\ open' = FALSE /\ read' = "none" /\ writing' = FALSE
      /\ UNCHANGED <<backlog, timer, retries, pong, listed, stops>>
      /\ member' = FALSE \/ member' = member
  BY <1>0 DEF NickClose, PingTimeout, close_socket, ping, refs, TypeOK
<1>3. /\ posts \in Seq(Handlers)
      /\ \A H : "posted" \notin H =>
           HowMany(posts, H) = (IF read # "none" /\ error(read) \in H THEN 1 ELSE 0)
                             + (IF writing /\ "write_error" \in H THEN 1 ELSE 0)
  <2>1. CASE posts = ClosePosts
    BY <1>0, <2>1, ClosePostsCounted
  <2>2. CASE posts = When(member, "posted") \o ClosePosts
    <3>1. "posted" \in Handlers /\ member \in BOOLEAN
      BY <1>0 DEF Handlers, TypeOK
    <3>2. /\ When(member, "posted") \in Seq(Handlers)
          /\ \A H : HowMany(When(member, "posted"), H) = IF member /\ "posted" \in H THEN 1 ELSE 0
      BY <3>1, WhenCounted
    <3>3. /\ ClosePosts \in Seq(Handlers)
          /\ \A H : HowMany(ClosePosts, H) = (IF read # "none" /\ error(read) \in H THEN 1 ELSE 0)
                                           + (IF writing /\ "write_error" \in H THEN 1 ELSE 0)
      BY <1>0, ClosePostsCounted
    <3>4. /\ posts \in Seq(Handlers)
          /\ \A H : HowMany(posts, H) = HowMany(When(member, "posted"), H) + HowMany(ClosePosts, H)
      BY <2>2, <3>2, <3>3, ConcatCounted
    <3> QED
      BY <3>2, <3>3, <3>4
  <2> QED
    BY <1>1, <2>1, <2>2
<1>4. h \in Handlers /\ h # "posted" /\ h \notin WriteHandlers /\ h \in {"close", "nick_error", "tick"}
  BY DEF Handlers, ReadHandlers, WriteHandlers
<1>5. read # "nick"
  BY <1>1, <1>3, <1>4, NickTaken
<1>6. read # "none" => error(read) = "read_error"
  BY <1>5 DEF error
<1>7. /\ HowMany(posts, ReadHandlers) = IF read # "none" THEN 1 ELSE 0
      /\ HowMany(posts, WriteHandlers) = IF writing THEN 1 ELSE 0
      /\ HowMany(posts, {"tick"}) = 0 /\ HowMany(posts, NickHandlers) = 0
      /\ HowMany(posts, AcceptedHandlers) = IF read # "none" THEN 1 ELSE 0
      /\ HowMany(posts, {"close"}) = 0
  <2>1. /\ HowMany(posts, ReadHandlers) = (IF read # "none" /\ error(read) \in ReadHandlers THEN 1 ELSE 0)
                                        + (IF writing /\ "write_error" \in ReadHandlers THEN 1 ELSE 0)
        /\ HowMany(posts, WriteHandlers) = (IF read # "none" /\ error(read) \in WriteHandlers THEN 1 ELSE 0)
                                         + (IF writing /\ "write_error" \in WriteHandlers THEN 1 ELSE 0)
    BY <1>3 DEF ReadHandlers, WriteHandlers
  <2>2. /\ HowMany(posts, {"tick"}) = (IF read # "none" /\ error(read) \in {"tick"} THEN 1 ELSE 0)
                                    + (IF writing /\ "write_error" \in {"tick"} THEN 1 ELSE 0)
        /\ HowMany(posts, NickHandlers) = (IF read # "none" /\ error(read) \in NickHandlers THEN 1 ELSE 0)
                                        + (IF writing /\ "write_error" \in NickHandlers THEN 1 ELSE 0)
    BY <1>3 DEF NickHandlers
  <2>3. /\ HowMany(posts, AcceptedHandlers) = (IF read # "none" /\ error(read) \in AcceptedHandlers THEN 1 ELSE 0)
                                            + (IF writing /\ "write_error" \in AcceptedHandlers THEN 1 ELSE 0)
        /\ HowMany(posts, {"close"}) = (IF read # "none" /\ error(read) \in {"close"} THEN 1 ELSE 0)
                                     + (IF writing /\ "write_error" \in {"close"} THEN 1 ELSE 0)
    BY <1>3 DEF AcceptedHandlers
  <2>4. /\ "read_error" \in ReadHandlers /\ "read_error" \notin WriteHandlers /\ "read_error" \notin NickHandlers
        /\ "read_error" \in AcceptedHandlers
        /\ "write_error" \notin ReadHandlers /\ "write_error" \in WriteHandlers
        /\ "write_error" \notin NickHandlers /\ "write_error" \notin AcceptedHandlers
    BY DEF ReadHandlers, WriteHandlers, NickHandlers, AcceptedHandlers
  <2> QED
    BY <1>6, <2>1, <2>2, <2>3, <2>4
<1>8. /\ queue' \in Seq(Handlers)
      /\ Moved(ReadHandlers, h, posts) /\ Moved(WriteHandlers, h, posts) /\ Moved({"tick"}, h, posts)
      /\ Moved(AcceptedHandlers, h, posts)
  BY <1>0, <1>1, <1>3, TakenMoves
<1>9. TypeOK'
  BY <1>0, <1>2, <1>8 DEF TypeOK, Release
<1>10. h = "nick_error" => ~listed /\ ~member
  BY <1>1, <1>3, <1>4, NickTaken DEF NickHandlers
<1>11. /\ ReadChain' = ReadChain - (IF h = "nick_error" THEN 1 ELSE 0)
       /\ WriteChain' = WriteChain /\ PingChain' = PingChain - (IF h = "tick" THEN 1 ELSE 0)
       /\ ReadChain \in Nat /\ PingChain \in Nat /\ ReadChain' \in Nat
  <2>1. h \notin WriteHandlers /\ (h \in ReadHandlers <=> h = "nick_error") /\ (h \in {"tick"} <=> h = "tick")
    BY DEF ReadHandlers, WriteHandlers
  <2>2. /\ Count(ReadHandlers) \in Nat
        /\ Count(ReadHandlers)' = Count(ReadHandlers) - (IF h = "nick_error" THEN 1 ELSE 0) + (IF read # "none" THEN 1 ELSE 0)
        /\ h = "nick_error" => Count(ReadHandlers) >= 1
    BY <1>7, <1>8, <2>1 DEF Moved
  <2>3. /\ Count(WriteHandlers) \in Nat
        /\ Count(WriteHandlers)' = Count(WriteHandlers) + (IF writing THEN 1 ELSE 0)
    BY <1>7, <1>8, <2>1 DEF Moved
  <2>4. /\ Count({"tick"}) \in Nat
        /\ Count({"tick"})' = Count({"tick"}) - (IF h = "tick" THEN 1 ELSE 0)
    BY <1>7, <1>8, <2>1 DEF Moved
  <2>5. /\ ReadChain' = ReadChain - (IF h = "nick_error" THEN 1 ELSE 0)
        /\ ReadChain \in Nat /\ ReadChain' \in Nat
    BY <1>2, <1>4, <2>2 DEF ReadChain, Chain
  <2>6. WriteChain' = WriteChain
    BY <1>2, <1>4, <2>3 DEF WriteChain, Chain
  <2>7. PingChain' = PingChain - (IF h = "tick" THEN 1 ELSE 0) /\ PingChain \in Nat
    BY <1>2, <1>4, <2>4 DEF PingChain, Chain
  <2> QED
    BY <2>5, <2>6, <2>7
<1>12. OneOfEach'
  BY <1>0, <1>2, <1>9, <1>10, <1>11
     DEF OneOfEach, OneReadLoop, OneWriter, OnePingLoop, ReadChain, WriteChain, PingChain, Release, TypeOK
<1>13. NickFirst'
  BY <1>1, <1>2, <1>3, <1>4, <1>7, NickFirstTaken
<1>14. UnstoppedListed'
  <2>1. read # "none" => read \in {"header", "message"}
    BY <1>0, <1>5 DEF TypeOK
  <2> QED
    BY <1>2, <1>7, <1>8, <2>1, ListedKept DEF Moved
<1>15. PostedOutlived'
  BY <1>2 DEF PostedOutlived
<1>16. CloseBehindAnswer'
  BY <1>1, <1>2, <1>3, <1>4, <1>7, CloseTaken
<1> QED
  BY <1>12, <1>13, <1>14, <1>15, <1>16 DEF Inv

\* The timer is started again.
LEMMA TicksStep ==
  ASSUME IInv, Release, Answered \/ Retry
  PROVE  Inv'
<1> DEFINE posts == <<"posted">>
<1>0. TypeOK /\ queue \in Seq(Handlers) /\ OneReadLoop /\ OneWriter /\ OnePingLoop
  BY DEF IInv, OneOfEach, TypeOK
<1>1. Take("tick", posts)
  BY DEF Answered, Retry
<1>2. /\ timer' = TRUE /\ UNCHANGED <<read, writing, open, backlog, listed, member, stops>>
      /\ retries' \in 0..ping_retry_max
  BY <1>0, BoundsAssumption DEF Answered, Retry, socket, refs, TypeOK
<1>3. pong' \in BOOLEAN
  BY <1>0 DEF Answered, Retry, TypeOK
<1>4. /\ "tick" \in Handlers /\ "posted" \in Handlers
      /\ "tick" \notin ReadHandlers /\ "tick" \notin WriteHandlers /\ "tick" \in AcceptedHandlers
  BY DEF Handlers, ReadHandlers, WriteHandlers, AcceptedHandlers
<1>5. posts \in Seq(Handlers) /\ \A H : "posted" \notin H => HowMany(posts, H) = 0
  BY <1>4, HowManyOne
<1> HIDE DEF posts
<1>6. /\ HowMany(posts, ReadHandlers) = 0 /\ HowMany(posts, WriteHandlers) = 0
      /\ HowMany(posts, {"tick"}) = 0 /\ HowMany(posts, NickHandlers) = 0
      /\ HowMany(posts, {"close"}) = 0
  BY <1>5 DEF ReadHandlers, WriteHandlers, NickHandlers
<1>7. /\ queue' \in Seq(Handlers)
      /\ Moved(ReadHandlers, "tick", posts) /\ Moved(WriteHandlers, "tick", posts)
      /\ Moved({"tick"}, "tick", posts) /\ Moved(AcceptedHandlers, "tick", posts)
  BY <1>0, <1>1, <1>5, TakenMoves
<1>8. TypeOK'
  BY <1>0, <1>2, <1>3, <1>7 DEF TypeOK, Release
<1>9. ReadChain' = ReadChain /\ WriteChain' = WriteChain /\ PingChain' = 1
  BY <1>0, <1>2, <1>4, <1>6, <1>7
     DEF ReadChain, WriteChain, PingChain, Chain, Moved, OnePingLoop
<1>10. OneOfEach'
  <2>1. OneReadLoop' /\ OnePingLoop'
    <3>1. (listed \/ member)' <=> listed \/ member
      BY <1>2
    <3> QED
      BY <1>0, <1>9, <3>1 DEF OneReadLoop, OnePingLoop, ReadChain, PingChain
  <2>2. OneWriter'
    BY <1>0, <1>2, <1>9 DEF OneWriter, WriteChain, Release
  <2> QED
    BY <1>8, <2>1, <2>2 DEF OneOfEach
<1>11. NickFirst'
  <2>1. read # "nick"
    BY <1>1, <1>4, <1>5, NickTaken
  <2> QED
    BY <1>1, <1>2, <1>4, <1>5, <1>6, <2>1, NickFirstTaken
<1>12. UnstoppedListed'
  BY <1>2, <1>4, <1>7, ListedKept DEF Moved
<1>13. PostedOutlived'
  BY <1>9 DEF PostedOutlived, PingChain
<1>14. CloseBehindAnswer'
  BY <1>1, <1>2, <1>4, <1>5, <1>6, CloseTaken
<1> QED
  BY <1>10, <1>11, <1>12, <1>13, <1>14 DEF Inv

\* A handler that is no link of the read loop and the ping loop, and queues at most
\* the end of a write.
LEMMA PassingStep ==
  ASSUME IInv, Release, NEW h \in {"posted", "wrote", "cancelled"}, NEW posts \in Seq(Handlers), Take(h, posts),
         \A H : "write_error" \notin H => HowMany(posts, H) = 0,
         UNCHANGED <<read, open, timer, retries, pong, listed, member, stops>>,
         backlog' \in Nat, writing' \in BOOLEAN,
         OneWriter', CloseBehindAnswer'
  PROVE  Inv'
<1>0. TypeOK /\ queue \in Seq(Handlers) /\ OneReadLoop /\ OnePingLoop
  BY DEF IInv, OneOfEach, TypeOK
<1>1. h \in Handlers /\ h \notin ReadHandlers /\ h \notin {"tick"} /\ h \notin NickHandlers
  BY DEF Handlers, ReadHandlers, WriteHandlers, NickHandlers
<1>2. /\ HowMany(posts, ReadHandlers) = 0 /\ HowMany(posts, {"tick"}) = 0
      /\ HowMany(posts, NickHandlers) = 0 /\ HowMany(posts, AcceptedHandlers) = 0
      /\ HowMany(posts, {"posted"}) = 0
  BY DEF ReadHandlers, NickHandlers, AcceptedHandlers
<1>3. /\ queue' \in Seq(Handlers)
      /\ Moved(ReadHandlers, h, posts) /\ Moved({"tick"}, h, posts)
      /\ Moved(AcceptedHandlers, h, posts) /\ Moved({"posted"}, h, posts)
  BY <1>0, TakenMoves
<1>4. TypeOK'
  BY <1>0, <1>3 DEF TypeOK, Release
<1>5. ReadChain' = ReadChain /\ PingChain' = PingChain
  BY <1>0, <1>1, <1>2, <1>3 DEF ReadChain, PingChain, Chain, Moved
<1>6. OneOfEach'
  BY <1>0, <1>4, <1>5 DEF OneOfEach, OneReadLoop, OnePingLoop, ReadChain, PingChain
<1>7. read' # "nick"
  BY <1>1, NickTaken
<1>8. NickFirst'
  BY <1>1, <1>2, <1>7, NickFirstTaken
<1>9. UnstoppedListed'
  BY <1>2, <1>3, ListedKept DEF Moved
<1>10. PostedOutlived'
  <2>1. Waiting({"posted"})' => Waiting({"posted"})
    <3>1. Count({"posted"})' # 0 => Count({"posted"}) # 0
      BY <1>2, <1>3 DEF Moved
    <3>2. Waiting({"posted"})' <=> Count({"posted"})' # 0
      BY <1>3, HowManyType DEF Waiting, Count
    <3>3. Waiting({"posted"}) <=> Count({"posted"}) # 0
      BY <1>0, WaitingCounted
    <3> QED
      BY <3>1, <3>2, <3>3
  <2>2. PostedBefore({"cancelled", "close"}) => PostedBefore({"cancelled", "close"})' \/ ~Waiting({"posted"})'
    BY <1>0, <1>2, PostedBeforeTaken
  <2> QED
    BY <1>5, <2>1, <2>2 DEF IInv, PostedOutlived, ReadChain, PingChain
<1> QED
  BY <1>6, <1>8, <1>9, <1>10 DEF Inv

\* A write started on a closed socket ends at once.
LEMMA FailedWriteCounted ==
  ASSUME NEW cond
  PROVE  /\ When(cond, "write_error") \in Seq(Handlers)
         /\ \A H : HowMany(When(cond, "write_error"), H) = IF cond /\ "write_error" \in H THEN 1 ELSE 0
<1>1. PICK c \in BOOLEAN : c <=> cond
  OBVIOUS
<1>2. "write_error" \in Handlers
  BY DEF Handlers, WriteHandlers
<1>3. /\ When(c, "write_error") \in Seq(Handlers)
      /\ \A H : HowMany(When(c, "write_error"), H) = IF c /\ "write_error" \in H THEN 1 ELSE 0
  BY <1>2, WhenCounted
<1>4. When(cond, "write_error") = When(c, "write_error")
  BY <1>1 DEF When
<1> QED
  BY <1>1, <1>3, <1>4

\* The function posted by write() runs.
LEMMA PostedStep ==
  ASSUME IInv, Release, Posted
  PROVE  Inv'
<1>0. TypeOK /\ queue \in Seq(Handlers) /\ OneWriter /\ backlog \in Nat
  BY DEF IInv, OneOfEach, TypeOK
<1>1. PICK posts : posts = When(backlog = 0 /\ ~open, "write_error")
  OBVIOUS
<1>2. /\ Take("posted", posts)
      /\ backlog' = backlog + 1 /\ writing' = (writing \/ (backlog = 0 /\ open))
      /\ UNCHANGED <<read, open, timer, retries, pong, listed, member, stops>>
  BY <1>1 DEF Posted, ping, refs
<1>3. /\ posts \in Seq(Handlers)
      /\ \A H : HowMany(posts, H) = IF backlog = 0 /\ ~open /\ "write_error" \in H THEN 1 ELSE 0
  BY <1>1, FailedWriteCounted
<1>4. HowMany(posts, WriteHandlers) = IF backlog = 0 /\ ~open THEN 1 ELSE 0
  BY <1>3 DEF WriteHandlers
<1>5. Moved(WriteHandlers, "posted", posts) /\ "posted" \notin WriteHandlers
  BY <1>0, <1>2, <1>3, TakenMoves DEF WriteHandlers
<1>6. OneWriter'
  <2>1. CASE backlog = 0
    <3>1. ~writing /\ Count(WriteHandlers) = 0
      BY <1>0, <1>5, <2>1 DEF OneWriter, Chain, Moved
    <3>2. Count(WriteHandlers)' = IF ~open THEN 1 ELSE 0
      BY <1>4, <1>5, <2>1, <3>1 DEF Moved
    <3>3. Chain(writing, WriteHandlers)' = 1
      <4>1. writing' <=> open
        BY <1>2, <2>1, <3>1
      <4> QED
        BY <3>2, <4>1 DEF Chain
    <3> QED
      BY <1>0, <1>2, <3>3 DEF OneWriter
  <2>2. CASE backlog # 0
    <3>1. Count(WriteHandlers)' = Count(WriteHandlers)
      BY <1>4, <1>5, <2>2 DEF Moved
    <3>2. writing' <=> writing
      BY <1>2, <2>2
    <3>3. Chain(writing, WriteHandlers)' = Chain(writing, WriteHandlers)
      BY <3>1, <3>2 DEF Chain
    <3>4. stops' = stops /\ backlog > 0 /\ backlog' > 0
      BY <1>0, <1>2, <2>2
    <3>5. ~freed' => ~freed
      BY DEF Release
    <3> QED
      BY <1>0, <3>3, <3>4, <3>5 DEF OneWriter
  <2> QED
    BY <2>1, <2>2
<1>7. CloseBehindAnswer'
  <2>1. HowMany(posts, {"close"}) = 0
    BY <1>3
  <2>2. backlog' > 0
    BY <1>0, <1>2
  <2> QED
    BY <1>2, <1>3, <2>1, <2>2, CloseTaken
<1>8. backlog' \in Nat /\ writing' \in BOOLEAN
  BY <1>0, <1>2 DEF TypeOK
<1>9. \A H : "write_error" \notin H => HowMany(posts, H) = 0
  BY <1>3
<1> QED
  BY <1>2, <1>3, <1>6, <1>7, <1>8, <1>9, PassingStep

\* On a deleted object only functions posted by write() wait.
LEMMA PostedFreedStep ==
  ASSUME IInv, Release, PostedFreed
  PROVE  Inv'
<1> DEFINE posts == <<>>
<1>0. TypeOK /\ queue \in Seq(Handlers) /\ OneWriter /\ FreedIsLoose
  BY DEF IInv, OneOfEach, TypeOK
<1>1. /\ freed /\ Take("posted", posts)
      /\ UNCHANGED <<read, writing, open, backlog, timer, retries, pong, listed, member, stops>>
  BY DEF PostedFreed, socket, ping, refs
<1>2. posts \in Seq(Handlers) /\ \A H : HowMany(posts, H) = 0
  BY HowManyEmpty
<1> HIDE DEF posts
<1>3. Moved(WriteHandlers, "posted", posts) /\ "posted" \notin WriteHandlers
  BY <1>0, <1>1, <1>2, TakenMoves DEF WriteHandlers
<1>4. OneWriter'
  <2>1. Chain(writing, WriteHandlers)' = Chain(writing, WriteHandlers)
    BY <1>1, <1>2, <1>3 DEF Chain, Moved
  <2> QED
    BY <1>0, <1>1, <2>1 DEF OneWriter, Release
<1>5. CloseBehindAnswer'
  <2>1. \A i \in 1..Len(queue) : queue[i] # "close"
    BY <1>0, <1>1 DEF FreedIsLoose, Held, Waiting, Handlers
  <2>2. HowMany(queue, {"close"}) = 0
    BY <1>0, <2>1, HowManyType
  <2>3. queue' \in Seq(Handlers) /\ HowMany(queue', {"close"}) = 0
    <3>1. /\ queue' \in Seq(Handlers)
          /\ HowMany(queue', {"close"}) =
               HowMany(queue, {"close"}) - (IF "posted" \in {"close"} THEN 1 ELSE 0) + HowMany(posts, {"close"})
      BY <1>0, <1>1, <1>2, TakeCounted
    <3> QED
      BY <1>2, <2>2, <3>1
  <2> QED
    BY <2>3, HowManyType DEF CloseBehindAnswer
<1>6. backlog' \in Nat /\ writing' \in BOOLEAN
  BY <1>0, <1>1 DEF TypeOK
<1> QED
  BY <1>1, <1>2, <1>4, <1>5, <1>6, PassingStep

\* A write has ended: the next message is started.
LEMMA WroteStep ==
  ASSUME IInv, Release, Wrote
  PROVE  Inv'
<1>0. TypeOK /\ queue \in Seq(Handlers) /\ OneWriter /\ backlog \in Nat
  BY DEF IInv, OneOfEach, TypeOK
<1>1. PICK posts : posts = When(backlog > 1 /\ ~open, "write_error")
  OBVIOUS
<1>2. /\ Take("wrote", posts)
      /\ backlog' = backlog - 1 /\ writing' = (backlog > 1 /\ open)
      /\ UNCHANGED <<read, open, timer, retries, pong, listed, member, stops>>
  BY <1>1 DEF Wrote, ping, refs
<1>3. /\ posts \in Seq(Handlers)
      /\ \A H : HowMany(posts, H) = IF backlog > 1 /\ ~open /\ "write_error" \in H THEN 1 ELSE 0
  BY <1>1, FailedWriteCounted
<1>4. HowMany(posts, WriteHandlers) = IF backlog > 1 /\ ~open THEN 1 ELSE 0
  BY <1>3 DEF WriteHandlers
<1>5. Moved(WriteHandlers, "wrote", posts) /\ "wrote" \in WriteHandlers
  BY <1>0, <1>2, <1>3, TakenMoves DEF WriteHandlers
<1>6. ~writing /\ backlog > 0 /\ Count(WriteHandlers) = 1
  BY <1>0, <1>5 DEF OneWriter, Chain, Moved
<1>7. Chain(writing, WriteHandlers)' = IF backlog > 1 THEN 1 ELSE 0
  <2>1. Count(WriteHandlers)' = IF backlog > 1 /\ ~open THEN 1 ELSE 0
    BY <1>4, <1>5, <1>6 DEF Moved
  <2>2. writing' <=> backlog > 1 /\ open
    BY <1>2
  <2> QED
    BY <2>1, <2>2 DEF Chain
<1>8. OneWriter'
  BY <1>0, <1>2, <1>7 DEF OneWriter
<1>9. CloseBehindAnswer'
  <2>1. HowMany(posts, {"close"}) = 0
    BY <1>3
  <2> QED
    BY <1>2, <1>3, <1>5, <2>1, CloseTaken
<1>10. backlog' \in Nat /\ writing' \in BOOLEAN
  BY <1>0, <1>2, <1>6
<1>11. \A H : "write_error" \notin H => HowMany(posts, H) = 0
  BY <1>3
<1> QED
  BY <1>2, <1>3, <1>8, <1>9, <1>10, <1>11, PassingStep

\* The cancelled wait lets go of the object.
LEMMA CancelledStep ==
  ASSUME IInv, Release, Cancelled
  PROVE  Inv'
<1> DEFINE posts == <<>>
<1>0. TypeOK /\ queue \in Seq(Handlers) /\ OneWriter
  BY DEF IInv, OneOfEach, TypeOK
<1>1. /\ Take("cancelled", posts)
      /\ UNCHANGED <<read, writing, open, backlog, timer, retries, pong, listed, member, stops>>
  BY DEF Cancelled, socket, ping, refs
<1>2. posts \in Seq(Handlers) /\ \A H : HowMany(posts, H) = 0
  BY HowManyEmpty
<1> HIDE DEF posts
<1>3. Moved(WriteHandlers, "cancelled", posts) /\ "cancelled" \notin WriteHandlers
  BY <1>0, <1>1, <1>2, TakenMoves DEF WriteHandlers
<1>4. OneWriter'
  <2>1. Chain(writing, WriteHandlers)' = Chain(writing, WriteHandlers)
    BY <1>1, <1>2, <1>3 DEF Chain, Moved
  <2> QED
    BY <1>0, <1>1, <2>1 DEF OneWriter, Release
<1>5. CloseBehindAnswer'
  BY <1>1, <1>2, <1>3, CloseTaken
<1>6. backlog' \in Nat /\ writing' \in BOOLEAN
  BY <1>0, <1>1 DEF TypeOK
<1> QED
  BY <1>1, <1>2, <1>4, <1>5, <1>6, PassingStep

\* The cancelled wait is queued behind every function posted by write().
LEMMA CancelledLast ==
  ASSUME IInv, timer, NEW h, Take(h, StopPosts)
  PROVE  PostedBefore({"cancelled", "close"})'
<1>0. TypeOK /\ queue \in Seq(Handlers)
  BY DEF IInv, OneOfEach, TypeOK
<1>1. StopPosts \in Seq(Handlers)
  BY <1>0, StopPostsCounted
<1>2. Len(StopPosts) \in Nat \ {0} /\ StopPosts[Len(StopPosts)] = "cancelled"
  <2>1. StopPosts = When(member, "posted") \o <<"cancelled">>
    BY DEF StopPosts, When
  <2>2. CASE member
    BY <2>1, <2>2 DEF When
  <2>3. CASE ~member
    <3>1. StopPosts = <<>> \o <<"cancelled">>
      BY <2>1, <2>3 DEF When
    <3>2. StopPosts = <<"cancelled">>
      BY <3>1, ConcatEmptySeq
    <3> QED
      BY <3>2
  <2> QED
    BY <2>2, <2>3
<1>3. /\ Len(queue) \in Nat \ {0} /\ Len(queue') = Len(queue) - 1 + Len(StopPosts)
      /\ \A i \in 1..Len(queue') :
           queue'[i] = IF i < Len(queue) THEN queue[i + 1] ELSE StopPosts[i - Len(queue) + 1]
  BY <1>0, <1>1, TakeCounted
<1> DEFINE j == Len(queue')
<1>4. j \in 1..Len(queue') /\ queue'[j] = "cancelled"
  <2>1. j \in 1..Len(queue') /\ ~(j < Len(queue)) /\ j - Len(queue) + 1 = Len(StopPosts)
    BY <1>2, <1>3
  <2> QED
    BY <1>2, <1>3, <2>1
<1>5. \A i \in 1..Len(queue') : queue'[i] = "posted" => i < j
  BY <1>2, <1>3, <1>4
<1> HIDE DEF j
<1> QED
  BY <1>4, <1>5 DEF PostedBefore

\* The user is stopped: its read loop or its write chain ends.
LEMMA StopsStep ==
  ASSUME IInv, Release, BadHeader \/ ReadError \/ WriteError
  PROVE  Inv'
<1>0. /\ TypeOK /\ queue \in Seq(Handlers) /\ OneReadLoop /\ OneWriter /\ OnePingLoop
      /\ UnstoppedListed /\ PostedOutlived
  BY DEF IInv, OneOfEach, TypeOK
<1>1. PICK h, posts :
        /\ Take(h, posts)
        /\ \/ h = "header" /\ posts = StopPosts \o <<"empty">>
           \/ h \in {"read_error", "write_error"} /\ posts = StopPosts
  BY DEF BadHeader, ReadError, WriteError
<1>2. /\ member' = FALSE /\ timer' = FALSE /\ listed' = FALSE
      /\ stops' = IF stops < 2 THEN stops + 1 ELSE stops
      /\ UNCHANGED <<read, writing, open, backlog, retries, pong>>
  BY DEF BadHeader, ReadError, WriteError, manager_stop, socket
<1>3. /\ posts \in Seq(Handlers)
      /\ \A H : "posted" \notin H /\ "cancelled" \notin H =>
           HowMany(posts, H) = IF h = "header" /\ "empty" \in H THEN 1 ELSE 0
  <2>1. /\ StopPosts \in Seq(Handlers)
        /\ \A H : "posted" \notin H /\ "cancelled" \notin H => HowMany(StopPosts, H) = 0
    BY <1>0, StopPostsCounted
  <2>2. CASE h = "header" /\ posts = StopPosts \o <<"empty">>
    <3>1. <<"empty">> \in Seq(Handlers) /\ \A H : HowMany(<<"empty">>, H) = IF "empty" \in H THEN 1 ELSE 0
      <4>1. "empty" \in Handlers
        BY DEF Handlers, ReadHandlers
      <4> QED
        BY <4>1, HowManyOne
    <3>2. /\ posts \in Seq(Handlers)
          /\ \A H : HowMany(posts, H) = HowMany(StopPosts, H) + HowMany(<<"empty">>, H)
      BY <2>1, <2>2, <3>1, ConcatCounted
    <3> QED
      BY <2>1, <2>2, <3>1, <3>2
  <2>3. CASE h \in {"read_error", "write_error"} /\ posts = StopPosts
    BY <2>1, <2>3
  <2> QED
    BY <1>1, <2>2, <2>3
<1>4. /\ h \in Handlers /\ h \notin NickHandlers /\ h # "tick" /\ h # "posted"
      /\ h \in ReadHandlers <=> h # "write_error"
      /\ h \in WriteHandlers <=> h = "write_error"
  BY <1>1 DEF Handlers, ReadHandlers, WriteHandlers, NickHandlers
<1>5. /\ HowMany(posts, ReadHandlers) = IF h = "header" THEN 1 ELSE 0
      /\ HowMany(posts, WriteHandlers) = 0 /\ HowMany(posts, {"tick"}) = 0
      /\ HowMany(posts, NickHandlers) = 0 /\ HowMany(posts, {"close"}) = 0
  BY <1>3 DEF ReadHandlers, WriteHandlers, NickHandlers
<1>6. /\ queue' \in Seq(Handlers)
      /\ Moved(ReadHandlers, h, posts) /\ Moved(WriteHandlers, h, posts) /\ Moved({"tick"}, h, posts)
  BY <1>0, <1>1, <1>3, TakenMoves
<1>7. stops' \in 1..2 /\ (stops' < 2 => stops = 0)
  BY <1>0, <1>2 DEF TypeOK
<1>8. TypeOK'
  <2>1. freed' \in BOOLEAN
    BY DEF Release
  <2>2. timer' \in BOOLEAN /\ listed' \in BOOLEAN /\ member' \in BOOLEAN
    BY <1>2
  <2>3. writing' \in BOOLEAN /\ open' \in BOOLEAN /\ pong' \in BOOLEAN
    BY <1>0, <1>2 DEF TypeOK
  <2>4. read' = read /\ backlog' = backlog /\ retries' = retries /\ stops' \in 0..2
    BY <1>2, <1>7
  <2> QED
    BY <1>0, <1>6, <2>1, <2>2, <2>3, <2>4 DEF TypeOK
<1>9. /\ ReadChain' = ReadChain - (IF h = "read_error" THEN 1 ELSE 0)
      /\ WriteChain' = WriteChain - (IF h = "write_error" THEN 1 ELSE 0)
      /\ PingChain' = PingChain - (IF timer THEN 1 ELSE 0)
      /\ ReadChain \in 0..1 /\ WriteChain \in Nat /\ PingChain \in 0..1
      /\ ReadChain' \in 0..1 /\ PingChain' \in 0..1
  <2>1. Count({"tick"})' = Count({"tick"})
    BY <1>4, <1>5, <1>6 DEF Moved
  <2>2. Count(WriteHandlers)' = Count(WriteHandlers) - (IF h = "write_error" THEN 1 ELSE 0)
    BY <1>4, <1>5, <1>6 DEF Moved
  <2>3. Count(ReadHandlers)' = Count(ReadHandlers) - (IF h = "read_error" THEN 1 ELSE 0)
    BY <1>1, <1>4, <1>5, <1>6 DEF Moved
  <2>4. /\ (h = "read_error" => Count(ReadHandlers) >= 1)
        /\ Count(ReadHandlers) \in Nat /\ Count(WriteHandlers) \in Nat /\ Count({"tick"}) \in Nat
    BY <1>4, <1>6 DEF Moved
  <2> QED
    BY <1>0, <1>2, <2>1, <2>2, <2>3, <2>4
       DEF ReadChain, WriteChain, PingChain, Chain, OneReadLoop, OnePingLoop
<1>10. OneOfEach'
  <2>1. OneReadLoop' /\ OnePingLoop'
    BY <1>2, <1>9 DEF OneReadLoop, OnePingLoop, ReadChain, PingChain
  <2>2. OneWriter'
    BY <1>0, <1>2, <1>7, <1>9 DEF OneWriter, WriteChain
  <2> QED
    BY <1>8, <2>1, <2>2 DEF OneOfEach
<1>11. NickFirst'
  <2>1. read # "nick"
    BY <1>1, <1>3, <1>4, NickTaken
  <2> QED
    BY <1>1, <1>2, <1>3, <1>4, <1>5, <2>1, NickFirstTaken
<1>12. UnstoppedListed'
  BY <1>7 DEF UnstoppedListed
<1>13. PostedOutlived'
  <2> SUFFICES ASSUME open', stops' < 2, Waiting({"posted"})'
               PROVE  \/ ReadChain' = 1 \/ PingChain' = 1
                      \/ PostedBefore({"cancelled", "close"})'
    BY DEF PostedOutlived, ReadChain, PingChain
  <2>1. open /\ stops = 0
    BY <1>2, <1>7
  <2>2. queue[1] = h /\ 1 \in 1..Len(queue)
    BY <1>0, <1>1, <1>3, TakeCounted
  <2>3. CASE h = "header"
    <3>1. ReadChain >= 1
      BY <1>4, <1>6, <2>3 DEF Moved, ReadChain, Chain
    <3> QED
      BY <1>9, <2>3, <3>1
  <2>4. CASE h = "read_error"
    <3>1. listed
      BY <1>0, <2>1, <2>2, <2>4 DEF UnstoppedListed, Waiting
    <3>2. PingChain = 1
      BY <1>0, <2>1, <3>1 DEF OnePingLoop, PingChain
    <3>3. CASE timer
      <4>1. Take(h, StopPosts)
        BY <1>1, <2>4
      <4> QED
        BY <3>3, <4>1, CancelledLast
    <3>4. CASE ~timer
      BY <1>9, <3>2, <3>4
    <3> QED
      BY <3>3, <3>4
  <2>5. CASE h = "write_error"
    <3>1. CASE listed \/ member
      <4>1. ReadChain = 1
        BY <1>0, <3>1 DEF OneReadLoop, ReadChain
      <4> QED
        BY <1>9, <2>5, <4>1
    <3>2. CASE ~listed /\ ~member
      <4>1. ~timer
        BY <1>0, <2>1, <3>2 DEF UnstoppedListed
      <4>2. HowMany(posts, {"posted"}) = 0
        <5>1. posts = StopPosts
          BY <1>1, <2>5
        <5>2. HowMany(StopPosts, {"posted"}) = (IF member /\ "posted" \in {"posted"} THEN 1 ELSE 0)
                                             + (IF timer /\ "cancelled" \in {"posted"} THEN 1 ELSE 0)
          BY <1>0, StopPostsCounted
        <5> QED
          BY <3>2, <4>1, <5>1, <5>2
      <4>3. Waiting({"posted"})
        <5>1. Moved({"posted"}, h, posts)
          BY <1>0, <1>1, <1>3, TakenMoves
        <5>2. Count({"posted"})' # 0
          BY <1>6, HowManyType DEF Waiting, Count
        <5>3. Count({"posted"}) # 0
          BY <1>4, <4>2, <5>1, <5>2 DEF Moved
        <5> QED
          BY <1>0, <5>3, WaitingCounted
      <4>4. \/ ReadChain = 1 \/ PingChain = 1
            \/ PostedBefore({"cancelled", "close"})
        BY <1>0, <2>1, <4>3 DEF PostedOutlived, ReadChain, PingChain
      <4>5. PostedBefore({"cancelled", "close"}) => PostedBefore({"cancelled", "close"})'
        BY <1>0, <1>1, <1>3, <4>2, PostedBeforeTaken
      <4> QED
        BY <1>9, <2>5, <4>1, <4>4, <4>5
    <3> QED
      BY <3>1, <3>2
  <2> QED
    BY <1>1, <2>3, <2>4, <2>5
<1>14. CloseBehindAnswer'
  BY <1>1, <1>2, <1>3, <1>4, <1>5, CloseTaken
<1> QED
  BY <1>10, <1>11, <1>12, <1>13, <1>14 DEF Inv

\* A handler of the io_service.
LEMMA HandlerStep ==
  ASSUME IInv, Release, Handler
  PROVE  Inv'
BY ReadsStep, AcceptedStep, RefusedStep, ClosesStep, StopsStep, TicksStep, PostedStep, PostedFreedStep,
   WroteStep, CancelledStep
   DEF Handler

\* Once deleted the object stays unreferenced: no completion is due, and the handlers
\* that wait capture a plain this.
LEMMA FreedStays ==
  ASSUME IInv, Release, ReadDone \/ WriteDone \/ TimerExpires \/ OtherWrites \/ Handler
  PROVE  FreedIsLoose'
<1>1. TypeOK /\ queue \in Seq(Handlers) /\ FreedIsLoose
  BY DEF IInv, OneOfEach, TypeOK
<1>2. CASE ~freed
  BY <1>2 DEF FreedIsLoose, Release
<1>3. CASE freed
  <2>1. ~Held
    BY <1>1, <1>3 DEF FreedIsLoose
  <2>2. /\ ~listed /\ ~member /\ ~writing /\ ~timer /\ read = "none"
        /\ \A i \in 1..Len(queue) : queue[i] = "posted"
    BY <1>1, <2>1 DEF Held, Waiting
  <2>3. ~ReadDone /\ ~WriteDone /\ ~TimerExpires /\ ~OtherWrites
    BY <2>2 DEF ReadDone, WriteDone, TimerExpires, OtherWrites
  <2>4. ASSUME NEW h, NEW posts, Take(h, posts) PROVE h = "posted"
    <3>1. Len(queue) \in Nat \ {0} /\ Head(queue) = queue[1]
      BY <1>1, <2>4, HeadTailProperties, LenProperties DEF Take
    <3> QED
      BY <2>2, <2>4, <3>1 DEF Take
  <2>5. PostedFreed
    <3>1. /\ ~NickAccepted /\ ~NickRefused /\ ~NickClose /\ ~GoodHeader /\ ~BadHeader /\ ~Pong
      BY <2>4 DEF NickAccepted, NickRefused, NickClose, GoodHeader, BadHeader, Pong
    <3>2. ~Message /\ ~ReadError /\ ~Wrote /\ ~WriteError
      BY <2>4 DEF Message, ReadError, Wrote, WriteError
    <3>3. ~Answered /\ ~Retry /\ ~PingTimeout /\ ~Cancelled /\ ~Posted
      BY <1>3, <2>4 DEF Answered, Retry, PingTimeout, Cancelled, Posted
    <3> QED
      BY <2>3, <3>1, <3>2, <3>3 DEF Handler
  <2>6. UNCHANGED <<listed, member, writing, timer, read>> /\ Take("posted", <<>>)
    BY <2>5 DEF PostedFreed, socket, ping, refs
  <2>7. \A i \in 1..Len(queue') : queue'[i] = "posted"
    <3>1. PICK posts \in Seq(Handlers) : posts = <<>> /\ Len(posts) = 0
      BY EmptySeq
    <3>2. /\ Len(queue) \in Nat \ {0} /\ Len(queue') = Len(queue) - 1 + Len(posts)
          /\ \A i \in 1..Len(queue') :
               queue'[i] = IF i < Len(queue) THEN queue[i + 1] ELSE posts[i - Len(queue) + 1]
      <4>1. Take("posted", posts)
        BY <2>6, <3>1
      <4> QED
        BY <1>1, <4>1, TakeCounted
    <3> QED
      BY <2>2, <3>1, <3>2
  <2> QED
    BY <2>2, <2>6, <2>7 DEF FreedIsLoose, Held, Waiting
<1> QED
  BY <1>2, <1>3

\* The accept handler has started the nickname read.
LEMMA InitIInv == Init => IInv
<1> SUFFICES ASSUME Init PROVE IInv
  OBVIOUS
<1>1. queue = <<>> /\ queue \in Seq(Handlers) /\ Len(queue) = 0 /\ 1..Len(queue) = {}
  BY DEF Init
<1>2. \A H : Count(H) = 0
  BY <1>1, HowManyEmpty DEF Count
<1>3. TypeOK
  <2>1. ping_retry_max \in Nat
    BY BoundsAssumption
  <2>2. retries \in 0..ping_retry_max /\ stops \in 0..2 /\ backlog \in Nat
    BY <2>1 DEF Init
  <2>3. {writing, open, timer, pong, listed, member, freed} \subseteq BOOLEAN
    BY DEF Init
  <2>4. read \in {"none", "nick", "header", "message"}
    BY DEF Init
  <2> QED
    BY <1>1, <2>2, <2>3, <2>4 DEF TypeOK
<1>4. OneReadLoop /\ OneWriter /\ OnePingLoop
  BY <1>2 DEF Init, OneReadLoop, OneWriter, OnePingLoop, Chain
<1>5. NickFirst /\ UnstoppedListed /\ PostedOutlived /\ CloseBehindAnswer
  BY <1>1 DEF Init, NickFirst, UnstoppedListed, PostedOutlived, CloseBehindAnswer, Waiting
<1>6. FreedIsLoose
  BY DEF Init, FreedIsLoose
<1> QED
  BY <1>3, <1>4, <1>5, <1>6 DEF IInv, OneOfEach

\* No step of the user breaks the invariant.
LEMMA NextIInv == IInv /\ [Next]_vars => IInv'
<1> SUFFICES ASSUME IInv, [Next]_vars PROVE IInv'
  OBVIOUS
<1>1. CASE (ReadDone \/ WriteDone \/ TimerExpires \/ OtherWrites) /\ Release
  BY <1>1, CompletionStep, FreedStays DEF IInv, Inv
<1>2. CASE Handler /\ Release
  BY <1>2, HandlerStep, FreedStays DEF IInv, Inv
<1>3. CASE UNCHANGED vars
  <2>1. UNCHANGED <<queue, read, writing, open, backlog, timer, retries, pong, listed, member, stops, freed>>
    BY <1>3 DEF vars, socket, ping, refs
  <2>2. \A H : (Waiting(H)' <=> Waiting(H)) /\ (PostedBefore(H)' <=> PostedBefore(H)) /\ Count(H)' = Count(H)
    BY <2>1 DEF Waiting, PostedBefore, Count
  <2>3. OneOfEach'
    BY <2>1, <2>2 DEF IInv, OneOfEach, TypeOK, OneReadLoop, OneWriter, OnePingLoop, Chain
  <2>4. NickFirst' /\ UnstoppedListed' /\ FreedIsLoose'
    BY <2>1, <2>2 DEF IInv, NickFirst, UnstoppedListed, FreedIsLoose, Held
  <2>5. PostedOutlived' /\ CloseBehindAnswer'
    BY <2>1, <2>2 DEF IInv, PostedOutlived, CloseBehindAnswer, Chain
  <2> QED
    BY <2>3, <2>4, <2>5 DEF IInv
<1> QED
  BY <1>1, <1>2, <1>3 DEF Next, Idle

-----------------------------------------------------------------------------
(***************************************************************************)
(* What holds of every chat_user.                                          *)
(***************************************************************************)

\* The invariant holds throughout the life of the object.
THEOREM UserInvariant == Spec => []IInv
  BY InitIInv, NextIInv, PTL DEF Spec

\* Each of the three loops of a user is there once while it is needed, and never twice.
THEOREM OneOfEachTheorem == Spec => []OneOfEach
<1>1. IInv => OneOfEach
  BY DEF IInv
<1> QED
  BY <1>1, UserInvariant, PTL

\* The function posted by write() runs on a deleted chat_user only after a ping
\* timeout or a second stop.
THEOREM PostedOnLiveUserTheorem == Spec => []PostedOnLiveUser
<1>1. IInv => PostedOnLiveUser
  <2> SUFFICES ASSUME IInv, freed, Waiting({"posted"}), open, stops # 2 PROVE FALSE
    BY DEF PostedOnLiveUser
  <2>1. TypeOK /\ queue \in Seq(Handlers) /\ stops < 2
    BY DEF IInv, OneOfEach, TypeOK
  <2>2. ~Held
    BY DEF IInv, FreedIsLoose
  <2>3. ASSUME NEW H, H \subseteq Handlers \ {"posted"} PROVE Count(H) = 0 /\ ~PostedBefore(H)
    <3>1. ~Waiting(H)
      BY <2>2, <2>3 DEF Held, Waiting
    <3> QED
      BY <2>1, <3>1, WaitingCounted DEF PostedBefore, Waiting
  <2>4. /\ ReadHandlers \subseteq Handlers \ {"posted"} /\ {"tick"} \subseteq Handlers \ {"posted"}
        /\ {"cancelled", "close"} \subseteq Handlers \ {"posted"}
    BY DEF Handlers, ReadHandlers
  <2>5. Count(ReadHandlers) = 0 /\ Count({"tick"}) = 0 /\ ~PostedBefore({"cancelled", "close"})
    BY <2>3, <2>4
  <2>6. read = "none" /\ ~timer
    BY <2>2 DEF Held
  <2> QED
    BY <2>1, <2>5, <2>6 DEF IInv, PostedOutlived, Chain
<1> QED
  BY <1>1, UserInvariant, PTL

\* A refused client gets its answer before its connection is closed.
THEOREM AnsweredBeforeCloseTheorem == Spec => []AnsweredBeforeClose
<1>1. IInv => AnsweredBeforeClose
  <2> SUFFICES ASSUME IInv, queue # <<>>, Head(queue) = "close" PROVE backlog > 0
    BY DEF AnsweredBeforeClose
  <2>1. queue \in Seq(Handlers) /\ CloseBehindAnswer
    BY DEF IInv, OneOfEach, TypeOK
  <2>2. 1 \in 1..Len(queue) /\ queue[1] = "close"
    BY <2>1, HeadTailProperties, LenProperties
  <2>3. ~(\E i \in 1..1 - 1 : queue[i] = "posted")
    OBVIOUS
  <2> QED
    BY <2>1, <2>2, <2>3 DEF CloseBehindAnswer
<1> QED
  BY <1>1, UserInvariant, PTL
=============================================================================
