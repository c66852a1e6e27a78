------------------------------ MODULE ChatUser ------------------------------
(***************************************************************************)
(* One chat_user: its asynchronous operations, the completion handlers     *)
(* waiting in the io_service's queue, and how long the object lives.       *)
(*                                                                         *)
(* The one io thread takes handlers from the queue in order.  Handlers of  *)
(* reads, writes and the timer capture `self' and keep the object alive;   *)
(* the function write() posts captures a plain `this' and does not.  The   *)
(* other references to the object are connections_ (listed) and the users_ *)
(* of the channels it is in (member: here it is in one channel or none).   *)
(*                                                                         *)
(* Other users are an input: while the object is listed or a member their  *)
(* handlers may call its write() at any time.                              *)
(***************************************************************************)
EXTENDS Queues

CONSTANTS
  ping_retry_max,  \* ping_retry_max_
  MaxQueue,        \* bound: other users write only while fewer handlers wait
  MaxBacklog       \* bound: inputs that lead to writes come only while fewer
                   \* messages wait

ASSUME BoundsAssumption == {ping_retry_max, MaxQueue, MaxBacklog} \subseteq Nat

VARIABLES
  queue,    \* handlers ready to run, oldest first
  read,     \* the outstanding async_read
  writing,  \* an async_write is outstanding
  open,     \* socket_.is_open()
  backlog,  \* size of write_msgs_
  timer,    \* async_wait is outstanding
  retries,  \* current_ping_retries_
  pong,     \* pong_received_
  listed,   \* in connections_
  member,   \* in a channel, which holds the object in users_
  stops,    \* how often manager_.stop was called for it, up to 2
  freed     \* the object was deleted

socket == <<read, writing, open>>
ping   == <<timer, retries, pong>>
refs   == <<listed, member, stops>>
vars   == <<queue, socket, backlog, ping, refs, freed>>

(***************************************************************************)
(* posted: the function of write().  close: the function do_accept posts   *)
(* after a refusal.  nick, header, message: a completed read; empty: the   *)
(* read of no bytes that follows an unreadable header.  tick: the timer    *)
(* expired; cancelled: it was cancelled before.                            *)
(***************************************************************************)
ReadHandlers  == {"nick", "nick_error", "header", "message", "empty", "read_error"}
WriteHandlers == {"wrote", "write_error"}
Handlers == ReadHandlers \cup WriteHandlers \cup {"posted", "close", "tick", "cancelled"}

Waiting(H) == \E i \in 1..Len(queue) : queue[i] \in H

\* What keeps the object alive.
Held == \/ listed \/ member \/ writing \/ timer \/ read # "none"
        \/ Waiting(Handlers \ {"posted"})

\* The accept handler has started the nickname read.
Init ==
  /\ queue = <<>> /\ backlog = 0
  /\ read = "nick" /\ writing = FALSE /\ open = TRUE
  /\ timer = FALSE /\ retries = 0 /\ pong = FALSE
  /\ listed = FALSE /\ member = FALSE /\ stops = 0
  /\ freed = FALSE

-----------------------------------------------------------------------------
(***************************************************************************)
(* Completions, as the operating system reports them.                      *)
(***************************************************************************)

error(r) == IF r = "nick" THEN "nick_error" ELSE "read_error"

ReadDone ==
  /\ read # "none"
  /\ \E h \in {read, error(read)} : queue' = Append(queue, h)
  /\ read' = "none"
  /\ UNCHANGED <<writing, open, backlog, ping, refs>>

WriteDone ==
  /\ writing
  /\ \E h \in WriteHandlers : queue' = Append(queue, h)
  /\ writing' = FALSE
  /\ UNCHANGED <<read, open, backlog, ping, refs>>

TimerExpires ==
  /\ timer
  /\ queue' = Append(queue, "tick")
  /\ timer' = FALSE
  /\ UNCHANGED <<socket, backlog, retries, pong, refs>>

\* A message for the user, from a handler of another user.
OtherWrites ==
  /\ listed \/ member
  /\ Len(queue) < MaxQueue /\ backlog < MaxBacklog
  /\ queue' = Append(queue, "posted")
  /\ UNCHANGED <<socket, backlog, ping, refs>>

-----------------------------------------------------------------------------
(***************************************************************************)
(* What the calls made by a handler do, and what they queue at once.       *)
(***************************************************************************)

\* Takes the handler h and queues what it posts, in the order of its calls.
Take(h, posts) ==
  /\ queue # <<>> /\ Head(queue) = h
  /\ queue' = Tail(queue) \o posts

When(cond, h) == IF cond THEN <<h>> ELSE <<>>

\* async_read: on a closed socket it fails at once.
FailedRead == When(~open, "read_error")
NextRead(kind) == read' = IF open THEN kind ELSE "none"

\* Fault: the timer is cancelled before the channels are left.
StopPostsSwapped == When(timer, "cancelled") \o When(member, "posted")

\* chat_user_manager::stop.  chat_user::stop leaves the channels, with a notice
\* to all members, the user among them, and then cancels the timer.
StopPosts == When(member, "posted") \o When(timer, "cancelled")
manager_stop ==
  /\ member' = FALSE /\ timer' = FALSE /\ listed' = FALSE
  /\ stops' = IF stops < 2 THEN stops + 1 ELSE stops

\* close_socket aborts what is outstanding on the socket.
ClosePosts == When(read # "none", error(read)) \o When(writing, "write_error")
close_socket == open' = FALSE /\ read' = "none" /\ writing' = FALSE

-----------------------------------------------------------------------------
(***************************************************************************)
(* The handlers of do_accept, and the read loop.                           *)
(***************************************************************************)

\* Fault: start() pings but does not read.
NickAcceptedDeaf ==
  /\ Take("nick", <<"posted", "posted">>)
  /\ listed' = TRUE /\ timer' = TRUE
  /\ UNCHANGED <<socket, backlog, retries, pong, member, stops>>

\* "valid" and the first ping are written, the timer and the read loop start.
NickAccepted ==
  /\ Take("nick", <<"posted", "posted">>)
  /\ listed' = TRUE /\ timer' = TRUE /\ read' = "header"
  /\ UNCHANGED <<writing, open, backlog, retries, pong, member, stops>>

\* Fault: the socket is closed first.
NickRefusedAbruptly ==
  /\ Take("nick", <<"close", "posted">>)
  /\ UNCHANGED <<socket, backlog, ping, refs>>

NickRefused ==
  /\ Take("nick", <<"posted", "close">>)
  /\ UNCHANGED <<socket, backlog, ping, refs>>

NickClose ==
  /\ \E h \in {"close", "nick_error"} : Take(h, ClosePosts)
  /\ close_socket
  /\ UNCHANGED <<backlog, ping, refs>>

GoodHeader ==
  /\ Take("header", FailedRead)
  /\ NextRead("message")
  /\ UNCHANGED <<writing, open, backlog, ping, refs>>

\* The user is stopped, and then a message of no bytes is read.
BadHeader ==
  /\ Take("header", StopPosts \o <<"empty">>)
  /\ manager_stop
  /\ UNCHANGED <<socket, backlog, retries, pong>>

Pong ==
  /\ backlog < MaxBacklog
  /\ Take("message", FailedRead)
  /\ pong' = TRUE
  /\ NextRead("header")
  /\ UNCHANGED <<writing, open, backlog, timer, retries, refs>>

\* handle_message or a decoding error.  Joining and leaving a channel are
\* announced to the user too.
Message ==
  /\ \/ \E h \in {"message", "empty"} : Take(h, FailedRead) /\ UNCHANGED member
     \/ /\ backlog < MaxBacklog
        /\ Take("message", <<"posted">> \o FailedRead)
        /\ member' \in BOOLEAN
  /\ NextRead("header")
  /\ UNCHANGED <<writing, open, backlog, ping, listed, stops>>

ReadError ==
  /\ Take("read_error", StopPosts)
  /\ manager_stop
  /\ UNCHANGED <<socket, backlog, retries, pong>>

-----------------------------------------------------------------------------
(***************************************************************************)
(* Writing: the function posted by write(), and do_write.                  *)
(***************************************************************************)

Posted ==
  /\ ~freed
  /\ Take("posted", When(backlog = 0 /\ ~open, "write_error"))
  /\ backlog' = backlog + 1
  /\ writing' = (writing \/ (backlog = 0 /\ open))
  /\ UNCHANGED <<read, open, ping, refs>>

\* On a deleted object: undefined, and not followed any further here.
PostedFreed ==
  /\ freed
  /\ Take("posted", <<>>)
  /\ UNCHANGED <<socket, backlog, ping, refs>>

\* Fault: the next message is not started.
WroteOnce ==
  /\ Take("wrote", <<>>)
  /\ backlog' = backlog - 1
  /\ UNCHANGED <<socket, ping, refs>>

Wrote ==
  /\ Take("wrote", When(backlog > 1 /\ ~open, "write_error"))
  /\ backlog' = backlog - 1
  /\ writing' = (backlog > 1 /\ open)
  /\ UNCHANGED <<read, open, ping, refs>>

\* The failed message stays in write_msgs_.
WriteError ==
  /\ Take("write_error", StopPosts)
  /\ manager_stop
  /\ UNCHANGED <<socket, backlog, retries, pong>>

-----------------------------------------------------------------------------
(***************************************************************************)
(* The ping timer.                                                         *)
(***************************************************************************)

Answered ==
  /\ pong
  /\ Take("tick", <<"posted">>)
  /\ retries' = 0 /\ pong' = FALSE /\ timer' = TRUE
  /\ UNCHANGED <<socket, backlog, refs>>

\* Fault: the timer is not started again.
RetryUnarmed ==
  /\ ~pong /\ retries < ping_retry_max
  /\ Take("tick", <<"posted">>)
  /\ retries' = retries + 1
  /\ UNCHANGED <<socket, backlog, timer, pong, refs>>

\* Fault: retries are not counted.
RetryForever ==
  /\ ~pong /\ retries < ping_retry_max
  /\ Take("tick", <<"posted">>)
  /\ timer' = TRUE
  /\ UNCHANGED <<socket, backlog, retries, pong, refs>>

Retry ==
  /\ ~pong /\ retries < ping_retry_max
  /\ Take("tick", <<"posted">>)
  /\ retries' = retries + 1 /\ timer' = TRUE
  /\ UNCHANGED <<socket, backlog, pong, refs>>

PingTimeout ==
  /\ ~pong /\ retries >= ping_retry_max
  /\ Take("tick", When(member, "posted") \o ClosePosts)
  /\ member' = FALSE
  /\ close_socket
  /\ UNCHANGED <<backlog, ping, listed, stops>>

Cancelled ==
  /\ Take("cancelled", <<>>)
  /\ UNCHANGED <<socket, backlog, ping, refs>>

-----------------------------------------------------------------------------
Handler ==
  \/ NickAccepted \/ NickRefused \/ NickClose
  \/ GoodHeader \/ BadHeader \/ Pong \/ Message \/ ReadError
  \/ Posted \/ PostedFreed \/ Wrote \/ WriteError
  \/ Answered \/ Retry \/ PingTimeout \/ Cancelled

\* The object goes with the last reference to it.
Release == freed' = (freed \/ ~Held')

Idle == freed /\ queue = <<>> /\ UNCHANGED vars

Next ==
  \/ (ReadDone \/ WriteDone \/ TimerExpires \/ OtherWrites \/ Handler) /\ Release
  \/ Idle

(***************************************************************************)
(* run() executes ready handlers, and a timer expires.  Nothing is assumed *)
(* of the peer: it may send nothing, and may stop reading.                 *)
(***************************************************************************)
Spec == Init /\ [][Next]_vars /\ WF_vars(Handler /\ Release) /\ WF_vars(TimerExpires /\ Release)

-----------------------------------------------------------------------------
(***************************************************************************)
(* Properties.                                                             *)
(***************************************************************************)

\* Queue, counters and flags keep their shape; retries stay within the limit.
TypeOK ==
  /\ queue \in Seq(Handlers)
  /\ read \in {"none", "nick", "header", "message"}
  /\ backlog \in Nat /\ stops \in 0..2
  /\ retries \in 0..ping_retry_max
  /\ {writing, open, timer, pong, listed, member, freed} \subseteq BOOLEAN

\* The length of each of the chains of operations that should have one link.
Count(H) == HowMany(queue, H)
Chain(outstanding, H) == (IF outstanding THEN 1 ELSE 0) + Count(H)

(***************************************************************************)
(* There is one read loop, and whoever is in connections_ or in a channel  *)
(* has it: do_read_header and do_read_message never run side by side on    *)
(* inbound_data_, and the end of the loop is never missed.                 *)
(***************************************************************************)
OneReadLoop ==
  /\ Chain(read # "none", ReadHandlers) <= 1
  /\ listed \/ member => Chain(read # "none", ReadHandlers) = 1

(***************************************************************************)
(* At most one async_write is under way on the socket, and until the user  *)
(* is stopped a message in write_msgs_ has one under way in front of it.   *)
(***************************************************************************)
OneWriter ==
  /\ Chain(writing, WriteHandlers) <= IF backlog > 0 THEN 1 ELSE 0
  /\ backlog > 0 /\ stops = 0 /\ ~freed => Chain(writing, WriteHandlers) = 1

\* While its connection is open a listed user is being pinged, by one timer.
OnePingLoop ==
  /\ Chain(timer, {"tick"}) <= 1
  /\ listed /\ open => Chain(timer, {"tick"}) = 1

(***************************************************************************)
(* Each of the three loops of a user, reading, writing and pinging, is     *)
(* there once while it is needed and never twice, whatever completions,    *)
(* messages and failures come between its links.                           *)
(***************************************************************************)
OneOfEach == TypeOK /\ OneReadLoop /\ OneWriter /\ OnePingLoop

(***************************************************************************)
(* The function posted by write() runs on a deleted chat_user only after a *)
(* ping timeout or when the user was stopped a second time.  In the usual  *)
(* end of a connection the last notice, posted by leave_all_channels, is   *)
(* run before the cancelled timer lets go of the object.                   *)
(***************************************************************************)
PostedOnLiveUser == freed /\ Waiting({"posted"}) => ~open \/ stops = 2

(***************************************************************************)
(* A refused client gets its answer: when the function that closes the     *)
(* socket is next, the answer has been handed to async_write.              *)
(***************************************************************************)
AnsweredBeforeClose == queue # <<>> /\ Head(queue) = "close" => backlog > 0

\* A peer that answers no more pings leaves connections_ for good.
SilentPeerUnlisted == []<>pong \/ <>[]~listed

(***************************************************************************)
(* After the read loop has ended the object is freed, even if the ping     *)
(* timer fired just before it was cancelled and runs on, unless a write to *)
(* the peer hangs.                                                         *)
(***************************************************************************)
Gone == stops > 0 /\ Chain(read # "none", ReadHandlers) = 0
Reclaimed == [](Gone => <>(freed \/ []writing))

=============================================================================
