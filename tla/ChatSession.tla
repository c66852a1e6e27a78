---------------------------- MODULE ChatSession -----------------------------
(***************************************************************************)
(* chat_session: a connection that hands what it reads to a message        *)
(* handler and what goes wrong to an error handler.  It is in the          *)
(* repository, not yet in the build: server and client have code of their  *)
(* own for the same.                                                       *)
(*                                                                         *)
(* One thread runs the io_service.  The handlers of reads and writes hold  *)
(* a chat_session_ptr (self), which keeps the object; the functions posted *)
(* by write and close_socket hold `this' only.  The owner of the session,  *)
(* here any program, has a pointer until it lets it go, calls write and    *)
(* close_socket as long as it has it, and may do so in its error handler.  *)
(***************************************************************************)
EXTENDS Integers, SequencesExt

CONSTANTS
  MaxWrites,   \* bound: calls of write
  MaxInbound   \* bound: messages the peer sends

VARIABLES
  owned,      \* the owner has its pointer
  queue,      \* posted functions: Close, or the number of a message to write
  write_calls,\* messages given to write
  outbox,     \* write_msgs_
  writes,     \* async_writes whose handlers have not run: of which message, see Op
  reads,      \* async_reads whose handlers have not run: header, message, or nothing (size 0)
  socket,     \* open, closed; broken: the peer is gone
  outbound,   \* messages the peer got
  inbound,    \* messages given to message_handler_
  ended,      \* a read called error_handler_
  touched     \* "no"; who used the object after it was freed; "thrown": an exception left run()

cvars == <<owned, queue, write_calls, outbox, writes, reads, socket, outbound, inbound, ended, touched>>

\* The function close_socket posts.
Close == 0

\* Somebody has a chat_session_ptr: the owner, or a handler that holds self.
Alive == owned \/ writes # <<>> \/ reads # <<>>

\* A handler uses the object.
Used == touched' = IF Alive THEN touched ELSE "handler"

ChInit ==
  /\ owned = TRUE /\ queue = <<>> /\ write_calls = 0 /\ outbox = <<>>
  /\ writes = <<>> /\ reads = <<[what |-> "header", timely |-> TRUE]>>  \* start_reading()
  /\ socket = "open" /\ outbound = <<>> /\ inbound = 0
  /\ ended = FALSE /\ touched = "no"

-----------------------------------------------------------------------------
(***************************************************************************)
(* The owner.                                                              *)
(***************************************************************************)

session_write ==
  /\ owned /\ write_calls < MaxWrites
  /\ write_calls' = write_calls + 1
  /\ queue' = Append(queue, write_calls + 1)
  /\ UNCHANGED <<owned, outbox, writes, reads, socket, outbound, inbound, ended, touched>>

close_socket ==
  /\ owned /\ ~Contains(queue, Close)
  /\ queue' = Append(queue, Close)
  /\ UNCHANGED <<owned, write_calls, outbox, writes, reads, socket, outbound, inbound, ended, touched>>

LetGo ==
  /\ owned
  /\ owned' = FALSE
  /\ UNCHANGED <<queue, write_calls, outbox, writes, reads, socket, outbound, inbound, ended, touched>>

-----------------------------------------------------------------------------
(***************************************************************************)
(* async_read and async_write.  What was issued on an open socket may have *)
(* succeeded before the socket was closed or the peer was gone, and its    *)
(* handler still wait to run.  A read of no bytes always succeeds.         *)
(***************************************************************************)
Op(what) == [what |-> what, timely |-> socket = "open"]
OpOfNothing == [what |-> "nothing", timely |-> TRUE]
MayFail == socket # "open"

do_write(msgs, outstanding) == Append(outstanding, Op(Head(msgs)))

-----------------------------------------------------------------------------
(***************************************************************************)
(* Posted functions, in the order of the calls.                            *)
(***************************************************************************)

\* Fault: do_write is called when there was a message already.
PostedMessage_second ==
  /\ outbox' = Append(outbox, Head(queue))
  /\ writes' = IF Len(outbox) < 2 THEN do_write(outbox', writes) ELSE writes
  /\ UNCHANGED socket

\* What write posts, in the strand.
PostedMessage ==
  /\ outbox' = Append(outbox, Head(queue))
  /\ writes' = IF outbox = <<>> THEN do_write(outbox', writes) ELSE writes
  /\ UNCHANGED socket

PostedClosing ==
  /\ socket' = "closed"
  /\ UNCHANGED <<outbox, writes>>

\* The next posted function; without an object it uses memory that was freed.
Posted ==
  /\ queue # <<>>
  /\ queue' = Tail(queue)
  /\ IF ~Alive THEN touched' = "posted" /\ UNCHANGED <<outbox, writes, socket>>
     ELSE /\ IF Head(queue) = Close THEN PostedClosing ELSE PostedMessage
          /\ UNCHANGED touched
  /\ UNCHANGED <<owned, write_calls, reads, outbound, inbound, ended>>

-----------------------------------------------------------------------------
(***************************************************************************)
(* The handlers.  error_handler_ does what the owner may do, which the     *)
(* owner's actions stand for.                                              *)
(***************************************************************************)

\* Fault: the error ends nothing.
ReadFails_on ==
  /\ reads # <<>> /\ Head(reads).what # "nothing" /\ MayFail
  /\ reads' = <<Op("header")>> /\ ended' = TRUE
  /\ Used
  /\ UNCHANGED <<owned, queue, write_calls, outbox, writes, socket, outbound, inbound>>

\* The handler of either read, with an error.
ReadFails ==
  /\ reads # <<>> /\ Head(reads).what # "nothing" /\ MayFail
  /\ reads' = Tail(reads) /\ ended' = TRUE
  /\ Used
  /\ UNCHANGED <<owned, queue, write_calls, outbox, writes, socket, outbound, inbound>>

\* do_read_header.  For an unreadable size error_handler_ is called too, and the size is 0.
HeaderHandler ==
  /\ reads # <<>> /\ Head(reads).what = "header" /\ Head(reads).timely
  /\ \/ inbound < MaxInbound /\ reads' = Append(Tail(reads), Op("message")) /\ UNCHANGED ended
     \/ reads' = Append(Tail(reads), OpOfNothing) /\ ended' = TRUE
  /\ Used
  /\ UNCHANGED <<owned, queue, write_calls, outbox, writes, socket, outbound, inbound>>

\* do_read_message.
MessageHandler ==
  /\ reads # <<>> /\ Head(reads).what = "message" /\ Head(reads).timely
  /\ inbound' = inbound + 1
  /\ reads' = Append(Tail(reads), Op("header"))
  /\ Used
  /\ UNCHANGED <<owned, queue, write_calls, outbox, writes, socket, outbound, ended>>

\* deserialize_chat_message throws: what came is no message.
NoMessage ==
  /\ reads # <<>> /\ Head(reads).what # "header" /\ Head(reads).timely
  /\ reads' = Tail(reads)
  /\ touched' = "thrown"
  /\ UNCHANGED <<owned, queue, write_calls, outbox, writes, socket, outbound, inbound, ended>>

\* do_write, without an error.
WriteHandler ==
  /\ writes # <<>> /\ Head(writes).timely
  /\ outbound' = Append(outbound, Head(writes).what)
  /\ outbox' = Tail(outbox)
  /\ writes' = IF outbox' = <<>> THEN Tail(writes) ELSE do_write(outbox', Tail(writes))
  /\ Used
  /\ UNCHANGED <<owned, queue, write_calls, reads, socket, inbound, ended>>

\* With an error: the message stays in write_msgs_, so that nothing is written any more.
WriteFails ==
  /\ writes # <<>> /\ MayFail
  /\ writes' = Tail(writes)
  /\ Used
  /\ UNCHANGED <<owned, queue, write_calls, outbox, reads, socket, outbound, inbound, ended>>

PeerGone ==
  /\ socket = "open"
  /\ socket' = "broken"
  /\ UNCHANGED <<owned, queue, write_calls, outbox, writes, reads, outbound, inbound, ended, touched>>

\* A program that used freed memory, or threw, is not followed.
ChNext ==
  /\ touched = "no"
  /\ \/ session_write \/ close_socket \/ LetGo \/ Posted
     \/ HeaderHandler \/ MessageHandler \/ NoMessage \/ ReadFails \/ WriteHandler \/ WriteFails \/ PeerGone

-----------------------------------------------------------------------------
(***************************************************************************)
(* One write is outstanding at a time, and one read; and the peer gets the *)
(* messages in the order of the calls of write, none twice and none left   *)
(* out, whatever fails: after a failed write there is never another one.   *)
(***************************************************************************)
SessionInOrder ==
  /\ Len(writes) <= 1 /\ Len(reads) <= 1
  /\ \A i \in DOMAIN outbound : outbound[i] = i

(***************************************************************************)
(* Once a read has called error_handler_, no read is outstanding but the   *)
(* one that follows an unreadable size, and no message comes any more.     *)
(***************************************************************************)
QuietAfterError == ended => \A i \in DOMAIN reads : reads[i].what = "nothing"

(***************************************************************************)
(* Messages, failures and the end of the session come in any order: what   *)
(* was written is sent in order, and a read that failed is the last.       *)
(***************************************************************************)
SessionSafe == SessionInOrder /\ QuietAfterError

=============================================================================
