----------------------------- MODULE ChatClient -----------------------------
(***************************************************************************)
(* The client once it is connected: main() reads lines on one thread, the  *)
(* handlers of chat_client run on another, inside io_service.run().  What  *)
(* happens on the way from write() to the socket is MessageBuffers, on the *)
(* client's one socket.                                                    *)
(*                                                                         *)
(* main() calls write() and close(), which post a function each; posted    *)
(* functions run in order.  Reads and writes complete at any time between. *)
(* An exception that leaves a handler leaves run() and ends the process:   *)
(* shutdown() throws if the connection was reset, and the decoding of a    *)
(* message if its bytes are not one.                                       *)
(***************************************************************************)
EXTENDS MessageBuffers, Queues

CONSTANTS
  socket,    \* socket_
  MaxPosted  \* bound: posted functions, for the lines typed

ASSUME SocketAssumption == Sockets = {socket}

VARIABLES
  main,    \* main(): in its loop, in t.join(), or at the end
  io,      \* the io thread: inside run(), or run() has returned
  posted,  \* functions posted and not run yet
  reader,  \* the read that is outstanding, see Readers
  open,    \* socket_ is open
  peer,    \* the connection: up, closed by the server, or reset
  crashed, \* an exception has left a handler
  garbled  \* history: bytes came that are no header or no message

cvars == <<main, io, posted, reader, open, peer, crashed, garbled>>
allvars == <<vars, cvars>>

(***************************************************************************)
(* header, message: waiting for bytes; if the socket is closed, these have *)
(* come before.  empty: a message of no bytes, which is complete at once.  *)
(* aborted: cancelled by close().  failed: started on a closed socket.     *)
(* ended: the read loop is over.                                           *)
(***************************************************************************)
Readers == {"header", "message", "empty", "aborted", "failed", "ended"}

CInit ==
  /\ Init
  /\ main = "lines" /\ io = "running"
  /\ posted = <<>>
  /\ reader = "header"
  /\ open = TRUE /\ peer = "up"
  /\ crashed = FALSE /\ garbled = FALSE

\* Calls of write() so far.
Typed == written[socket] + HowMany(posted, {"write"})

post(f) == posted' = Append(posted, f)

-----------------------------------------------------------------------------
(***************************************************************************)
(* The main thread.                                                        *)
(***************************************************************************)

\* A line that is a message or a command.  Once run() has returned, nothing
\* posted is run.
Line ==
  /\ main = "lines" /\ ~crashed
  /\ Typed < MaxMessages /\ Len(posted) < MaxPosted
  /\ post("write")
  /\ UNCHANGED <<vars, main, io, reader, open, peer, crashed, garbled>>

\* Fault: t.join() without close().
QuitLineOpen ==
  /\ main = "lines" /\ ~crashed
  /\ main' = "joining"
  /\ UNCHANGED <<vars, io, posted, reader, open, peer, crashed, garbled>>

\* "/q", "/quit" or the end of std::cin: close() and t.join().
QuitLine ==
  /\ main = "lines" /\ ~crashed
  /\ main' = "joining"
  /\ post("close")
  /\ UNCHANGED <<vars, io, reader, open, peer, crashed, garbled>>

Join ==
  /\ main = "joining" /\ io = "returned" /\ ~crashed
  /\ main' = "done"
  /\ UNCHANGED <<vars, io, posted, reader, open, peer, crashed, garbled>>

-----------------------------------------------------------------------------
(***************************************************************************)
(* The io thread.                                                          *)
(***************************************************************************)

Running == io = "running" /\ ~crashed

\* The function posted by write().
PostedWrite ==
  /\ Running /\ posted # <<>> /\ Head(posted) = "write"
  /\ Write(socket)
  /\ posted' = Tail(posted)
  /\ UNCHANGED <<main, io, reader, open, peer, crashed, garbled>>

\* Fault: it is not asked whether the socket is open.
PostedCloseAgain ==
  /\ Running /\ posted # <<>> /\ Head(posted) = "close"
  /\ posted' = Tail(posted)
  /\ IF ~open \/ peer = "reset"
     THEN crashed' = TRUE /\ UNCHANGED <<open, reader>>
     ELSE /\ open' = FALSE
          /\ reader' \in IF reader \in {"header", "message"} THEN {reader, "aborted"} ELSE {reader}
          /\ UNCHANGED crashed
  /\ UNCHANGED <<vars, main, io, peer, garbled>>

(***************************************************************************)
(* The function posted by close(): shutdown() and close(), which cancels   *)
(* the read unless its bytes have come.                                    *)
(***************************************************************************)
PostedClose ==
  /\ Running /\ posted # <<>> /\ Head(posted) = "close"
  /\ posted' = Tail(posted)
  /\ CASE ~open -> UNCHANGED <<open, reader, crashed>>
       [] open /\ peer = "reset" -> crashed' = TRUE /\ UNCHANGED <<open, reader>>
       [] open /\ peer # "reset" ->
            /\ open' = FALSE
            /\ reader' \in IF reader \in {"header", "message"} THEN {reader, "aborted"} ELSE {reader}
            /\ UNCHANGED crashed
  /\ UNCHANGED <<vars, main, io, peer, garbled>>

\* async_read, started on the socket as it is.
read(r) == reader' = IF open THEN r ELSE "failed"

HeaderRead ==
  /\ Running /\ reader = "header" /\ peer # "reset"
  /\ read("message")
  /\ UNCHANGED <<vars, main, io, posted, open, peer, crashed, garbled>>

\* error_handler, and then a read of no bytes, which succeeds.
HeaderUnreadable ==
  /\ Running /\ reader = "header" /\ peer # "reset"
  /\ post("close")
  /\ read("empty")
  /\ garbled' = TRUE
  /\ UNCHANGED <<vars, main, io, open, peer, crashed>>

\* A text or a status is printed, an unknown message is not.
MessageRead ==
  /\ Running /\ reader = "message" /\ peer # "reset"
  /\ read("header")
  /\ UNCHANGED <<vars, main, io, posted, open, peer, crashed, garbled>>

\* handle_message answers a ping with a pong.
PingRead ==
  /\ Running /\ reader = "message" /\ peer # "reset"
  /\ Typed < MaxMessages
  /\ post("write")
  /\ read("header")
  /\ UNCHANGED <<vars, main, io, open, peer, crashed, garbled>>

\* deserialize_chat_message throws.
DecodeError ==
  /\ Running
  /\ reader = "empty" \/ (reader = "message" /\ peer # "reset")
  /\ crashed' = TRUE /\ garbled' = TRUE
  /\ UNCHANGED <<vars, main, io, posted, reader, open, peer>>

\* operation_aborted: the read loop just ends.
ReadAborted ==
  /\ Running /\ reader = "aborted"
  /\ reader' = "ended"
  /\ UNCHANGED <<vars, main, io, posted, open, peer, crashed, garbled>>

\* Fault: the read loop just ends.
ReadErrorIgnored ==
  /\ Running
  /\ reader = "failed" \/ (reader \in {"header", "message"} /\ open /\ peer # "up")
  /\ reader' = "ended"
  /\ UNCHANGED <<vars, main, io, posted, open, peer, crashed, garbled>>

\* error_handler, which posts a close().
ReadError ==
  /\ Running
  /\ reader = "failed" \/ (reader \in {"header", "message"} /\ open /\ peer # "up")
  /\ reader' = "ended"
  /\ post("close")
  /\ UNCHANGED <<vars, main, io, open, peer, crashed, garbled>>

WritePart ==
  /\ Running /\ open /\ peer # "reset"
  /\ Send(socket)
  /\ UNCHANGED cvars

WriteDone ==
  /\ Running
  /\ Sent(socket)
  /\ UNCHANGED cvars

\* Fault: the write is tried again.
WriteErrorAgain ==
  /\ Running /\ (~open \/ peer # "up")
  /\ writer[socket] = "busy" /\ parts[socket] < 2
  /\ post("close")
  /\ UNCHANGED <<vars, main, io, reader, open, peer, crashed, garbled>>

\* error_handler; do_write is not called again.
WriteError ==
  /\ Running /\ (~open \/ peer # "up")
  /\ Failed(socket)
  /\ post("close")
  /\ UNCHANGED <<main, io, reader, open, peer, crashed, garbled>>

\* Nothing is outstanding: run() returns.
RunReturns ==
  /\ Running /\ posted = <<>> /\ reader = "ended" /\ writer[socket] # "busy"
  /\ io' = "returned"
  /\ UNCHANGED <<vars, main, posted, reader, open, peer, crashed, garbled>>

\* The server closes the connection, or it is reset.
PeerEnds ==
  /\ open /\ ~crashed
  /\ peer' \in {"eof", "reset"} \ {peer} /\ peer # "reset"
  /\ UNCHANGED <<vars, main, io, posted, reader, open, crashed, garbled>>

-----------------------------------------------------------------------------
\* What run() has ready to run, whatever the peer does.
Ready ==
  \/ PostedWrite \/ PostedClose \/ ReadAborted \/ ReadError \/ WriteDone \/ WriteError \/ RunReturns
  \/ (~open /\ (HeaderRead \/ HeaderUnreadable \/ MessageRead \/ PingRead \/ DecodeError))

Terminated == (crashed \/ main = "done") /\ UNCHANGED allvars

CNext ==
  \/ Line \/ QuitLine \/ Join
  \/ PostedWrite \/ PostedClose
  \/ HeaderRead \/ HeaderUnreadable \/ MessageRead \/ PingRead \/ DecodeError
  \/ ReadAborted \/ ReadError \/ WritePart \/ WriteDone \/ WriteError \/ RunReturns
  \/ PeerEnds \/ Terminated

(***************************************************************************)
(* Both threads run; run() takes posted functions in turn; the socket      *)
(* takes what is written while the connection is up.  Nobody has to type   *)
(* or to quit, and the server need not send anything.                      *)
(***************************************************************************)
CSpec ==
  /\ CInit /\ [][CNext]_allvars
  /\ WF_allvars(Ready) /\ WF_allvars(Join)
  /\ WF_allvars(PostedWrite) /\ WF_allvars(PostedClose)
  /\ WF_allvars(WritePart) /\ WF_allvars(WriteDone)

-----------------------------------------------------------------------------
(***************************************************************************)
(* Properties.                                                             *)
(***************************************************************************)

(***************************************************************************)
(* The client's variables keep their shape, no more is queued than typed,  *)
(* and close() is pending at most once from each of main(), the read loop, *)
(* and the write loop.                                                     *)
(***************************************************************************)
CTypeOK ==
  /\ main \in {"lines", "joining", "done"} /\ io \in {"running", "returned"}
  /\ posted \in Seq({"write", "close"})
  /\ reader \in Readers /\ open \in BOOLEAN
  /\ peer \in {"up", "eof", "reset"} /\ crashed \in BOOLEAN /\ garbled \in BOOLEAN
  /\ writer[socket] \in {"idle", "busy", "failed"}
  /\ Typed <= MaxMessages
  /\ HowMany(posted, {"close"}) <= 3

(***************************************************************************)
(* As long as the server's bytes are messages and the connection is not    *)
(* reset, no exception leaves a handler, although close() is posted by     *)
(* main(), by failed reads and by failed writes, in any order and more     *)
(* than once.                                                              *)
(***************************************************************************)
CrashNeedsCause == crashed => garbled \/ peer = "reset"

(***************************************************************************)
(* A line typed, or a pong, is sent, unless the connection ends: the       *)
(* messages queue up behind a write, and each write starts the next.       *)
(***************************************************************************)
TypedIsSent ==
  \A k \in 1..MaxMessages :
    (Typed >= k) ~> (Len(wire[socket]) >= 2 * k \/ ~open \/ peer # "up" \/ crashed)

(***************************************************************************)
(* "/quit" ends the client, whatever the server does: close() cancels the  *)
(* read and the write that keep run() going, and the error handlers post   *)
(* no work without end.                                                    *)
(***************************************************************************)
QuitEndsClient == main = "joining" ~> (main = "done" \/ crashed)

(***************************************************************************)
(* The read loop ends only in a socket that is closed or about to be: the  *)
(* client never keeps a connection it does not read.                       *)
(***************************************************************************)
DeafIsClosing ==
  reader = "ended" => ~open \/ crashed \/ \E i \in 1..Len(posted) : posted[i] = "close"

(***************************************************************************)
(* However the end begins, by "/quit", a failed read or a failed write,    *)
(* close() is pending a bounded number of times, closes what is no longer  *)
(* read, and does not end the process by an exception of its own.          *)
(***************************************************************************)
ClosesInOrder == CTypeOK /\ CrashNeedsCause /\ DeafIsClosing

=============================================================================
