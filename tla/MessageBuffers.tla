--------------------------- MODULE MessageBuffers ---------------------------
(***************************************************************************)
(* How messages get onto sockets: write(), do_write and generate_buffers,  *)
(* which server and client share.  generate_buffers keeps the header and   *)
(* the data of the message in two static strings, one pair for the whole   *)
(* process, and hands async_write pointers into them; async_write sends    *)
(* from there until it is done, which takes as long as the peer takes to   *)
(* read.                                                                   *)
(*                                                                         *)
(* The k-th message written to socket s is the pair <<s, k>>, on the wire  *)
(* the two parts header and data.  Assigning a static string frees its old *)
(* storage; what a write still pointing there sends is undefined, and is   *)
(* taken to be the new contents.                                           *)
(***************************************************************************)
EXTENDS Naturals, Sequences

CONSTANTS
  Sockets,     \* the connections of the process: one in a client
  MaxMessages  \* bound: messages written to each socket

ASSUME MaxMessagesAssumption == MaxMessages \in Nat

VARIABLES
  written,    \* how many messages were given to write(), by socket
  write_msgs, \* write_msgs_, by socket
  writer,     \* the async_write of the socket: idle, busy or failed
  parts,      \* how many parts of its message it has sent
  static,     \* the message in the static strings
  wire        \* the parts sent, by socket

vars == <<written, write_msgs, writer, parts, static, wire>>

none == <<>>

Init ==
  /\ written = [s \in Sockets |-> 0]
  /\ write_msgs = [s \in Sockets |-> <<>>]
  /\ writer = [s \in Sockets |-> "idle"]
  /\ parts = [s \in Sockets |-> 0]
  /\ static = none
  /\ wire = [s \in Sockets |-> <<>>]

\* do_write for message m: generate_buffers fills the static strings.
do_write(s, m) ==
  /\ static' = m
  /\ writer' = [writer EXCEPT ![s] = "busy"]
  /\ parts' = [parts EXCEPT ![s] = 0]

\* Fault: do_write is called whether or not a write is in progress.
WriteAtOnce(s) ==
  /\ written[s] < MaxMessages
  /\ written' = [written EXCEPT ![s] = @ + 1]
  /\ write_msgs' = [write_msgs EXCEPT ![s] = Append(@, <<s, written[s] + 1>>)]
  /\ do_write(s, <<s, written[s] + 1>>)
  /\ UNCHANGED wire

\* The function posted by write().
Write(s) ==
  /\ written[s] < MaxMessages
  /\ written' = [written EXCEPT ![s] = @ + 1]
  /\ write_msgs' = [write_msgs EXCEPT ![s] = Append(@, <<s, written[s] + 1>>)]
  /\ IF write_msgs[s] = <<>>
     THEN do_write(s, <<s, written[s] + 1>>)
     ELSE UNCHANGED <<static, writer, parts>>
  /\ UNCHANGED wire

\* async_write: the socket takes the next part.
Send(s) ==
  /\ writer[s] = "busy" /\ parts[s] < 2
  /\ wire' = [wire EXCEPT ![s] = Append(@, <<parts[s], static>>)]
  /\ parts' = [parts EXCEPT ![s] = @ + 1]
  /\ UNCHANGED <<written, write_msgs, writer, static>>

\* Fault: the next message is not started.
SentOnce(s) ==
  /\ writer[s] = "busy" /\ parts[s] = 2
  /\ write_msgs' = [write_msgs EXCEPT ![s] = Tail(@)]
  /\ writer' = [writer EXCEPT ![s] = "idle"]
  /\ UNCHANGED <<written, parts, static, wire>>

\* The handler of async_write.
Sent(s) ==
  /\ writer[s] = "busy" /\ parts[s] = 2
  /\ write_msgs' = [write_msgs EXCEPT ![s] = Tail(@)]
  /\ IF Len(write_msgs[s]) > 1
     THEN do_write(s, write_msgs[s][2])
     ELSE writer' = [writer EXCEPT ![s] = "idle"] /\ UNCHANGED <<parts, static>>
  /\ UNCHANGED <<written, wire>>

\* The handler of a failed async_write; the message stays in write_msgs_.
Failed(s) ==
  /\ writer[s] = "busy" /\ parts[s] < 2
  /\ writer' = [writer EXCEPT ![s] = "failed"]
  /\ UNCHANGED <<written, write_msgs, parts, static, wire>>

Next == \E s \in Sockets : Write(s) \/ Send(s) \/ Sent(s) \/ Failed(s)

\* A socket that does not fail takes the parts in the end.
Spec == Init /\ [][Next]_vars /\ \A s \in Sockets : WF_vars(Send(s)) /\ WF_vars(Sent(s))

-----------------------------------------------------------------------------
(***************************************************************************)
(* Properties.                                                             *)
(***************************************************************************)

(***************************************************************************)
(* README.md: "your following messages will be delivered".  The peer gets  *)
(* the messages written to its socket, each one's header and data, in the  *)
(* order of the calls and nothing else.                                    *)
(***************************************************************************)
StreamIntact ==
  \A s \in Sockets : \A i \in 1..Len(wire[s]) :
    wire[s][i] = <<(i - 1) % 2, <<s, (i + 1) \div 2>>>>

=============================================================================
