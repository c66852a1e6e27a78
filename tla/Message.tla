------------------------------ MODULE Message -------------------------------
(***************************************************************************)
(* The class message, an earlier form of chat_message that is still in the *)
(* repository: one buffer with a header (type and size, as numbers in      *)
(* fields of fixed width), a target and the content.  data() and           *)
(* total_size() bytes of it are sent; the receiver reads header_size()     *)
(* bytes into a message of its own, calls decode(), and reads the rest.    *)
(*                                                                         *)
(* The buffer is not initialized: its bytes may be anything at first.      *)
(***************************************************************************)
EXTENDS Integers, SequencesExt

CONSTANTS
  max_length, target_size,                    \* of content and target
  message_type_length_, message_size_length_, \* widths of the fields
  Contents, Targets                           \* what is sent; some are too long by one

NUL == "nul"

\* There is room for the "-" that every message has for a target at first.
ASSUME RoomAssumption == max_length \in Nat /\ target_size \in Nat /\ target_size >= 2

\* Strings; a target is a name, and names are of letters and digits.
ASSUME StringsAssumption ==
  /\ Contents \subseteq Seq(UNION {Range(s) : s \in Contents})
  /\ Targets \subseteq Seq((UNION {Range(s) : s \in Targets}) \ {NUL})

\* What is behind the header; one byte more than is ever used.
BodySize == target_size + max_length + 1

\* Bytes of which strlen needs to know only if they are zero.
Uninitialized == [1..BodySize -> {NUL, "old"}]

MessageTypes == {"text", "command", "status", "unknown"}

-----------------------------------------------------------------------------
message_type_to_int(mt) == CASE mt = "command" -> 0 [] mt = "text" -> 1 [] OTHER -> -1
int_to_message_type(i) == CASE i = 0 -> "command" [] i = 1 -> "text" [] OTHER -> "unknown"

\* Characters in which a number below 1000 is printed, at least width.
Printed(i, width) ==
  LET digits == CASE i < 0 -> 2 [] i \in 0..9 -> 1 [] i \in 10..99 -> 2 [] OTHER -> 3
  IN IF digits > width THEN digits ELSE width

\* encode() throws if a number needs more than its field.
Encodable(type, size) ==
  Printed(message_type_to_int(type), message_type_length_) + Printed(size, message_size_length_)
    = message_type_length_ + message_size_length_

\* Fault: the content begins where the target does.
content_begin_target == 0

\* Places in the body, before the first byte of each part.
target_begin == 0
content_begin == target_size

\* std::copy to a place in the body.
Copied(body, at, s) == [i \in 1..BodySize |-> IF i - at \in DOMAIN s THEN s[i - at] ELSE body[i]]

content(m) == SubSeq(m.body, content_begin + 1, content_begin + m.size)

\* Up to the first zero; strlen runs over the end if there is none.
HasZero(m) == NUL \in Range(m.body)
target(m) == SubSeq(m.body, 1, SelectInSeq(m.body, LAMBDA b : b = NUL) - 1)

total_size(m) == m.size + target_size

-----------------------------------------------------------------------------
VARIABLES
  given,     \* history: content, target and type the message was made from
  sent_msg,  \* the sender's message
  received,  \* the receiver's
  stage      \* making, sent, decoded, read; or thrown: a length_error

msgvars == <<given, sent_msg, received, stage>>

\* message()
Blank(body) == [header |-> <<"unknown", 0>>, type |-> "unknown", size |-> 0, body |-> body]

MsgInit ==
  /\ given = [content |-> <<>>, target |-> <<>>, type |-> "unknown"]
  /\ sent_msg \in {Blank(b) : b \in Uninitialized}
  /\ received \in {Blank([i \in 1..BodySize |-> b]) : b \in {NUL, "old"}}
  /\ stage = "making"

\* message(s, type): the target is "-".
Made(m, s, type) ==
  LET body == Copied(Copied(m.body, content_begin, s), target_begin, <<"-", NUL>>)
  IN [header |-> <<type, Len(s)>>, type |-> type, size |-> Len(s), body |-> body]

MakeTyped(s, type) ==
  /\ stage = "making"
  /\ given' = [content |-> s, target |-> <<"-">>, type |-> type]
  /\ IF Len(s) < max_length /\ Encodable(type, Len(s))
     THEN sent_msg' = Made(sent_msg, s, type) /\ stage' = "sent"
     ELSE stage' = "thrown" /\ UNCHANGED sent_msg
  /\ UNCHANGED received

\* message(s, target): a text; the target is copied over the "-", without a zero behind it.
MakeTargeted(s, t) ==
  /\ stage = "making"
  /\ given' = [content |-> s, target |-> IF t = <<>> THEN <<"-">> ELSE t, type |-> "text"]
  /\ IF Len(s) < max_length /\ Encodable("text", Len(s)) /\ Len(t) < target_size
     THEN /\ sent_msg' = [Made(sent_msg, s, "text") EXCEPT !.body = Copied(@, target_begin, t)]
          /\ stage' = "sent"
     ELSE stage' = "thrown" /\ UNCHANGED sent_msg
  /\ UNCHANGED received

\* The header has come: decode().
decode ==
  /\ stage = "sent"
  /\ received' = [received EXCEPT
                    !.header = sent_msg.header,
                    !.type = int_to_message_type(message_type_to_int(sent_msg.header[1])),
                    !.size = sent_msg.header[2]]
  /\ stage' = "decoded"
  /\ UNCHANGED <<given, sent_msg>>

\* The rest has come, as many bytes as the receiver asks for.
ReadBody ==
  /\ stage = "decoded"
  /\ received' = [received EXCEPT !.body = Copied(@, 0, SubSeq(sent_msg.body, 1, total_size(received)))]
  /\ stage' = "read"
  /\ UNCHANGED <<given, sent_msg>>

\* The receiver keeps its message for the next one; the next one is made in new memory.
NextMessage ==
  /\ stage \in {"read", "thrown"}
  /\ stage' = "making"
  /\ sent_msg' \in {Blank([i \in 1..BodySize |-> b]) : b \in {NUL, "old"}}
  /\ given' = [content |-> <<>>, target |-> <<>>, type |-> "unknown"]
  /\ UNCHANGED received

MsgNext ==
  \/ \E s \in Contents :
       \/ \E type \in MessageTypes : MakeTyped(s, type)
       \/ \E t \in Targets : MakeTargeted(s, t)
  \/ decode \/ ReadBody \/ NextMessage

-----------------------------------------------------------------------------
(***************************************************************************)
(* A message that was read has the content and the type it was made with   *)
(* (types other than text and command become unknown), whatever was in the *)
(* two buffers before, and a target that begins with the one it was made   *)
(* with.  It is that one if it is one character, or "-"; a longer one goes *)
(* on with what was in the sender's buffer, up to a zero.                  *)
(***************************************************************************)
MessageArrives ==
  stage = "read" =>
    /\ content(received) = given.content
    /\ received.type = IF given.type \in {"text", "command"} THEN given.type ELSE "unknown"
    /\ HasZero(received) => IsPrefix(given.target, target(received))
    /\ Len(given.target) = 1 => HasZero(received) /\ target(received) = given.target

=============================================================================
