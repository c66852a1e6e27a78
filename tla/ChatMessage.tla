---------------------------- MODULE ChatMessage -----------------------------
(***************************************************************************)
(* chat_message as an object: made, changed by its setters, copied (as     *)
(* write() does), and turned into bytes by generate_buffers, which the     *)
(* peer decodes.  The bytes are in two static strings that all messages    *)
(* share; a message only remembers that it has filled them.                *)
(***************************************************************************)
EXTENDS Integers, SequencesExt

CONSTANTS
  Objects,     \* chat_message objects
  Texts,       \* strings given to them
  NameLimit,   \* source_max_length, which is target_max_length
  TextLimit,   \* content_max_length
  MaxCalls     \* bound: calls

ASSUME LimitsAssumption == NameLimit \in Nat /\ TextLimit \in Nat /\ NameLimit <= TextLimit

ASSUME TextsAssumption == Texts \subseteq Seq(UNION {Range(s) : s \in Texts})

\* The enumeration, whose places are on the wire.
ChatTypes == <<"text", "command", "status", "unknown">>

\* Names in the log.
to_int(t) == [command |-> 0, text |-> 1, status |-> 2, unknown |-> 3][t]
to_string(t) == <<"command", "text", "status", "unknown">>[to_int(t) + 1]

VARIABLES
  object,      \* the objects: their fields and buffers_cached_
  statics,     \* the static strings: the data of a message
  fills,       \* history: how often they were filled
  asked,       \* history: what each object was last given, and the fill that was its own
  output,      \* history: the last call of generate_buffers, and what the peer would decode
  ncalls

ovars == <<object, statics, fills, asked, output, ncalls>>

-----------------------------------------------------------------------------
truncated(s, size) == IF Len(s) > size THEN SubSeq(s, 1, size) ELSE s

Fields(source, target, content, type) ==
  [source |-> source, target |-> target, content |-> content, type |-> type]

NoFields == Fields(<<>>, <<>>, <<>>, "unknown")

Chat(fields, cached) == [fields |-> fields, cached |-> cached]

Called == ncalls < MaxCalls /\ ncalls' = ncalls + 1

Construct(o, source, target, content, type) ==
  /\ Called
  /\ object' = [object EXCEPT ![o] = Chat(
       Fields(truncated(source, NameLimit), truncated(target, NameLimit), truncated(content, TextLimit), type), FALSE)]
  /\ asked' = [asked EXCEPT ![o] = [fields |-> Fields(source, target, content, type), fill |-> 0]]
  /\ UNCHANGED <<statics, fills, output>>

\* Fault: the buffers stay.
set_cached(o, field, s) ==
  /\ object' = [object EXCEPT ![o].fields[field] = truncated(s, NameLimit)]
  /\ asked' = [asked EXCEPT ![o].fields[field] = s]

\* set_target, set_source and set_content, all of which keep as much as of a name.
set_(o, field, s) ==
  /\ object' = [object EXCEPT ![o] = Chat([@.fields EXCEPT ![field] = truncated(s, NameLimit)], FALSE)]
  /\ asked' = [asked EXCEPT ![o].fields[field] = s]

SetField(o, field, s) == Called /\ set_(o, field, s) /\ UNCHANGED <<statics, fills, output>>

\* The copy remembers the buffers too.
CopyTo(o, p) ==
  /\ o # p /\ Called
  /\ object' = [object EXCEPT ![p] = object[o]]
  /\ asked' = [asked EXCEPT ![p] = asked[o]]
  /\ UNCHANGED <<statics, fills, output>>

\* The archive has the values in the order of serialize(), and reads them in that order.
serialize_chat_message(fields) ==
  <<SelectInSeq(ChatTypes, LAMBDA t : t = fields.type), fields.source, fields.target, fields.content>>
deserialize_chat_message(data) ==
  [type |-> ChatTypes[data[1]], source |-> data[2], target |-> data[3], content |-> data[4]]

generate_buffers(o) ==
  /\ Called
  /\ IF object[o].cached THEN UNCHANGED <<object, statics, fills, asked>>
     ELSE /\ statics' = serialize_chat_message(object[o].fields)
          /\ object' = [object EXCEPT ![o].cached = TRUE]
          /\ fills' = fills + 1
          /\ asked' = [asked EXCEPT ![o].fill = fills + 1]
  /\ output' = [of |-> asked[o].fields, own |-> asked'[o].fill = fills',
                decoded |-> deserialize_chat_message(statics')]

OInit ==
  /\ object = [o \in Objects |-> Chat(NoFields, FALSE)]
  /\ statics = <<>>
  /\ fills = 0
  /\ asked = [o \in Objects |-> [fields |-> NoFields, fill |-> 0]]
  /\ output = [of |-> NoFields, own |-> FALSE, decoded |-> NoFields]
  /\ ncalls = 0

ONext ==
  \E o \in Objects :
    \/ \E s \in Texts, type \in Range(ChatTypes) : Construct(o, s, s, s, type)
    \/ \E field \in {"source", "target", "content"}, s \in Texts : SetField(o, field, s)
    \/ \E p \in Objects : CopyTo(o, p)
    \/ generate_buffers(o)

-----------------------------------------------------------------------------
\* What may be left of s.
CutTo(kept, s, limit) == IsPrefix(kept, s) /\ (Len(kept) = Len(s) \/ Len(kept) = limit)

(***************************************************************************)
(* The peer decodes the message generate_buffers was called for, as it was *)
(* last set, each field cut to its limit if it is longer, also if it was   *)
(* changed after its buffers were made.  Content that was set later is cut *)
(* to the limit of names.  This is so as long as no other message used the *)
(* static strings since they were filled for this one.                     *)
(***************************************************************************)
DecodedAsSet ==
  output.own =>
    /\ CutTo(output.decoded.source, output.of.source, NameLimit)
    /\ CutTo(output.decoded.target, output.of.target, NameLimit)
    /\ \/ CutTo(output.decoded.content, output.of.content, TextLimit)
       \/ CutTo(output.decoded.content, output.of.content, NameLimit)
    /\ output.decoded.type = output.of.type /\ to_string(output.decoded.type) = output.of.type

=============================================================================
