----------------------------- MODULE MCMessages -----------------------------
(***************************************************************************)
(* What messages carry, for TLC: Addressing, where clients write to each   *)
(* other, and the message classes and the session of src/common by         *)
(* themselves.  They share nothing: a behaviour is one of one of them, and *)
(* the others stay in one of their initial states.                         *)
(***************************************************************************)
EXTENDS Addressing, Message, ChatMessage, ChatSession, TLC

VARIABLE part

\* The clients are interchangeable.
Symmetry == Permutations(Clients)

\* Message and ChatMessage: texts of up to one character too many.
MCContents == {SubSeq(<<"a", "b", "c">>, 1, n) : n \in 0..3}
MCTargets == {SubSeq(<<"t", "u", "v">>, 1, n) : n \in 0..3}
MCTexts == {SubSeq(<<"a", "b", "c", "d">>, 1, n) : n \in {0, 1, 3, 4}} \cup {<<"x">>}

-----------------------------------------------------------------------------
mcvars == <<part, vars, msgvars, ovars, cvars>>

MCInit ==
  /\ part \in {"addressing", "message", "object", "session"}
  /\ Init /\ OInit /\ ChInit
  /\ MsgInit /\ (part # "message" => NUL \notin Range(sent_msg.body) \cup Range(received.body))

MCNext ==
  \/ part = "addressing" /\ Next /\ UNCHANGED <<part, msgvars, ovars, cvars>>
  \/ part = "message" /\ MsgNext /\ UNCHANGED <<part, vars, ovars, cvars>>
  \/ part = "object" /\ ONext /\ UNCHANGED <<part, vars, msgvars, cvars>>
  \/ part = "session" /\ ChNext /\ UNCHANGED <<part, vars, msgvars, ovars>>

MCSpec == MCInit /\ [][MCNext]_mcvars

=============================================================================
