----------------------------- MODULE MCLogging ------------------------------
(***************************************************************************)
(* Logging, and the configuration file of LogFile, for TLC.  They share    *)
(* nothing: a behaviour is one of one of them, and the other stays in its  *)
(* initial state.                                                          *)
(***************************************************************************)
EXTENDS Logging, LogFile

VARIABLE part

\* The format of init_logger(), and one with escapes on both sides of specifiers.
MCTexts ==
  { <<"%datetime", "%level", "%func", "%msg">>,
    <<"%", "%msg", "%level", "%", "%level", "%msg", "%func", "%", "%msg">> }

\* A message of two pieces, and one that is a specifier.
MCMessages == { <<"user", "text">>, <<"%func">> }

\* What the proof about lines supposes of the formats.
ASSUME MCFormatsAsMeant == FormatsAsMeant

\* LogFile: every body of up to four characters, and of five after a quote.
FileValue(body, quoted, comment) == [body |-> body, quoted |-> quoted, comment |-> comment]
MCValues == { FileValue(<<"x">>, FALSE, <<>>), FileValue(<<"y", Hash, Hash>>, TRUE, <<"c">>) }
Bodies == SeqOf({"x", Hash, Quote}, 4) \cup {<<Quote>> \o s : s \in SeqOf({"x", Quote}, 4)}
MCOddValues ==
  {FileValue(b, q, c) : b \in Bodies, q \in BOOLEAN, c \in {<<>>, <<"c">>, <<Quote, "c", Quote>>}} \ MCValues
ASSUME MCReadAsMeant == ReadAsMeant

\* The threads are alike.
ThreadSymmetry == Permutations(Threads)

-----------------------------------------------------------------------------
mcvars == <<part, lvars, fvars>>

MCInit == part \in {"logging", "file"} /\ LInit /\ FInit

MCNext ==
  \/ part = "logging" /\ LNext /\ UNCHANGED <<part, fvars>>
  \/ part = "file" /\ FNext /\ UNCHANGED <<part, lvars>>

MCSpec == MCInit /\ [][MCNext]_mcvars

=============================================================================
