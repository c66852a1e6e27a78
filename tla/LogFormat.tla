----------------------------- MODULE LogFormat ------------------------------
(***************************************************************************)
(* easylogging++: how a format becomes a line.  A format is parsed when a  *)
(* logger is configured; %level and %logger are put in then, the other     *)
(* specifiers one after the other when a line is built.  Each of these     *)
(* passes searches the result of the ones before it, and removes escapes.  *)
(*                                                                         *)
(* A text is a sequence of tokens: specifiers, the escape character, and   *)
(* anything else.  A specifier preceded by the escape character is text.   *)
(***************************************************************************)
EXTENDS Integers, SequencesExt

Escape == "%"
Specifiers == {"%datetime", "%level", "%logger", "%func", "%msg"}

Found(text, spec) == {i \in DOMAIN text : text[i] = spec}
Escaped(text, i) == i > 1 /\ text[i - 1] = Escape

\* The first occurrence that is not escaped; 0 if there is none.
FirstUnescaped(text, spec) ==
  SelectInSeq([i \in DOMAIN text |-> text[i] = spec /\ ~Escaped(text, i)], LAMBDA b : b)

\* text with each token replaced by a sequence, the empty one to erase it.
Substitute(text, sub(_)) == FlattenSeq([i \in DOMAIN text |-> sub(i)])

(***************************************************************************)
(* Str::replaceFirstWithEscape: searching from the left, escapes are       *)
(* erased up to the first occurrence that is not escaped, which is         *)
(* replaced.                                                               *)
(***************************************************************************)
replaceFirstWithEscape(text, spec, value) ==
  LET first == FirstUnescaped(text, spec)
      erase == {i - 1 : i \in {j \in Found(text, spec) : Escaped(text, j) /\ (first = 0 \/ j < first)}}
  IN Substitute(text, LAMBDA i : IF i \in erase THEN <<>> ELSE IF i = first THEN value ELSE <<text[i]>>)

(***************************************************************************)
(* conditionalAddFlag: the specifier is flagged at its first occurrence    *)
(* that is not escaped; escapes after that one are erased.                 *)
(***************************************************************************)
Unescape(text, spec) ==
  LET first == FirstUnescaped(text, spec)
      erase == {i - 1 : i \in {j \in Found(text, spec) : first # 0 /\ j > first /\ Escaped(text, j)}}
  IN Substitute(text, LAMBDA i : IF i \in erase THEN <<>> ELSE <<text[i]>>)

\* The value of a specifier in a line of a level.
Value(spec, level, message) ==
  CASE spec = "%level" -> <<level>>
    [] spec = "%logger" -> <<"default">>
    [] spec = "%datetime" -> <<"now">>
    [] spec = "%func" -> <<"function">>
    [] spec = "%msg" -> message

flagged(text) == {spec \in Specifiers : FirstUnescaped(text, spec) # 0}

(***************************************************************************)
(* parseFromFormat and updateFormatSpec; a format of Level::Global keeps   *)
(* its %level.  resolveLoggerFormatSpec follows, for every level.          *)
(***************************************************************************)
parseFromFormat(level, text) ==
  LET parsed == FoldLeft(Unescape, text, <<"%level", "%logger", "%func", "%msg">>)
      leveled == IF level = "Global" THEN parsed
                   ELSE replaceFirstWithEscape(parsed, "%level", Value("%level", level, <<>>))
  IN [level |-> level, flags |-> flagged(text),
      format |-> replaceFirstWithEscape(leveled, "%logger", Value("%logger", level, <<>>))]

BuildIn(order, logFormat, message) ==
  LET put(text, spec) == IF spec \notin logFormat.flags THEN text
                           ELSE replaceFirstWithEscape(text, spec, Value(spec, logFormat.level, message))
  IN FoldLeft(put, logFormat.format, order)

\* DefaultLogBuilder::build
build(logFormat, message) == BuildIn(<<"%datetime", "%func", "%msg">>, logFormat, message)

(***************************************************************************)
(* What a line is meant to be, in one pass over the format: the first      *)
(* occurrence of a specifier that is not escaped is replaced, escapes of   *)
(* specifiers that are in use are removed, the message is left alone.      *)
(***************************************************************************)
LineOf(text, level, message) ==
  LET inuse == flagged(text) \cup {"%level", "%logger"}
  IN Substitute(text, LAMBDA i :
       IF text[i] = Escape /\ i < Len(text) /\ text[i + 1] \in inuse THEN <<>>
       ELSE IF text[i] \in Specifiers /\ i = FirstUnescaped(text, text[i]) THEN Value(text[i], level, message)
       ELSE <<text[i]>>)

=============================================================================
