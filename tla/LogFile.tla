------------------------------ MODULE LogFile -------------------------------
(***************************************************************************)
(* easylogging++: configureFromGlobal reads a file with a section for each *)
(* logger.  It collects the lines of a section and hands them to           *)
(* Configurations::parseFromText when the next section, or the file, ends. *)
(*                                                                         *)
(* A line starts a section, sets the level for the lines below it, sets a  *)
(* configuration, or is blank or a comment.  The text of a configuration   *)
(* is a sequence of characters, made from what its author meant: a body,   *)
(* in quotes or not, and a comment behind it.  Spaces are left out.        *)
(***************************************************************************)
EXTENDS LogSettings

CONSTANTS
  ShortIds, LongIds,  \* names of loggers, of one character and of more
  Values,             \* values written in any line
  OddValues,          \* bound: values only in the line after the first section and level, of files that end there
  MaxLines,           \* bound: lines of a file
  noLogger            \* nullptr

ASSUME LoggersAssumption == noLogger \notin ShortIds \cup LongIds \cup {"default"}

Quote == "quote"
Backslash == "backslash"
Hash == "#"

SectionLine(id) == [is |-> "section", id |-> id]
LevelLine(level) == [is |-> "level", level |-> level]
ConfigLine(type, value) == [is |-> "config", type |-> type, value |-> value]
BlankLine == [is |-> "blank"]

\* A value: what is meant, whether it is put in quotes, and the comment after it.
Written(value) ==
  LET body == FlattenSeq([i \in DOMAIN value.body |->
                IF value.body[i] = Quote THEN <<Backslash, Quote>> ELSE <<value.body[i]>>])
  IN (IF value.quoted THEN <<Quote>> \o body \o <<Quote>> ELSE body)
     \o (IF value.comment = <<>> THEN <<>> ELSE <<Hash, Hash>> \o value.comment)

-----------------------------------------------------------------------------
(***************************************************************************)
(* The parser.                                                             *)
(***************************************************************************)

\* More than any position.
npos == 100

\* string::find
find(text, what, from) ==
  LET at == {i \in from..(Len(text) - Len(what) + 1) : SubSeq(text, i, i + Len(what) - 1) = what}
  IN IF at = {} THEN npos ELSE CHOOSE i \in at : \A j \in at : i <= j

\* The quote that ends a text: one after a backslash does not, and none of the next two characters is tried.
closing(text, from) ==
  LET closes[i \in Nat] == LET end == find(text, <<Quote>>, i)
                          IN IF end # npos /\ text[end - 1] = Backslash THEN closes[end + 2] ELSE end
  IN closes[from]

ignoreComments(text) ==
  LET start == find(text, <<Quote>>, 1)
      end == IF start = npos THEN npos ELSE closing(text, start + 1)
      first == find(text, <<Hash, Hash>>, 1)
      found == IF first < end THEN find(text, <<Hash, Hash>>, IF end = npos THEN 1 ELSE end + 1) ELSE first
  IN IF found = npos THEN text ELSE SubSeq(text, 1, found - 1)

\* The backslashes before quotes are erased on the way.
unescaped(text, end) ==
  LET erases[s \in Seq(Range(text)), i \in Nat] ==
        IF i # npos /\ s[i - 1] = Backslash
        THEN LET erased == RemoveAt(s, i - 1) IN erases[erased, find(erased, <<Quote>>, i + 2)]
        ELSE <<s, i>>
  IN erases[text, end]

\* The second argument of substr() is a length, which is right for a text that starts with a quote.
currValue(text) ==
  LET start == find(text, <<Quote>>, 1)
      u == IF start = npos THEN <<text, npos>> ELSE unescaped(text, find(text, <<Quote>>, start + 1))
      last == IF start + u[2] - 2 < Len(u[1]) THEN start + u[2] - 2 ELSE Len(u[1])
  IN IF start # npos /\ u[2] # npos /\ start + 1 # u[2] THEN SubSeq(u[1], start + 1, last) ELSE u[1]

\* parseLine; an unknown level or type is reported, and the line has no effect.
parseLine(s, line) ==
  CASE line.is = "level" -> [s EXCEPT !.level = line.level]
    [] line.is = "config" /\ s.level # "Unknown" /\ line.type # "Unknown" ->
         [s EXCEPT !.conf = set(@, s.level, line.type, currValue(ignoreComments(line.text)))]
    [] OTHER -> s

parseFromText(lines) == FoldLeft(parseLine, [level |-> "Unknown", conf |-> <<>>], lines).conf

-----------------------------------------------------------------------------
VARIABLES
  read,     \* the lines read
  ss,       \* the lines of this section, without comments
  current,  \* logger
  loggers,  \* RegisteredLoggers, with the configurations of each
  closed    \* the file is read

fvars == <<read, ss, current, loggers, closed>>

Ids == ShortIds \cup LongIds
Default == <<"default">>

\* The defaults of a logger.
Initially == set(<<>>, Global, "Format", Default)

\* The default logger is registered.
FInit == read = <<>> /\ ss = <<>> /\ current = noLogger /\ loggers = [id \in {"default"} |-> Initially] /\ closed = FALSE

\* configure(), if there is anything to configure.
configure ==
  IF ss # <<>> /\ current # noLogger
  THEN [loggers EXCEPT ![current] = setFromBase(@, parseFromText(ss))]
  ELSE loggers

\* getLogger registers a logger that does not exist.
registered_get(ls, id) == Insert(ls, id, Initially)

\* Fault: the lines collected stay for the next logger.
Section_kept(id) ==
  /\ current' = IF id \in LongIds THEN id ELSE current
  /\ loggers' = IF id \in LongIds THEN registered_get(configure, id) ELSE configure
  /\ UNCHANGED ss

\* A line "-- id": a name of one character is taken for none, and the logger stays.
Section(id) ==
  /\ current' = IF id \in LongIds THEN id ELSE current
  /\ loggers' = IF id \in LongIds THEN registered_get(configure, id) ELSE configure
  /\ ss' = <<>>

\* Any other line is collected.
Collect(line) ==
  /\ ss' = Append(ss, line)
  /\ UNCHANGED <<current, loggers>>

ReadConfig(type, value) ==
  /\ Collect([is |-> "config", type |-> type, text |-> ignoreComments(Written(value))])
  /\ read' = Append(read, ConfigLine(type, value))

\* Files with an odd value end with it.
OddLast == read # <<>> /\ Last(read).is = "config" /\ Last(read).value \notin Values

\* One round of the loop of configureFromGlobal.
ReadLine ==
  /\ ~closed /\ Len(read) < MaxLines /\ ~OddLast
  /\ \/ \E id \in Ids : Section(id) /\ read' = Append(read, SectionLine(id))
     \/ \E level \in Levels \cup {Global, "Unknown"} :
          Collect(LevelLine(level)) /\ read' = Append(read, LevelLine(level))
     \/ Collect(BlankLine) /\ read' = Append(read, BlankLine)
     \/ \E type \in {"Format", "Unknown"}, value \in Values : ReadConfig(type, value)
     \/ /\ Len(read) = 2 /\ read[1].is = "section" /\ read[2].is = "level"
        /\ \E value \in OddValues : ReadConfig("Format", value)
  /\ UNCHANGED closed

\* The file ends; the last section is configured.
EndOfFile ==
  /\ ~closed
  /\ closed' = TRUE
  /\ loggers' = configure
  /\ UNCHANGED <<read, ss, current>>

FNext == ReadLine \/ EndOfFile

-----------------------------------------------------------------------------
(***************************************************************************)
(* What the file says.                                                     *)
(***************************************************************************)

\* The last line before i of a kind; 0 if there is none.
LastBefore(i, kind) == SelectLastInSeq(SubSeq(read, 1, i - 1), LAMBDA l : l.is = kind)

SectionOf(i) == IF LastBefore(i, "section") = 0 THEN noLogger ELSE read[LastBefore(i, "section")].id
LevelOf(i) == IF LastBefore(i, "level") <= LastBefore(i, "section") THEN "Unknown" ELSE read[LastBefore(i, "level")].level

\* Lines that set the format of a level of a logger.
Setting(i, id, levels) ==
  /\ read[i].is = "config" /\ read[i].type = "Format"
  /\ SectionOf(i) = id /\ LevelOf(i) \in levels

\* Values that come out as they are meant.
Readable(value) ==
  /\ Quote \notin Range(value.comment)
  /\ value.quoted => value.body # <<>>
  /\ ~value.quoted => {Quote, Hash} \cap Range(value.body) = {}
  /\ \A i \in DOMAIN value.body : value.body[i] = Quote =>
       Len(value.body) >= i + 2 /\ Quote \notin {value.body[i + 1], value.body[i + 2]}
  /\ Backslash \notin Range(value.body)

\* The parser reads them so.  The text of a line is searched for comments when it is collected,
\* and again when it is parsed.
ReadAsMeant ==
  \A value \in Values \cup OddValues :
    Readable(value) => currValue(ignoreComments(ignoreComments(Written(value)))) = value.body

\* In each section Global's format comes before those of levels, or not at all.
GlobalFirstInSections ==
  \A i, j \in DOMAIN read :
    i < j /\ Setting(j, SectionOf(j), {Global}) /\ Setting(i, SectionOf(j), Levels)
      /\ LastBefore(i, "section") = LastBefore(j, "section")
      => \E k \in 1..i : Setting(k, SectionOf(j), {Global}) /\ LastBefore(k, "section") = LastBefore(j, "section")

(***************************************************************************)
(* When the file is read, each logger it names has for each level the      *)
(* format that its sections gave last, as it was meant: in quotes or not,  *)
(* with a comment or the start of one in the quotes; lines of other        *)
(* sections, before the first section, below no level or an unknown one,   *)
(* have no effect.  Not covered are names of one character, comments with  *)
(* quotes, and quotes close to each other or backslashes in a value, where *)
(* the parser fails; and sections that set a level before Global (see      *)
(* LastSetWins).                                                           *)
(***************************************************************************)
SectionsApplied ==
  closed /\ GlobalFirstInSections
    /\ (\A i \in DOMAIN read : /\ read[i].is = "section" => read[i].id \in LongIds
                               /\ read[i].is = "config" => Readable(read[i].value))
  => \A id \in DOMAIN loggers, l \in Levels :
       LET i == SelectLastInSeq([k \in DOMAIN read |-> Setting(k, id, {l, Global})], LAMBDA b : b)
           conf == loggers[id]
       IN conf[Place(conf, l, "Format")].value = IF i = 0 THEN Default ELSE read[i].value.body

=============================================================================
