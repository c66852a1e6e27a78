----------------------------- MODULE LogConfig ------------------------------
(***************************************************************************)
(* easylogging++: the configuration of a logger.  The program fills a      *)
(* Configurations object by calls of set() and hands it to                 *)
(* reconfigureLogger("default", ...), which merges it into the logger's    *)
(* own and derives the TypedConfigurations that LOG statements read.       *)
(*                                                                         *)
(* Of the types of configuration, the five that decide which lines get     *)
(* written are kept.  A typed configuration is a map from levels, where a  *)
(* level that is missing has the value of Level::Global.                   *)
(***************************************************************************)
EXTENDS LogFormat, LogSettings

CONSTANTS
  Texts,     \* formats
  Files,     \* file names
  Writable,  \* those that can be opened
  null       \* nullptr

ASSUME NullAssumption == null \notin Nat

Types == {"Enabled", "ToFile", "Filename", "Format", "LogFlushThreshold"}

\* Values as the program gives them: strings, but for formats.
ValuesOf(type) ==
  CASE type \in {"Enabled", "ToFile"} -> {"true", "false"}
    [] type = "Filename" -> Files
    [] type = "Format" -> Texts
    [] type = "LogFlushThreshold" -> {"0", "2"}

getBool(value) == value \in {"TRUE", "true", "1"}

\* getULong; anything but digits is 0.
getULong(value) == IF value = "2" THEN 2 ELSE 0

-----------------------------------------------------------------------------
DefaultFile == CHOOSE f \in Writable : TRUE
DefaultFormat == <<"%datetime", "%level", "%logger", "%msg">>

(***************************************************************************)
(* setToDefault: every type for Global, and with it for every level, in    *)
(* this order; then the formats of some levels, where %user, %host, %loc   *)
(* and %vlevel, which are not modelled, are text.                          *)
(***************************************************************************)
GlobalDefaults ==
  << Entry(Global, "Enabled", "true"), Entry(Global, "Filename", DefaultFile), Entry(Global, "ToFile", "true"),
     Entry(Global, "LogFlushThreshold", "0"), Entry(Global, "Format", DefaultFormat) >>

LevelDefaults ==
  << Entry("Debug", "Format", <<"%datetime", "%level", "%logger", "%user@%host", "%func", "%loc", "%msg">>),
     Entry("Error", "Format", DefaultFormat), Entry("Fatal", "Format", DefaultFormat),
     Entry("Verbose", "Format", <<"%datetime", "%level", "%vlevel", "%logger", "%msg">>),
     Entry("Trace", "Format", <<"%datetime", "%level", "%logger", "%func", "%loc", "%msg">>) >>

Defaults ==
  FoldLeft(LAMBDA c, e : IF e.level \in AllLevels THEN set(c, e.level, e.type, e.value) ELSE c,
           <<>>, GlobalDefaults \o LevelDefaults)

-----------------------------------------------------------------------------
(***************************************************************************)
(* TypedConfigurations.                                                    *)
(***************************************************************************)

NoMap == <<>>

\* A level's value, or Global's.
unsafeGetConfig(map, level) == map[IF level \in DOMAIN map THEN level ELSE Global]

\* The first value goes to Global, a value that Global has already is not stored.
setValue(map, level, value) ==
  CASE DOMAIN map = {} -> With(map, Global, value)
    [] Global \in DOMAIN map /\ map[Global] = value -> map
    [] OTHER -> With(map, level, value)

\* A value as the maps have it.  Formats of two levels differ, even if the texts are equal.
Converted(e) ==
  CASE e.type \in {"Enabled", "ToFile"} -> getBool(e.value)
    [] e.type = "Format" -> parseFromFormat(e.level, e.value)
    [] e.type = "LogFlushThreshold" -> getULong(e.value)

\* The first loop of build(), for the map of one type.
MapOf(conf, type) ==
  FoldLeft(LAMBDA m, e : IF e.type = type THEN setValue(m, e.level, Converted(e)) ELSE m, NoMap, conf)

Typed(conf) ==
  [enabled |-> MapOf(conf, "Enabled"), toFile |-> MapOf(conf, "ToFile"), logFormat |-> MapOf(conf, "Format"),
   logFlushThreshold |-> MapOf(conf, "LogFlushThreshold"), filename |-> NoMap, fileStream |-> NoMap]

\* Fault: the new stream is not recorded in m_logStreamsReference.
insertFile_unshared(s, level, f) ==
  LET at == IF DOMAIN s.typed.filename = {} THEN Global ELSE level
      fs == IF f \in DOMAIN s.streams THEN s.streams[f] ELSE IF f \in Writable THEN s.opened + 1 ELSE null
  IN [opened |-> IF f \notin DOMAIN s.streams /\ f \in Writable THEN s.opened + 1 ELSE s.opened,
      streams |-> s.streams,
      typed |-> [s.typed EXCEPT !.filename = Insert(@, at, f), !.fileStream = Insert(@, at, fs),
                                !.toFile = IF fs = null THEN setValue(@, at, FALSE) ELSE @]]

(***************************************************************************)
(* insertFile: the stream of a file that is open is shared; a file that    *)
(* cannot be opened has a null stream, recorded like any other, and turns  *)
(* ToFile off.  The first file is Global's.  A stream is a number.         *)
(***************************************************************************)
insertFile(s, level, f) ==
  LET at == IF DOMAIN s.typed.filename = {} THEN Global ELSE level
      known == f \in DOMAIN s.streams
      fs == IF known THEN s.streams[f] ELSE IF f \in Writable THEN s.opened + 1 ELSE null
  IN [opened |-> IF ~known /\ f \in Writable THEN s.opened + 1 ELSE s.opened,
      streams |-> Insert(s.streams, f, fs),
      typed |-> [s.typed EXCEPT !.filename = Insert(@, at, f), !.fileStream = Insert(@, at, fs),
                                !.toFile = IF fs = null THEN setValue(@, at, FALSE) ELSE @]]

\* build(): the typed configurations, and the files after everything else.
TypedConfigurations(conf, streams, opened) ==
  FoldLeft(LAMBDA s, e : IF e.type = "Filename" THEN insertFile(s, e.level, e.value) ELSE s,
           [typed |-> Typed(conf), streams |-> streams, opened |-> opened], conf)

-----------------------------------------------------------------------------
VARIABLES
  calls,           \* history: the set() calls on the program's object
  conf,            \* the program's Configurations
  configurations,  \* m_configurations of the logger
  logger           \* m_typedConfigurations, m_logStreamsReference and the streams opened

lcvars == <<calls, conf, configurations, logger>>

\* Storage() has registered the logger with the defaults; init_logger() has made an empty object.
CInit ==
  /\ calls = <<>> /\ conf = <<>>
  /\ configurations = setFromBase(<<>>, Defaults)
  /\ logger = TypedConfigurations(configurations, NoMap, 0)

Set(level, type, value) ==
  /\ calls' = Append(calls, Entry(level, type, value))
  /\ conf' = set(conf, level, type, value)
  /\ UNCHANGED <<configurations, logger>>

\* Logger::configure
Configure ==
  /\ configurations' = setFromBase(configurations, conf)
  /\ logger' = TypedConfigurations(configurations', logger.streams, logger.opened)
  /\ UNCHANGED <<calls, conf>>

typed == logger.typed

-----------------------------------------------------------------------------
(***************************************************************************)
(* What the calls ask for.                                                 *)
(***************************************************************************)

\* The last value set for a level, by itself or with all the others.
LastSet(level, type) ==
  LET i == SelectLastInSeq(calls, LAMBDA e : e.type = type /\ e.level \in {level, Global})
      d == SelectInSeq(Defaults, LAMBDA e : e.type = type /\ e.level = level)
  IN IF i = 0 THEN Defaults[d].value ELSE calls[i].value

\* No level was given a value of this type of its own before Global was.
GlobalFirst(type) ==
  \A i, j \in DOMAIN calls :
    calls[i].type = type /\ calls[j].type = type /\ calls[i].level # Global /\ calls[j].level = Global
      => \E k \in 1..i : calls[k].type = type /\ calls[k].level = Global

=============================================================================
