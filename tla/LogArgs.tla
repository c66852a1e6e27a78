------------------------------ MODULE LogArgs -------------------------------
(***************************************************************************)
(* easylogging++: the arguments of the program, given to                   *)
(* setApplicationArguments, may set the verbose level, the list of modules *)
(* and the log file.  An argument is a key with a value ("key=value") or   *)
(* without one.  The level is a number; lists and files are just values.   *)
(***************************************************************************)
EXTENDS Integers, SequencesExt

CONSTANTS
  ArgLists,      \* sequences of arguments, without the name of the program
  ArgLoggers,    \* ids of loggers
  MaxArgCalls,   \* bound: calls of setApplicationArguments
  noValue

\* Arguments that are given.
Arguments == UNION {Range(args) : args \in ArgLists}

ASSUME ArgsAssumption == ArgLists \subseteq Seq(Arguments)

Flags == {"-v", "--verbose", "-V", "--VERBOSE"}
kDefaultLogFileParam == "--default-log-file"
kMaxVerboseLevel == 9

VARIABLES
  m_params,           \* keys without a value, as given
  m_paramsWithValue,  \* values of the others
  level,              \* m_level of the VRegistry
  modules,            \* lists given to its setModules
  defaultFile,        \* Filename in the defaults for loggers
  loggerFile,         \* Filename of each logger
  calls               \* history: the arguments of each call

avars == <<m_params, m_paramsWithValue, level, modules, defaultFile, loggerFile, calls>>

-----------------------------------------------------------------------------
(***************************************************************************)
(* CommandLineArgs.                                                        *)
(***************************************************************************)
Parameters(params, withValue) == [params |-> params, withValue |-> withValue]

\* A map with another key.
Stored(map, key, value) == [k \in DOMAIN map \cup {key} |-> IF k = key THEN value ELSE map[k]]

\* The first value of a key counts, and a key is kept once.
addArg(s, arg) ==
  IF arg.value = noValue
  THEN IF Contains(s.params, arg.key) THEN s ELSE Parameters(Append(s.params, arg.key), s.withValue)
  ELSE IF arg.key \in DOMAIN s.withValue THEN s
       ELSE Parameters(s.params, Stored(s.withValue, arg.key, arg.value))

\* Fault: nothing is cleared.
setArgs_kept(args) == FoldLeft(addArg, Parameters(m_params, m_paramsWithValue), args)

setArgs(args) == FoldLeft(addArg, Parameters(<<>>, <<>>), args)

hasParam(s, key) == Contains(s.params, key)
hasParamWithValue(s, key) == key \in DOMAIN s.withValue

-----------------------------------------------------------------------------
\* At most 9.
LevelSet(l) == level' = (IF l > 9 THEN kMaxVerboseLevel ELSE l) /\ UNCHANGED modules

\* VRegistry::setFromArgs: the first of these that is given, and nothing else.
setFromArgs(s) ==
  LET keys == <<"--v", "--V", "-vmodule", "-VMODULE">>
      i == SelectInSeq(keys, LAMBDA key : hasParamWithValue(s, key))
  IN IF \E flag \in Flags : hasParam(s, flag) THEN LevelSet(kMaxVerboseLevel)
     ELSE IF i = 0 THEN UNCHANGED <<level, modules>>
     ELSE IF i <= 2 THEN LevelSet(s.withValue[keys[i]])
     ELSE modules' = Append(modules, s.withValue[keys[i]]) /\ UNCHANGED level

setApplicationArguments(args) ==
  LET s == setArgs(args)
  IN /\ Len(calls) < MaxArgCalls
     /\ calls' = Append(calls, args)
     /\ m_params' = s.params /\ m_paramsWithValue' = s.withValue
     /\ setFromArgs(s)
     /\ IF hasParamWithValue(s, kDefaultLogFileParam)
        THEN /\ defaultFile' = s.withValue[kDefaultLogFileParam]
             /\ loggerFile' = [id \in DOMAIN loggerFile |-> s.withValue[kDefaultLogFileParam]]
        ELSE UNCHANGED <<defaultFile, loggerFile>>

\* A logger registered later has the defaults.
RegisterLogger(id) ==
  /\ id \notin DOMAIN loggerFile
  /\ loggerFile' = Stored(loggerFile, id, defaultFile)
  /\ UNCHANGED <<m_params, m_paramsWithValue, level, modules, defaultFile, calls>>

AInit ==
  /\ m_params = <<>> /\ m_paramsWithValue = <<>>
  /\ level = 0 /\ modules = <<>>
  /\ defaultFile = "default" /\ loggerFile = [id \in {"default"} |-> "default"]
  /\ calls = <<>>

ANext ==
  \/ \E args \in ArgLists : setApplicationArguments(args)
  \/ \E id \in ArgLoggers : RegisterLogger(id)

-----------------------------------------------------------------------------
\* The places in args that give a key a value, and the keys that ask for a level or for modules.
GivenAt(args, keys) == {i \in DOMAIN args : args[i].key \in keys /\ args[i].value # noValue}
Flagged(args) == \E i \in DOMAIN args : args[i].key \in Flags /\ args[i].value = noValue
FirstGiven(args, keys) ==
  args[CHOOSE i \in GivenAt(args, keys) : \A j \in GivenAt(args, keys) : i <= j].value

LevelAsked(args) ==
  IF Flagged(args) THEN 9
  ELSE IF GivenAt(args, {"--v"}) # {} THEN FirstGiven(args, {"--v"}) ELSE FirstGiven(args, {"--V"})

\* What a call asks for.
AsksLevel(args) == Flagged(args) \/ GivenAt(args, {"--v", "--V"}) # {}
NamesFile(args) == GivenAt(args, {kDefaultLogFileParam}) # {}
AsksModules(args) == ~AsksLevel(args) /\ GivenAt(args, {"-vmodule", "-VMODULE"}) # {}

LastOf(places) == IF places = {} THEN 0 ELSE Max(places)

(***************************************************************************)
(* However often the arguments are set, the level is the one that the last *)
(* arguments with a level asked for, at most 9: by a flag before a number, *)
(* and the first number if there are several.  A list of modules counts    *)
(* only in arguments without a level.  Every logger, registered before or  *)
(* after, has the first log file of the last arguments that name one.      *)
(***************************************************************************)
ArgsAsGiven ==
  LET i == LastOf({c \in DOMAIN calls : AsksLevel(calls[c])})
      f == LastOf({c \in DOMAIN calls : NamesFile(calls[c])})
  IN /\ level = IF i = 0 THEN 0 ELSE IF LevelAsked(calls[i]) > 9 THEN 9 ELSE LevelAsked(calls[i])
     /\ Len(modules) = Cardinality({c \in DOMAIN calls : AsksModules(calls[c])})
     /\ \A id \in DOMAIN loggerFile :
          loggerFile[id] = IF f = 0 THEN "default" ELSE FirstGiven(calls[f], {kDefaultLogFileParam})

=============================================================================
