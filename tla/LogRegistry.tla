---------------------------- MODULE LogRegistry -----------------------------
(***************************************************************************)
(* easylogging++: the registered loggers, and the calls of el::Loggers     *)
(* that register, reconfigure and remove them.  Each logger has its own    *)
(* Configurations, made from the defaults when it was registered; all      *)
(* share the streams of the files they write to.                           *)
(*                                                                         *)
(* A Logger is known to the program by its pointer, a number here; the     *)
(* memory of one that was deleted is not used again.                       *)
(***************************************************************************)
EXTENDS LogSettings

CONSTANTS
  LoggerIds,     \* valid ids; other ids are not registered
  Confs,         \* Configurations the program makes
  SingleValues,  \* what it sets by level, type and value
  MaxLoggers,    \* bound: Logger objects ever made
  nullptr

kDefaultLoggerId == "default"
ConfTypes == {"Filename", "Format"}

ASSUME IdsAssumption == nullptr \notin LoggerIds \cup {kDefaultLoggerId}

\* Settings of all values that are used, and the objects that set() makes of them in which a
\* level had no value of its own before Global had.  (Of others, see LastSetWins of Logging.)
SettingsUsed ==
  [level : AllLevels, type : ConfTypes,
   value : {"f", "d"} \cup {e.value : e \in SingleValues \cup UNION {Range(conf) : conf \in Confs}}]

GlobalLeads(conf) ==
  /\ \A i, j \in DOMAIN conf : conf[i].level = conf[j].level /\ conf[i].type = conf[j].type => i = j
  /\ \A i \in DOMAIN conf : conf[i].level = Global => \A l \in Levels :
       \E j \in DOMAIN conf : j > i /\ conf[j].level = l /\ conf[j].type = conf[i].type

ASSUME ConfsAssumption ==
  SingleValues \subseteq SettingsUsed /\ \A conf \in Confs : conf \in Seq(SettingsUsed) /\ GlobalLeads(conf)

VARIABLES
  defaults,  \* m_defaultConfigurations
  list,      \* the registry: id -> Logger
  objects,   \* Loggers that exist: their configurations, and the stream of each level
  made,      \* Loggers made so far
  files,     \* m_logStreamsReference: file -> stream
  pointers,  \* history: the Loggers returned for each id since it was last unregistered
  wanted     \* history: the settings asked for, of each logger and of the defaults

rvars == <<defaults, list, objects, made, files, pointers, wanted>>

RInitially == setFromBase(<<>>, <<Entry(Global, "Filename", "f"), Entry(Global, "Format", "d")>>)

\* Settings that were asked for, after conf has been applied to what was asked before.
Asked(before, conf) ==
  [p \in AllLevels \X ConfTypes |->
     LET i == Place(conf, p[1], p[2]) IN IF i = 0 THEN before[p] ELSE conf[i].value]

NothingAsked == [p \in AllLevels \X ConfTypes |-> nullptr]

-----------------------------------------------------------------------------
(***************************************************************************)
(* A Logger.                                                               *)
(***************************************************************************)

\* A new stream for each file that has none; a stream is a number.
Streams(conf, open) ==
  FoldLeft(LAMBDA m, e : IF e.type = "Filename" THEN Insert(m, e.value, Cardinality(DOMAIN m) + 1) ELSE m,
           open, conf)

\* Fault: two objects with as many entries are taken for equal.
DiffersInSize(same, conf, other) == ~same /\ Len(conf) # Len(other)

\* operator!=: entries are compared as pointers, which are equal only for the same object.
Differs(same, conf, other) == ~same /\ (Len(conf) # Len(other) \/ conf # <<>>)

(***************************************************************************)
(* Logger::configure with an object of the program, or with its own.       *)
(***************************************************************************)
Configured(old, conf, own) ==
  IF Differs(own, old, conf) THEN setFromBase(old, conf) ELSE old

\* The Logger with its streams, from m_logStreamsReference after it was configured.
LoggerOf(conf, open) ==
  [conf |-> conf,
   fileStream |-> [l \in AllLevels |-> Streams(conf, open)[conf[Place(conf, l, "Filename")].value]]]

\* Every Logger p in the domain of confs gets the configurations confs[p], one after the other.
ConfigureAll(confs) ==
  /\ files' = FoldLeft(LAMBDA m, p : IF p \in DOMAIN confs THEN Streams(confs[p], m) ELSE m,
                       files, [p \in 1..made |-> p])
  /\ objects' = [p \in DOMAIN objects |->
                   IF p \in DOMAIN confs THEN LoggerOf(confs[p], files') ELSE objects[p]]

PointersTo(ids) == {list[id] : id \in ids}
Merged(ids, conf) == [p \in PointersTo(ids) |-> Configured(objects[p].conf, conf, FALSE)]

-----------------------------------------------------------------------------
(***************************************************************************)
(* RegisteredLoggers.                                                      *)
(***************************************************************************)

\* Fault: an id that is registered gets a new Logger too, which replaces the old one.
Missing_always(id) == TRUE

\* A Logger is made only for an id that has none.
Missing(id) == id \notin DOMAIN list

\* registerNew and unregister of the registry: a Logger that was there is deleted.
ObjectsWithout(id) ==
  IF id \in DOMAIN list THEN [p \in DOMAIN objects \ {list[id]} |-> objects[p]] ELSE objects

(***************************************************************************)
(* get(id): the id's Logger, made from the defaults if there is none.  The *)
(* callers go on with configure(conf), if they have one.                   *)
(***************************************************************************)
GetAndConfigure(id, conf) ==
  LET p == made + 1
      first == setFromBase(<<>>, defaults)
      then == IF conf = <<>> THEN first ELSE Configured(first, conf, FALSE)
      open == Streams(then, Streams(first, files))
  IN IF Missing(id)
     THEN /\ made < MaxLoggers
          /\ made' = p
          /\ list' = With(list, id, p)
          /\ files' = open
          /\ objects' = With(ObjectsWithout(id), p, LoggerOf(then, open))
          /\ pointers' = pointers \cup {<<id, p>>}
          /\ wanted' = With(wanted, id, Asked(wanted[nullptr], conf))
     ELSE /\ IF conf = <<>> THEN UNCHANGED <<files, objects>> ELSE ConfigureAll(Merged({id}, conf))
          /\ pointers' = pointers \cup {<<id, list[id]>>}
          /\ wanted' = [wanted EXCEPT ![id] = Asked(@, conf)]
          /\ UNCHANGED <<list, made>>

RInit ==
  /\ defaults = RInitially
  /\ list = [id \in {kDefaultLoggerId} |-> 1]
  /\ files = Streams(defaults, <<>>)
  /\ objects = [p \in {1} |-> LoggerOf(setFromBase(<<>>, defaults), files)]
  /\ made = 1
  /\ pointers = {}
  /\ wanted = [id \in {kDefaultLoggerId, nullptr} |-> Asked(NothingAsked, defaults)]

-----------------------------------------------------------------------------
(***************************************************************************)
(* el::Loggers.                                                            *)
(***************************************************************************)

getLogger(id) == GetAndConfigure(id, <<>>) /\ UNCHANGED defaults

\* The default logger stays.
unregisterLogger(id) ==
  /\ id \in DOMAIN list \ {kDefaultLoggerId}
  /\ objects' = ObjectsWithout(id)
  /\ list' = [i \in DOMAIN list \ {id} |-> list[i]]
  /\ pointers' = {q \in pointers : q[1] # id}
  /\ wanted' = [i \in DOMAIN wanted \ {id} |-> wanted[i]]
  /\ UNCHANGED <<defaults, made, files>>

reconfigureLogger(id, conf) == GetAndConfigure(id, conf) /\ UNCHANGED defaults

\* The value is set in each Logger's own configurations, then reconfigure().
SetAndReconfigure(ids, e) ==
  /\ ConfigureAll([p \in PointersTo(ids) |->
                     LET c == set(objects[p].conf, e.level, e.type, e.value) IN Configured(c, c, TRUE)])
  /\ wanted' = [i \in DOMAIN wanted |->
                  IF i \in ids THEN Asked(wanted[i], set(<<>>, e.level, e.type, e.value)) ELSE wanted[i]]
  /\ UNCHANGED <<defaults, list, made, pointers>>

\* reconfigureLogger with a type and a value, for all levels; a logger that does not exist is registered.
reconfigureLoggerValue(id, e) ==
  /\ e.level = Global
  /\ IF Missing(id)
     THEN GetAndConfigure(id, set(<<>>, Global, e.type, e.value)) /\ UNCHANGED defaults
     ELSE SetAndReconfigure({id}, e)

reconfigureAllLoggersValue(e) == SetAndReconfigure(DOMAIN list, e)

\* What reconfigureAllLoggers does with an object.
ReconfigureAll(conf) ==
  /\ ConfigureAll(Merged(DOMAIN list, conf))
  /\ wanted' = [i \in DOMAIN wanted |-> IF i = nullptr THEN wanted[i] ELSE Asked(wanted[i], conf)]

reconfigureAllLoggers(conf) == ReconfigureAll(conf) /\ UNCHANGED <<defaults, list, made, pointers>>

setDefaultConfigurations(conf, reconfigureExistingLoggers) ==
  /\ defaults' = setFromBase(defaults, conf)
  /\ IF reconfigureExistingLoggers
     THEN /\ ConfigureAll(Merged(DOMAIN list, conf))
          /\ wanted' = [i \in DOMAIN wanted |-> Asked(wanted[i], conf)]
     ELSE /\ wanted' = [wanted EXCEPT ![nullptr] = Asked(@, conf)]
          /\ UNCHANGED <<objects, files>>
  /\ UNCHANGED <<list, made, pointers>>

RNext ==
  \/ \E id \in LoggerIds :
       \/ getLogger(id) \/ unregisterLogger(id)
       \/ \E conf \in Confs : reconfigureLogger(id, conf)
       \/ \E e \in SingleValues : reconfigureLoggerValue(id, e)
  \/ \E e \in SingleValues : reconfigureAllLoggersValue(e)
  \/ \E conf \in Confs : reconfigureAllLoggers(conf) \/ \E b \in BOOLEAN : setDefaultConfigurations(conf, b)

-----------------------------------------------------------------------------
(***************************************************************************)
(* Every logger has the settings that were asked for last: in the defaults *)
(* before it was registered, or for it or for all loggers after that.  A   *)
(* logger that was removed and registered again is a new one.              *)
(***************************************************************************)
SettingsAsAsked ==
  /\ DOMAIN list = DOMAIN wanted \ {nullptr}
  /\ \A id \in DOMAIN list, p \in AllLevels \X ConfTypes :
       LET conf == objects[list[id]].conf IN conf[Place(conf, p[1], p[2])].value = wanted[id][p]

(***************************************************************************)
(* A pointer that getLogger returned is that of a Logger that exists, and  *)
(* of the one registered, as long as its id is not unregistered; and all   *)
(* Loggers that write to a file write to the one stream it has, also after *)
(* the one that opened it is gone.                                         *)
(***************************************************************************)
PointersLive ==
  /\ \A q \in pointers : q[2] \in DOMAIN objects /\ q[1] \in DOMAIN list /\ list[q[1]] = q[2]
  /\ \A p \in DOMAIN objects, l \in AllLevels :
       LET conf == objects[p].conf IN objects[p].fileStream[l] = files[conf[Place(conf, l, "Filename")].value]

\* The Logger that a caller has a pointer to is registered, and set as it was asked for.
LoggersAsAsked == SettingsAsAsked /\ PointersLive

=============================================================================
