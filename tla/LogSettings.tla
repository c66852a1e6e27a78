---------------------------- MODULE LogSettings -----------------------------
(***************************************************************************)
(* easylogging++: Configurations.  An object is a sequence of entries, in  *)
(* the order in which they were registered; setFromBase goes through it in *)
(* that order.  A value for Level::Global is one for every level.          *)
(***************************************************************************)
EXTENDS Integers, SequencesExt

CONSTANT Levels  \* the levels used, apart from Global

Global == "Global"
AllLevels == Levels \cup {Global}

\* forEachLevel
LevelOrder == <<"Trace", "Debug", "Fatal", "Error", "Warning", "Verbose", "Info">>

ASSUME LevelsAssumption == Levels \subseteq Range(LevelOrder)

\* A map with a value for a key: a new one, or one that only counts if the key had none.
With(map, key, value) == [k \in DOMAIN map \cup {key} |-> IF k = key THEN value ELSE map[k]]
Insert(map, key, value) == IF key \in DOMAIN map THEN map ELSE With(map, key, value)

Entry(level, type, value) == [level |-> level, type |-> type, value |-> value]

\* get(level, configurationType): its place, or 0.
Place(conf, level, type) == SelectInSeq(conf, LAMBDA e : e.level = level /\ e.type = type)

\* Fault: every value is registered anew.
register_again(conf, level, type, value) == Append(conf, Entry(level, type, value))

\* A value is changed where it is, or registered at the end.
register(conf, level, type, value) ==
  LET i == Place(conf, level, type)
  IN IF i = 0 THEN Append(conf, Entry(level, type, value)) ELSE [conf EXCEPT ![i].value = value]

unsafeSetGlobally(conf, type, value) ==
  FoldLeft(LAMBDA c, l : IF l \in Levels THEN register(c, l, type, value) ELSE c, conf, LevelOrder)

\* unsafeSet, and set(), which sets the levels once more after Global.
set(conf, level, type, value) ==
  IF level = Global
  THEN unsafeSetGlobally(register(conf, Global, type, value), type, value)
  ELSE register(conf, level, type, value)

\* Fault: only Level::Global is taken over.
setFromBase_global(conf, base) ==
  FoldLeft(LAMBDA c, e : IF e.level = Global THEN set(c, e.level, e.type, e.value) ELSE c, conf, base)

setFromBase(conf, base) == FoldLeft(LAMBDA c, e : set(c, e.level, e.type, e.value), conf, base)

=============================================================================
