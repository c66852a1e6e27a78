------------------------------ MODULE Logging -------------------------------
(***************************************************************************)
(* LOG statements of the server's two threads, after init_logger().  All   *)
(* statements of all threads build their messages in one stream, the       *)
(* logger's, and pass them on through one pointer, m_data of the dispatch  *)
(* callback.  The locks that would keep them apart are compiled in by      *)
(* ELPP_THREAD_SAFE, which CMakeLists.txt defines after it has added the   *)
(* directories: the targets are built without.                             *)
(*                                                                         *)
(* The console thread logs while it stops the server, the io thread in its *)
(* handlers.  Pieces of messages are what mixes here; the state of a       *)
(* std::stringstream that two threads write at once is not modelled.       *)
(***************************************************************************)
EXTENDS LogConfig, FiniteSetsExt

CONSTANTS
  Threads,   \* console and io
  Messages,  \* texts logged; chat messages are among them
  MaxCalls   \* bound: calls of set(), and statements

ASSUME ThreadsAssumption == null \notin Threads
ASSUME MessagesAssumption == Messages \subseteq Seq(UNION {Range(m) : m \in Messages})

VARIABLES
  started,  \* init_logger() is done
  at,       \* where each thread's statement is: none, build, copied, dispatch, write, clear
  stmt,     \* its level and message
  todo,     \* pieces of the message that are still to be written
  proceed,  \* m_proceed
  copy,     \* the LogMessage: its level and the copy of the stream's text
  line,     \* the line built
  mixed,    \* history: another statement was under way during this one
  stream,   \* m_stream of the logger
  m_data,   \* m_data of the callback: the thread whose data it points to
  unflushed,\* m_unflushedCount
  begun,    \* statements begun
  out,      \* lines dispatched, with the stream they were written to
  buffered  \* places in out of lines that were not flushed yet

wvars == <<started, at, stmt, todo, proceed, copy, line, mixed, stream, m_data, unflushed, begun, out, buffered>>
lvars == <<lcvars, wvars>>

NoMessage == [level |-> Global, text |-> <<>>]

LInit ==
  /\ CInit
  /\ started = FALSE
  /\ at = [t \in Threads |-> "none"]
  /\ stmt = [t \in Threads |-> NoMessage]
  /\ todo = [t \in Threads |-> <<>>]
  /\ proceed = [t \in Threads |-> FALSE]
  /\ copy = [t \in Threads |-> NoMessage]
  /\ line = [t \in Threads |-> <<>>]
  /\ mixed = [t \in Threads |-> FALSE]
  /\ stream = <<>> /\ m_data = null
  /\ unflushed = [l \in Levels |-> 0]
  /\ begun = 0 /\ out = <<>> /\ buffered = {}

-----------------------------------------------------------------------------
(***************************************************************************)
(* init_logger(), before the io thread is started.                         *)
(***************************************************************************)

SetCall(level, type, value) ==
  /\ ~started /\ Len(calls) < MaxCalls
  /\ Set(level, type, value)
  /\ UNCHANGED wvars

\* reconfigureLogger("default", defaultConf)
Reconfigure ==
  /\ ~started
  /\ started' = TRUE
  /\ Configure
  /\ UNCHANGED <<at, stmt, todo, proceed, copy, line, mixed, stream, m_data, unflushed, begun, out, buffered>>

-----------------------------------------------------------------------------
(***************************************************************************)
(* A statement.                                                            *)
(***************************************************************************)

Busy(t) == {u \in Threads \ {t} : at[u] # "none"}

Goto(t, from, to) == at[t] = from /\ at' = [at EXCEPT ![t] = to]

\* Writer::initializeLogger
Begin(t, level, text) ==
  /\ started /\ Len(calls) + begun < MaxCalls
  /\ begun' = begun + 1
  /\ Goto(t, "none", "build")
  /\ stmt' = [stmt EXCEPT ![t] = [level |-> level, text |-> text]]
  /\ proceed' = [proceed EXCEPT ![t] = unsafeGetConfig(typed.enabled, level)]
  /\ todo' = [todo EXCEPT ![t] = text]
  /\ mixed' = [u \in Threads |-> IF u = t THEN Busy(t) # {} ELSE mixed[u] \/ at[u] # "none"]
  /\ UNCHANGED <<lcvars, started, copy, line, stream, m_data, unflushed, out, buffered>>

\* operator<<
Piece(t) ==
  /\ Goto(t, "build", "build") /\ todo[t] # <<>>
  /\ todo' = [todo EXCEPT ![t] = Tail(@)]
  /\ stream' = IF proceed[t] THEN Append(stream, Head(todo[t])) ELSE stream
  /\ UNCHANGED <<lcvars, started, stmt, proceed, copy, line, mixed, m_data, unflushed, begun, out, buffered>>

\* ~Writer, triggerDispatch: the LogMessage takes a copy of the stream.
Copy(t) ==
  /\ Goto(t, "build", IF proceed[t] THEN "copied" ELSE "clear") /\ todo[t] = <<>>
  /\ copy' = [copy EXCEPT ![t] = IF proceed[t] THEN [level |-> stmt[t].level, text |-> stream] ELSE @]
  /\ UNCHANGED <<lcvars, started, stmt, todo, proceed, line, mixed, stream, m_data, unflushed, begun, out, buffered>>

\* handle(): m_data = data
Handle(t) ==
  /\ Goto(t, "copied", "dispatch")
  /\ m_data' = t
  /\ UNCHANGED <<lcvars, started, stmt, todo, proceed, copy, line, mixed, stream, unflushed, begun, out, buffered>>

\* m_data points to data of a statement that is over.
Dangling == m_data = null \/ at[m_data] \in {"none", "build", "copied", "clear"}

\* build(m_data->logMessage()); what a dangling pointer shows may be anything.
Build(t) ==
  /\ Goto(t, "dispatch", "write")
  /\ line' \in {[line EXCEPT ![t] = l] :
                  l \in IF Dangling THEN {<<>>, <<"garbage">>}
                        ELSE {build(unsafeGetConfig(typed.logFormat, copy[m_data].level), copy[m_data].text)}}
  /\ UNCHANGED <<lcvars, started, stmt, todo, proceed, copy, mixed, stream, m_data, unflushed, begun, out, buffered>>

\* Fault: one line too late.
FlushNeeded_late(level) == unflushed[level] >= unsafeGetConfig(typed.logFlushThreshold, level)

\* isFlushNeeded increases the count first.
FlushNeeded(level) == unflushed[level] + 1 >= unsafeGetConfig(typed.logFlushThreshold, level)

\* The line goes to standard output, and to the stream of its level, which is
\* flushed when it is time.  A flush is one of all lines in the stream.
WriteLine(t, level) ==
  LET fs == IF unsafeGetConfig(typed.toFile, level) THEN unsafeGetConfig(typed.fileStream, level) ELSE null
      n == Len(out) + 1
  IN /\ out' = Append(out, [line |-> line[t], level |-> level, stream |-> fs])
     /\ CASE fs = null -> UNCHANGED <<buffered, unflushed>>
          [] fs # null /\ FlushNeeded(level) ->
               /\ buffered' = {i \in buffered : out[i].stream # fs}
               /\ unflushed' = [unflushed EXCEPT ![level] = 0]
          [] fs # null /\ ~FlushNeeded(level) ->
               /\ buffered' = buffered \cup {n}
               /\ unflushed' = [unflushed EXCEPT ![level] = @ + 1]

\* dispatch() reads the level from m_data again.
Write(t) ==
  /\ Goto(t, "write", "clear")
  /\ \E level \in IF Dangling THEN Levels ELSE {copy[m_data].level} : WriteLine(t, level)
  /\ UNCHANGED <<lcvars, started, stmt, todo, proceed, copy, line, mixed, stream, m_data, begun>>

\* The statement is over; its Writer and LogMessage are destroyed.
Over(t) ==
  /\ Goto(t, "clear", "none")
  /\ proceed' = [proceed EXCEPT ![t] = FALSE]
  /\ mixed' = [mixed EXCEPT ![t] = FALSE]
  /\ stmt' = [stmt EXCEPT ![t] = NoMessage]
  /\ copy' = [copy EXCEPT ![t] = NoMessage]
  /\ line' = [line EXCEPT ![t] = <<>>]
  /\ UNCHANGED <<lcvars, started, todo, m_data, unflushed, begun, out, buffered>>

\* Fault: the text stays in the stream.
Clear_kept(t) == Over(t) /\ UNCHANGED stream

\* stream().str("")
Clear(t) ==
  /\ stream' = <<>>
  /\ Over(t)

LNext ==
  \/ \E level \in Levels \cup {Global}, type \in Types : \E value \in ValuesOf(type) : SetCall(level, type, value)
  \/ Reconfigure
  \/ \E t \in Threads :
       \/ \E level \in Levels, text \in Messages : Begin(t, level, text)
       \/ Piece(t) \/ Copy(t) \/ Handle(t) \/ Build(t) \/ Write(t) \/ Clear(t)

LSpec == LInit /\ [][LNext]_lvars

-----------------------------------------------------------------------------
(***************************************************************************)
(* Properties.                                                             *)
(***************************************************************************)

\* The level's own file can be opened, and so can Global's: else ToFile is off for all
\* levels that have Global's ToFile.
FileUsable(level) == {LastSet(level, "Filename"), LastSet(Global, "Filename")} \subseteq Writable

(***************************************************************************)
(* A Configurations object has one entry for a level and a type, and the   *)
(* last set() for a level counts, in every type and whatever other         *)
(* levels were set to: merging the object into the defaults and deriving   *)
(* the maps, which leave out what Global has, lose and swap nothing.  The  *)
(* exception is an object in which a level had a value before Global had:  *)
(* setFromBase then sets Global last, and with it the level.               *)
(***************************************************************************)
LastSetWins ==
  /\ begun = 0 => \A c \in {conf, configurations} : \A i, j \in DOMAIN c :
       c[i].level = c[j].level /\ c[i].type = c[j].type => i = j
  /\ started /\ begun = 0 => \A l \in Levels :
       /\ GlobalFirst("Enabled") => unsafeGetConfig(typed.enabled, l) = getBool(LastSet(l, "Enabled"))
       /\ GlobalFirst("LogFlushThreshold") =>
            unsafeGetConfig(typed.logFlushThreshold, l) = getULong(LastSet(l, "LogFlushThreshold"))
       /\ GlobalFirst("Format") =>
            unsafeGetConfig(typed.logFormat, l) = parseFromFormat(l, LastSet(l, "Format"))
       /\ GlobalFirst("Filename") => unsafeGetConfig(typed.filename, l) = LastSet(l, "Filename")
       /\ GlobalFirst("Filename") /\ GlobalFirst("ToFile") /\ FileUsable(l) =>
            unsafeGetConfig(typed.toFile, l) = getBool(LastSet(l, "ToFile"))

(***************************************************************************)
(* Levels with one file have one stream, which is the one that was open    *)
(* before the logger was configured again: two streams would write over    *)
(* each other's buffers.                                                   *)
(***************************************************************************)
OneStreamPerFile ==
  begun = 0 =>
  /\ \A l \in DOMAIN typed.filename :
       /\ typed.filename[l] \in DOMAIN logger.streams
       /\ typed.fileStream[l] = logger.streams[typed.filename[l]]
  /\ logger.opened = Cardinality(DOMAIN logger.streams \cap Writable)

\* Of a format that a level may have, every message makes the line that is meant.  There are
\* formats of which this is not so, as one in which an escaped %datetime follows another one.
FormatTexts == Texts \cup {e.value : e \in {d \in Range(GlobalDefaults \o LevelDefaults) : d.type = "Format"}}
FormatsAsMeant ==
  \A l \in Levels, text \in FormatTexts, m \in Messages : build(parseFromFormat(l, text), m) = LineOf(text, l, m)

(***************************************************************************)
(* A statement that no other overlaps writes one line if its level is      *)
(* enabled and none if not: the format of its level, with the message as   *)
(* it is, even if a chat message contains a format specifier.  Statements  *)
(* before it may have overlapped: nothing of them is left in the stream.   *)
(***************************************************************************)
LineAsMeant ==
  \A t \in Threads : at[t] = "clear" /\ ~mixed[t] =>
    LET l == stmt[t].level IN
    /\ GlobalFirst("Enabled") => proceed[t] = getBool(LastSet(l, "Enabled"))
    /\ proceed[t] =>
         /\ Last(out).level = l
         /\ GlobalFirst("Format") => Last(out).line = LineOf(LastSet(l, "Format"), l, stmt[t].text)

(***************************************************************************)
(* A level has fewer lines waiting in the buffer than its threshold, and   *)
(* none with the threshold 0 of the program: a crash loses no line that    *)
(* was logged before.                                                      *)
(***************************************************************************)
FlushedInTime ==
  \A l \in Levels : started /\ GlobalFirst("LogFlushThreshold") =>
    Cardinality({i \in buffered : out[i].level = l}) < Max({1, getULong(LastSet(l, "LogFlushThreshold"))})

=============================================================================
