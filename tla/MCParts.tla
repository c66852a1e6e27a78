------------------------------ MODULE MCParts -------------------------------
(***************************************************************************)
(* The parts that are modelled by themselves, for TLC: those of the        *)
(* logging library and the ping timer of the server.  They share nothing:  *)
(* a behaviour is one of one of them, and the others stay in one of their  *)
(* initial states.                                                         *)
(***************************************************************************)
EXTENDS LogCounters, LogVerbose, LogRegistry, LogTime, LogTimer, LogDisk, LogArgs, PingTimer

VARIABLE part

-----------------------------------------------------------------------------
(***************************************************************************)
(* Values for the constants.                                               *)
(***************************************************************************)

\* LogCounters: the limit is no multiple of the first n, and it is the second n.
Statement(file, line, kind, n) == [file |-> file, line |-> line, kind |-> kind, n |-> n]
MCStatements ==
  { Statement("a", 1, "every", 3), Statement("b", 1, "every", 4), Statement("a", 2, "after", 2),
    Statement("b", 2, "times", 2) }

\* LogVerbose: names with and without wildcards and extensions, and one without a level.
MCAlphabet == <<"*", ".-inl.h", ".c", ".cc", ".cpp", ".cxx", ".h", ".hh", ".hpp", ".hxx", "?", "a", "b">>
Module(name, l) == [name |-> name, level |-> l]
MCLists ==
  LET mods == { Module(<<"a">>, 1), Module(<<"a">>, 2), Module(<<"a">>, -1), Module(<<"a", ".c">>, 1),
                Module(<<"a", "*">>, 2), Module(<<"*", "b">>, 1), Module(<<"?", "a", ".hpp">>, 2) }
  IN {<<m>> : m \in mods} \cup {<<m, n>> : m \in mods, n \in mods}
MCSources == {s \o <<e>> : s \in SeqOf({"a", "b"}, 2) \ {<<>>}, e \in {".c", ".hpp"}}

\* LogRegistry: objects with as many entries as the defaults or fewer.
MCConfs ==
  { set(set(<<>>, Global, "Format", "a"), Global, "Filename", "f"), set(<<>>, "Info", "Format", "b"),
    set(<<>>, "Error", "Filename", "g") }
MCSingle == {Entry(Global, "Filename", "g"), Entry("Info", "Format", "a")}

\* LogTime: short formats, and every specifier twice, which overflows the buffer.
MCFormats ==
  SeqOf({"%Y", "%h", "%F", "%g", "%%", "/"}, 3)
    \cup {<<s, "/", s, "x">> : s \in DateSpecifiers \cup Ignored} \cup {<<"%Y", "%">>}
Moment(day, month, year, hour, min, sec, usec) ==
  [day |-> day, month |-> month, year |-> year, hour |-> hour, min |-> min, sec |-> sec, usec |-> usec]
MCMoments == {Moment(31, 12, 2017, 12, 5, 59, 987654), Moment(1, 1, 2000, 0, 0, 0, 1234)}

\* LogTimer: steps around the limits of each unit.
Time(sec, usec) == [sec |-> sec, usec |-> usec]
MCMicroSteps == {Time(0, 1000), Time(0, 1899), Time(1, 900000), Time(120, 0)}
MCMilliSteps == {Time(0, 700), Time(0, 2000), Time(1, 900000), Time(3600, 0), Time(90000, 0)}

\* LogDisk: directories that are there, that can be made and that cannot; files that may
\* not be written, that are directories or in the way of one; and two names of one file.
MCFilenames ==
  { <<"f">>, <<"a", "/", "f">>, <<"a", "/", "/", "f">>, <<"a", "/", "b", "/", "f">>,
    <<"g">>, <<"g", "/", "h", "/", "f">>, <<"/", "c">>, <<"/", "c", "/", "d", "/", "f">>,
    <<"a", "/", DateTimeSpecifier, Braces, ".log">>,
    <<Percent, DateTimeSpecifier, "a", "/", DateTimeSpecifier>> }
MCLevelSeq == <<"Error", "Info">>
MCDenied == { <<<<"/">>, <<"c">>>>, <<<<"a">>, <<"b">>>> }
MCPresent == { <<<<"a">>>> }

\* LogArgs: every kind of argument, in lists of up to two.
Arg(key, value) == [key |-> key, value |-> value]
MCArgLists ==
  SeqOf({ Arg("-v", noValue), Arg("--VERBOSE", noValue), Arg("--v", 3), Arg("--v", 12), Arg("--V", 5),
          Arg("-vmodule", "m"), Arg("-VMODULE", "n"), Arg("-vmodule", noValue),
          Arg(kDefaultLogFileParam, "f"), Arg(kDefaultLogFileParam, "g") }, 2)

-----------------------------------------------------------------------------
mcvars == <<part, hvars, vvars, rvars, tvars, pvars, dvars, avars, vars>>

Idle(name, condition) == part # name => condition

MCInit ==
  /\ part \in {"counters", "verbose", "registry", "time", "timer", "disk", "args", "ping"}
  /\ HInit /\ VInit /\ RInit /\ AInit
  /\ TInit /\ Idle("time", formatGiven = <<>> /\ widthGiven = 0 /\ moment.day = 1)
  /\ PInit /\ Idle("timer", m_timestampUnit = Microsecond /\ m_scopedLog /\ performanceTracking)
  /\ DInit /\ Idle("disk", strict /\ \A l \in DLevels : filenames[l] = <<"f">> /\ limits[l] = 0)
  /\ Init /\ Idle("ping", prompt)

MCNext ==
  \/ part = "counters" /\ HNext /\ UNCHANGED <<part, vvars, rvars, tvars, pvars, dvars, avars, vars>>
  \/ part = "verbose" /\ VNext /\ UNCHANGED <<part, hvars, rvars, tvars, pvars, dvars, avars, vars>>
  \/ part = "registry" /\ RNext /\ UNCHANGED <<part, hvars, vvars, tvars, pvars, dvars, avars, vars>>
  \/ part = "time" /\ TNext /\ UNCHANGED <<part, hvars, vvars, rvars, pvars, dvars, avars, vars>>
  \/ part = "timer" /\ PNext /\ UNCHANGED <<part, hvars, vvars, rvars, tvars, dvars, avars, vars>>
  \/ part = "disk" /\ DNext /\ UNCHANGED <<part, hvars, vvars, rvars, tvars, pvars, avars, vars>>
  \/ part = "args" /\ ANext /\ UNCHANGED <<part, hvars, vvars, rvars, tvars, pvars, dvars, vars>>
  \/ part = "ping" /\ Next /\ UNCHANGED <<part, hvars, vvars, rvars, tvars, pvars, dvars, avars>>

MCSpec == MCInit /\ [][MCNext]_mcvars

=============================================================================
