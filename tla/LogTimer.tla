------------------------------ MODULE LogTimer ------------------------------
(***************************************************************************)
(* easylogging++: PerformanceTracker, which reports how long a block has   *)
(* taken, at checkpoints and at its end, and formatTime, which picks the   *)
(* unit of what is shown.  (The program is built without it; what formats  *)
(* times is built.)                                                        *)
(*                                                                         *)
(* Time is [sec, usec], and does not go back.  It passes in the block and  *)
(* while a checkpoint is being logged.                                     *)
(***************************************************************************)
EXTENDS Integers, SequencesExt

CONSTANTS
  MicroSteps, MilliSteps,  \* by how much time passes, for trackers in either unit
  MaxSteps,                \* bound: how often
  MaxReports               \* bound: reports

ASSUME StepsAssumption == MicroSteps \cup MilliSteps \subseteq [sec : Nat, usec : {n \in Nat : n < 1000000}]

kTimeFormats ==
  << [value |-> 1000, unit |-> "us"], [value |-> 1000, unit |-> "ms"], [value |-> 60, unit |-> "seconds"],
     [value |-> 60, unit |-> "minutes"], [value |-> 24, unit |-> "hours"], [value |-> 7, unit |-> "days"] >>

\* TimestampUnit, as a place in kTimeFormats.
Microsecond == 1
Millisecond == 2

VARIABLES
  clock,                 \* gettimeofday
  steps,                 \* how often time has passed
  m_timestampUnit, m_scopedLog, m_enabled, m_hasChecked,
  m_startTime, m_endTime, m_lastCheckpointTime,
  performanceTracking,   \* the configuration
  state,                 \* of the tracker: none, block, checkpoint, over
  reports                \* history: what was reported, and when

pvars == <<clock, steps, m_timestampUnit, m_scopedLog, m_enabled, m_hasChecked, m_startTime, m_endTime,
           m_lastCheckpointTime, performanceTracking, state, reports>>

-----------------------------------------------------------------------------
getTimeDifference(end, start, unit) ==
  LET InMs(t) == t.sec * 1000 + t.usec \div 1000
  IN IF unit = Microsecond THEN 1000000 * (end.sec - start.sec) + end.usec - start.usec
     ELSE InMs(end) - InMs(start)

\* The number is shown in this unit: below two of the next one, or nearly, if that is 1000 times as large.
Fits(time, i) ==
  time <= kTimeFormats[i].value \/ (kTimeFormats[i].value = 1000 /\ time < 1900)

\* A number and its unit.
formatTime(time, unit) ==
  LET Step(s, i) == IF i < unit \/ s.fits \/ Fits(s.time, i) THEN [s EXCEPT !.fits = s.fits \/ i >= unit]
                    ELSE [time |-> s.time \div kTimeFormats[i].value, unit |-> i + 1, fits |-> FALSE]
  IN FoldLeft(Step, [time |-> time, unit |-> unit, fits |-> FALSE], <<1, 2, 3, 4, 5>>)

\* (The flag FixedTimeFormat, which shows the difference as it is, is not set.)
getFormattedTimeTaken(end, start) == formatTime(getTimeDifference(end, start, m_timestampUnit), m_timestampUnit)

-----------------------------------------------------------------------------
PInit ==
  /\ clock = [sec |-> 5, usec |-> 300500] /\ steps = 0
  /\ m_timestampUnit \in {Microsecond, Millisecond} /\ m_scopedLog \in BOOLEAN
  /\ performanceTracking \in BOOLEAN
  /\ m_enabled = FALSE /\ m_hasChecked = FALSE
  /\ m_startTime = clock /\ m_endTime = clock /\ m_lastCheckpointTime = clock
  /\ state = "none" /\ reports = <<>>

Kept == UNCHANGED <<steps, m_timestampUnit, m_scopedLog, clock>>

\* PerformanceTracker(): enabled or not from here on.
Track ==
  /\ state = "none"
  /\ state' = "block"
  /\ m_enabled' = performanceTracking
  /\ m_startTime' = IF performanceTracking THEN clock ELSE m_startTime
  /\ Kept /\ UNCHANGED <<m_hasChecked, m_endTime, m_lastCheckpointTime, performanceTracking, reports>>

\* A report of the time since the start, and since a checkpoint if there was one.
Reported(kind, since) ==
  reports' = Append(reports, [kind |-> kind, at |-> clock, total |-> getFormattedTimeTaken(clock, m_startTime),
                              since |-> since])

\* checkpoint(), up to the callbacks.
CheckpointBegin ==
  /\ state = "block" /\ m_enabled /\ Len(reports) < MaxReports
  /\ state' = "checkpoint"
  /\ m_endTime' = clock
  /\ Reported("checkpoint", IF m_hasChecked THEN <<getFormattedTimeTaken(clock, m_lastCheckpointTime)>> ELSE <<>>)
  /\ Kept /\ UNCHANGED <<m_enabled, m_hasChecked, m_startTime, m_lastCheckpointTime, performanceTracking>>

\* Fault: m_lastCheckpointTime is the time of the first checkpoint.
CheckpointEnd_first ==
  /\ state = "checkpoint"
  /\ state' = "block"
  /\ m_lastCheckpointTime' = IF m_hasChecked THEN m_lastCheckpointTime ELSE clock
  /\ m_hasChecked' = TRUE
  /\ Kept /\ UNCHANGED <<m_enabled, m_startTime, m_endTime, performanceTracking, reports>>

\* The callbacks have returned.
CheckpointEnd ==
  /\ state = "checkpoint"
  /\ state' = "block"
  /\ m_lastCheckpointTime' = clock
  /\ m_hasChecked' = TRUE
  /\ Kept /\ UNCHANGED <<m_enabled, m_startTime, m_endTime, performanceTracking, reports>>

\* ~PerformanceTracker().
TrackEnd ==
  /\ state = "block"
  /\ state' = "over"
  /\ IF m_enabled /\ m_scopedLog
     THEN m_endTime' = clock /\ Reported("complete", <<>>)
     ELSE UNCHANGED <<m_endTime, reports>>
  /\ Kept /\ UNCHANGED <<m_enabled, m_hasChecked, m_startTime, m_lastCheckpointTime, performanceTracking>>

Passed(t, d) == [sec |-> t.sec + d.sec + (t.usec + d.usec) \div 1000000, usec |-> (t.usec + d.usec) % 1000000]

TimePasses ==
  /\ steps < MaxSteps /\ state \in {"block", "checkpoint"}
  /\ steps' = steps + 1
  /\ clock' \in {Passed(clock, d) : d \in IF m_timestampUnit = Microsecond THEN MicroSteps ELSE MilliSteps}
  /\ UNCHANGED <<m_timestampUnit, m_scopedLog, m_enabled, m_hasChecked, m_startTime, m_endTime,
                 m_lastCheckpointTime, performanceTracking, state, reports>>

\* The logger is reconfigured in the block.
SetTracking ==
  /\ state = "block"
  /\ performanceTracking' = ~performanceTracking
  /\ Kept
  /\ UNCHANGED <<m_enabled, m_hasChecked, m_startTime, m_endTime, m_lastCheckpointTime, state, reports>>

PNext == Track \/ CheckpointBegin \/ CheckpointEnd \/ TrackEnd \/ TimePasses \/ SetTracking

-----------------------------------------------------------------------------
\* How many of these units a unit of kTimeFormats has.
InUnits(unit, i) ==
  FoldLeft(LAMBDA n, j : IF j >= unit /\ j < i THEN n * kTimeFormats[j].value ELSE n, 1, <<1, 2, 3, 4, 5>>)

\* What is shown is that much time, to the unit (a millisecond may be cut off at either end).
Shows(unit, shown, end, start) ==
  LET exact == getTimeDifference(end, start, unit)
  IN /\ shown.time * InUnits(unit, shown.unit) <= exact /\ exact < (shown.time + 1) * InUnits(unit, shown.unit)
     /\ shown.time < 1900 \/ kTimeFormats[shown.unit].unit = "days"
     /\ shown.unit > unit => shown.time >= 1

(***************************************************************************)
(* Every report shows the time since the block began, and since the report *)
(* of the checkpoint before, rounded down to a unit in which it is at      *)
(* least one and less than 1900 (days, the largest, may be more).  The     *)
(* time a checkpoint takes to be logged counts for the first and not for   *)
(* the second: all times between checkpoints together are not more than    *)
(* the time of the block.                                                  *)
(***************************************************************************)
TimesShown ==
  \A i \in DOMAIN reports :
    LET r == reports[i]
    IN /\ Shows(m_timestampUnit, r.total, r.at, m_startTime)
       /\ r.since # <<>> =>
            /\ i > 1
            /\ r.since[1].time * InUnits(m_timestampUnit, r.since[1].unit)
               <= getTimeDifference(r.at, reports[i - 1].at, m_timestampUnit)
       /\ r.kind = "checkpoint" => (r.since # <<>> <=> i > 1)

=============================================================================
