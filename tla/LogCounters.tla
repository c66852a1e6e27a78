---------------------------- MODULE LogCounters -----------------------------
(***************************************************************************)
(* easylogging++: the counters of LOG_EVERY_N, LOG_AFTER_N and LOG_N_TIMES *)
(* statements, registered by file and line when a statement is first run.  *)
(***************************************************************************)
EXTENDS Integers, SequencesExt

CONSTANTS
  Statements,         \* statements: [file, line, kind, n], one on each line of a file
  kMaxLogPerCounter,
  MaxHits             \* bound: runs of a statement

ASSUME OneOnALine ==
  \A s, t \in Statements : s.file = t.file /\ s.line = t.line => s = t

ASSUME CountsAssumption == kMaxLogPerCounter \in Nat /\ \A s \in Statements : s.n \in Nat

VARIABLES
  counters,  \* RegisteredHitCounters, in the order of registration
  hits,      \* history: how often each statement was run
  logged     \* history: whether its last run logged

hvars == <<counters, hits, logged>>

HInit == counters = <<>> /\ hits = [s \in Statements |-> 0] /\ logged = [s \in Statements |-> FALSE]

\* get(filename, lineNumber)
PlaceOf(s) == SelectInSeq(counters, LAMBDA c : c.file = s.file /\ c.line = s.line)

\* The counters with one for the statement, and its place.
Registered(s) ==
  IF PlaceOf(s) # 0 THEN counters ELSE Append(counters, [file |-> s.file, line |-> s.line, hitCounts |-> 0])
Its(s) == IF PlaceOf(s) # 0 THEN PlaceOf(s) ELSE Len(counters) + 1

\* Fault: a full counter starts again at 0.
validateHitCounts_zero(count, n) == (IF count >= kMaxLogPerCounter THEN 0 ELSE count) + 1

\* A full counter starts again at a number that is as far from the next multiple of n.
validateHitCounts(count, n) ==
  (IF count >= kMaxLogPerCounter THEN IF n >= 1 THEN kMaxLogPerCounter % n ELSE 0 ELSE count) + 1

Before(s) == Registered(s)[Its(s)].hitCounts

Run(s, count, logs) ==
  /\ counters' = [Registered(s) EXCEPT ![Its(s)].hitCounts = count]
  /\ hits' = [hits EXCEPT ![s] = @ + 1]
  /\ logged' = [logged EXCEPT ![s] = logs]

validateEveryN(s) ==
  /\ s.kind = "every"
  /\ LET count == validateHitCounts(Before(s), s.n)
     IN Run(s, count, s.n >= 1 /\ count # 0 /\ count % s.n = 0)

\* Counts up to n and no further.
validateAfterN(s) ==
  /\ s.kind = "after"
  /\ Run(s, IF Before(s) >= s.n THEN Before(s) ELSE Before(s) + 1, Before(s) >= s.n)

validateNTimes(s) ==
  /\ s.kind = "times"
  /\ Run(s, Before(s) + 1, Before(s) + 1 <= s.n)

HNext ==
  \E s \in Statements : hits[s] < MaxHits /\ (validateEveryN(s) \/ validateAfterN(s) \/ validateNTimes(s))

\* The runs that are to be logged.
Due(s) ==
  \/ s.kind = "every" /\ s.n >= 1 /\ hits[s] % s.n = 0
  \/ s.kind = "after" /\ hits[s] > s.n
  \/ s.kind = "times" /\ hits[s] <= s.n

(***************************************************************************)
(* A statement logs on every n-th run, after n runs, or n times, whatever  *)
(* others run in between and however often its counter has started again.  *)
(* An n above the limit of the counters is not covered: such a statement   *)
(* logs too often or never.                                                *)
(***************************************************************************)
LoggedWhenDue ==
  \A s \in Statements : hits[s] > 0 /\ s.n <= kMaxLogPerCounter => logged[s] = Due(s)

=============================================================================
