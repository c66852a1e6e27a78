------------------------------ MODULE LogTime -------------------------------
(***************************************************************************)
(* easylogging++: %datetime.  DateTime::timevalToString writes a date in a *)
(* format of specifiers and other characters into a buffer of fixed size.  *)
(* A text is a sequence of characters, digits and letters; the end of a    *)
(* format behind a single % is the specifier "%".                          *)
(***************************************************************************)
EXTENDS Integers, SequencesExt

CONSTANTS
  kBuffSize,                  \* size of the buffer
  kDefaultSubsecondPrecision,
  DateFormats,                \* formats: sequences of specifiers and characters
  Moments                     \* times: [day, month, year, hour, min, sec, usec]

ASSUME BufferAssumption == kBuffSize \in Nat /\ kDefaultSubsecondPrecision \in 3..6
ASSUME FormatsAssumption == DateFormats \subseteq Seq(UNION {Range(f) : f \in DateFormats})
ASSUME MomentsAssumption ==
  /\ Moments \subseteq [day : 1..31, month : 1..12, year : Nat, hour : 0..23, min : 0..59, sec : 0..60,
                        usec : Nat]
  /\ \A m \in Moments : m.year < 10000 /\ m.usec < 1000000

VARIABLES
  format,     \* what is left of the format
  buf,        \* what was written to the buffer
  moment,     \* the time
  precision,  \* the SubsecondPrecision
  widthGiven, \* the width it was made with
  formatGiven \* the whole format

tvars == <<format, buf, moment, precision, widthGiven, formatGiven>>

DateSpecifiers == {"%d", "%a", "%A", "%M", "%b", "%B", "%y", "%Y", "%h", "%H", "%m", "%s", "%z", "%g", "%F"}
Ignored == {"%q"}

\* Fault: all widths divide by 1000.
SubsecondPrecision_milli(width) ==
  [width |-> IF width \in 1..6 THEN width ELSE kDefaultSubsecondPrecision, offset |-> 1000]

SubsecondPrecision(width) ==
  LET w == IF width \in 1..6 THEN width ELSE kDefaultSubsecondPrecision
  IN [width |-> w, offset |-> CASE w = 4 -> 100 [] w = 5 -> 10 [] w = 6 -> 1 [] OTHER -> 1000]

\* kDays, kMonths, and their abbreviations: as many letters as the first of them has.
Day == <<"S", "u", "n", "d", "a", "y">>
Month == <<"J", "a", "n", "u", "a", "r", "y">>
Abbrev(name) == SubSeq(name, 1, 3)

Digit(d) == <<"0", "1", "2", "3", "4", "5", "6", "7", "8", "9">>[d + 1]

\* The last len digits of n; there are never more than six.
Tens == <<1, 10, 100, 1000, 10000, 100000>>
Digits(n, len) == [i \in 1..len |-> Digit((n \div Tens[len - i + 1]) % 10)]

\* The first len characters of a text, if it has so many.
First(str, len) == IF Len(str) <= len THEN str ELSE SubSeq(str, 1, len)

-----------------------------------------------------------------------------
\* As much as there is room for.
addToBuff(str) == buf \o First(str, kBuffSize - Len(buf))

convertAndAddToBuff(n, len) == addToBuff(Digits(n, len))

\* What parseFormat does at a specifier.
Specified(spec) ==
  CASE spec = "%d" -> convertAndAddToBuff(moment.day, 2)
    [] spec = "%a" -> addToBuff(Abbrev(Day))
    [] spec = "%A" -> addToBuff(Day)
    [] spec = "%M" -> convertAndAddToBuff(moment.month, 2)
    [] spec = "%b" -> addToBuff(Abbrev(Month))
    [] spec = "%B" -> addToBuff(Month)
    [] spec = "%y" -> convertAndAddToBuff(moment.year, 2)
    [] spec = "%Y" -> convertAndAddToBuff(moment.year, 4)
    [] spec = "%h" -> convertAndAddToBuff(moment.hour % 12, 2)
    [] spec = "%H" -> convertAndAddToBuff(moment.hour, 2)
    [] spec = "%m" -> convertAndAddToBuff(moment.min, 2)
    [] spec = "%s" -> convertAndAddToBuff(moment.sec, 2)
    [] spec \in {"%z", "%g"} -> convertAndAddToBuff(moment.usec \div precision.offset, precision.width)
    [] spec = "%F" -> addToBuff(IF moment.hour >= 12 THEN <<"P", "M">> ELSE <<"A", "M">>)

TInit ==
  /\ formatGiven \in DateFormats /\ format = formatGiven
  /\ moment \in Moments
  /\ widthGiven \in 0..7 /\ precision = SubsecondPrecision(widthGiven)
  /\ buf = <<>>

\* A specifier; one that is not known is left out.
DateSpecifier ==
  /\ format # <<>> /\ Head(format) \in DateSpecifiers \cup Ignored
  /\ buf' = IF Head(format) \in Ignored THEN buf ELSE Specified(Head(format))
  /\ format' = Tail(format)
  /\ UNCHANGED <<moment, precision, widthGiven, formatGiven>>

\* Another character, %% or a % at the end; the loop ends if the buffer is full.
DateCharacter ==
  /\ format # <<>> /\ Head(format) \notin DateSpecifiers \cup Ignored
  /\ IF Len(buf) = kBuffSize
     THEN format' = <<>> /\ UNCHANGED buf
     ELSE /\ buf' = Append(buf, IF Head(format) = "%%" THEN "%" ELSE Head(format))
          /\ format' = Tail(format)
  /\ UNCHANGED <<moment, precision, widthGiven, formatGiven>>

TNext == DateSpecifier \/ DateCharacter

-----------------------------------------------------------------------------
\* The date in full.
TwoDigits(n) == <<Digit(n \div 10), Digit(n % 10)>>
Meaning(token, time, width) ==
  CASE token = "%d" -> TwoDigits(time.day)
    [] token = "%a" -> Abbrev(Day)
    [] token = "%A" -> Day
    [] token = "%M" -> TwoDigits(time.month)
    [] token = "%b" -> Abbrev(Month)
    [] token = "%B" -> Month
    [] token = "%y" -> TwoDigits(time.year % 100)
    [] token = "%Y" -> TwoDigits(time.year \div 100) \o TwoDigits(time.year % 100)
    [] token = "%h" -> TwoDigits(time.hour % 12)
    [] token = "%H" -> TwoDigits(time.hour)
    [] token = "%m" -> TwoDigits(time.min)
    [] token = "%s" -> TwoDigits(time.sec)
    [] token \in {"%z", "%g"} ->
         SubSeq(Digits(time.usec, 6), 1, IF width \in 1..6 THEN width ELSE kDefaultSubsecondPrecision)
    [] token = "%F" -> IF time.hour < 12 THEN <<"A", "M">> ELSE <<"P", "M">>
    [] token = "%%" -> <<"%">>
    [] token \in Ignored -> <<>>
    [] OTHER -> <<token>>

FullDate(tokens, time, width) ==
  FoldLeft(LAMBDA date, token : date \o Meaning(token, time, width), <<>>, tokens)

(***************************************************************************)
(* Nothing is written behind the buffer, whatever the format; and what is  *)
(* in it at the end is the date, as far as it goes in, with as many digits *)
(* of the second as were asked for.  Widths 1 and 2 are not covered: they  *)
(* show the last digits of the milliseconds.  (A date that fills the       *)
(* buffer has no zero at its end, and is read on behind it.)               *)
(***************************************************************************)
DateAsMeant ==
  /\ Len(buf) <= kBuffSize
  /\ format = <<>> /\ widthGiven \notin {1, 2} =>
       buf = First(FullDate(formatGiven, moment, widthGiven), kBuffSize)

=============================================================================
