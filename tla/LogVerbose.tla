----------------------------- MODULE LogVerbose -----------------------------
(***************************************************************************)
(* easylogging++: VRegistry, which decides whether a VLOG statement logs.  *)
(* setModules takes a list "name=level,..." of files, with wildcards, and  *)
(* registers each name with every extension of a source file; allowed()    *)
(* takes the first registered name that matches, in alphabetical order.    *)
(*                                                                         *)
(* A name is a sequence of letters, wildcards and extensions.              *)
(***************************************************************************)
EXTENDS Integers, SequencesExt, TLC

CONSTANTS
  Alphabet,  \* letters (no dots), wildcards and extensions, in the order of std::string
  Lists,     \* lists of modules: sequences of [name, level], level -1 if it has none
  Sources,   \* names of source files
  VLevels,   \* verbose levels
  noSuffix,  \* a suffix that is not there
  MaxVCalls  \* bound: calls

Extensions == <<".h", ".c", ".cpp", ".cc", ".cxx", ".-inl.h", ".hxx", ".hpp", ".hh">>
Chars == Range(Alphabet)
Letters == Chars \ (Range(Extensions) \cup {"*", "?"})

\* A digit is a level; an extension ends a name.
ModuleItems ==
  { item \in [name : Seq(Chars), level : -1..9] :
      item.name # <<>> /\ \A j \in 1..(Len(item.name) - 1) : item.name[j] \notin Range(Extensions) }

ASSUME AlphabetAssumption ==
  Alphabet \in Seq(Chars) /\ Range(Extensions) \subseteq Chars /\ noSuffix \notin Chars
ASSUME ListsAssumption == Lists \subseteq Seq(ModuleItems)

\* ".-inl.h" is left out: it ends in another extension.
ASSUME SourcesAssumption ==
  \A file \in Sources :
    /\ file \in Seq(Chars) \ {<<>>} /\ Front(file) \in Seq(Letters)
    /\ Last(file) \in Range(Extensions) \ {".-inl.h"}

Rank(c) == CHOOSE i \in DOMAIN Alphabet : Alphabet[i] = c

Less(x, y) ==
  \E i \in DOMAIN y : /\ i <= Len(x) + 1 /\ \A j \in 1..(i - 1) : x[j] = y[j]
                      /\ i <= Len(x) => Rank(x[i]) < Rank(y[i])

VARIABLES
  m_level,
  m_modules,  \* names registered, with their levels
  listed      \* history: the lists of modules in force

vvars == <<m_level, m_modules, listed>>

VInit == m_level = 0 /\ m_modules = <<>> /\ listed = <<>>

-----------------------------------------------------------------------------
\* Without a suffix that it has.
Cut(name, sfx) == IF name # <<>> /\ Last(name) = sfx THEN Front(name) ELSE name

\* Fault: the suffix added before stays.
addSuffix_kept(name, sfx, prev) == Append(Cut(name, sfx), sfx)

\* The suffix added before is taken off, and so is the one to be added.
addSuffix(name, sfx, prev) == Append(Cut(Cut(name, prev), sfx), sfx)

\* The names registered for one, in this order; each is made from the one before.
Suffixed(name) ==
  FoldLeft(LAMBDA names, sfx :
    Append(names, IF names = <<>> THEN addSuffix(name, sfx, noSuffix)
                  ELSE addSuffix(Last(names), sfx, Extensions[Len(names)])), <<>>, Extensions)

\* map::insert does not replace a level.
insert(modules, name, level) ==
  [n \in DOMAIN modules \cup Range(Suffixed(name)) |-> IF n \in DOMAIN modules THEN modules[n] ELSE level]

\* A name without a level is joined with the next one.
WithItem(s, item) ==
  IF item.level = -1 THEN [modules |-> s.modules, ss |-> s.ss \o item.name]
  ELSE [modules |-> insert(s.modules, s.ss \o item.name, item.level), ss |-> <<>>]

Parsed(modules, list) == FoldLeft(WithItem, [modules |-> modules, ss |-> <<>>], list).modules

setModules(list) ==
  /\ Len(listed) < MaxVCalls
  /\ m_modules' = Parsed(m_modules, list)
  /\ listed' = Append(listed, list)
  /\ UNCHANGED m_level

clearModules == m_modules' = <<>> /\ listed' = <<>> /\ UNCHANGED m_level

\* At most 9.
setLevel(level) == m_level' = (IF level > 9 THEN 9 ELSE level) /\ UNCHANGED <<m_modules, listed>>

VNext ==
  \/ \E list \in Lists : setModules(list)
  \/ clearModules
  \/ \E level \in VLevels : setLevel(level)

-----------------------------------------------------------------------------
\* An extension is more than one character.
charMatches(c, p) == c = p \/ (p = "?" /\ c \in Letters)

\* Str::wildCardMatch: places[j] are those of str that the pattern matches from j on.
wildCardMatch(str, pattern) ==
  LET places[j \in 1..(Len(pattern) + 1)] ==
        IF j > Len(pattern) THEN {Len(str) + 1}
        ELSE IF pattern[j] = "*" THEN {i \in 1..(Len(str) + 1) : \E k \in places[j + 1] : i <= k}
        ELSE {i \in 1..Len(str) : i + 1 \in places[j + 1] /\ charMatches(str[i], pattern[j])}
  IN 1 \in places[1]

\* With modules, a file that none of them names is allowed everything: Storage sets
\* AllowVerboseIfModuleNotSpecified.
allowed(vlevel, file) ==
  LET matching == {n \in DOMAIN m_modules : wildCardMatch(file, n)}
      first == CHOOSE n \in matching : \A k \in matching \ {n} : Less(n, k)
  IN IF DOMAIN m_modules = {} THEN vlevel <= m_level
     ELSE IF matching = {} THEN TRUE
     ELSE vlevel <= m_modules[first]

-----------------------------------------------------------------------------
(***************************************************************************)
(* What the lists say.                                                     *)
(***************************************************************************)

\* A name matches if its parts can be laid out over the file's, a star over any number of them.
Covers(pattern, file) ==
  \E end \in [0..Len(pattern) -> 0..Len(file)] :
    /\ end[0] = 0 /\ end[Len(pattern)] = Len(file)
    /\ \A j \in 1..Len(pattern) :
         \/ pattern[j] = "*" /\ end[j - 1] <= end[j]
         \/ end[j] = end[j - 1] + 1 /\ charMatches(file[end[j]], pattern[j])

Extended(name) == Last(name) \in Range(Extensions)

\* An item may name a file by all but its extension.
MayName(item, file) == Covers(IF Extended(item.name) THEN Front(item.name) ELSE item.name, Front(file))

\* It does if it has that extension or none.
Designates(item, file) == MayName(item, file) /\ (Extended(item.name) => Last(item.name) = Last(file))

Items == UNION {Range(list) : list \in Range(listed)}

(***************************************************************************)
(* A statement of a file that the lists name with one level logs up to     *)
(* that level, and one of a file they do not name always, in whatever      *)
(* lists and in whatever order the names were given.  Names that have no   *)
(* level are not covered: they run into the next.  Nor are names that have *)
(* an extension for files with another one, some of which they stand for.  *)
(***************************************************************************)
NamedLevelCounts ==
  Items # {} /\ (\A item \in Items : item.level # -1) =>
    \A file \in Sources :
      LET naming == {i \in Items : MayName(i, file)}
          levels == {i.level : i \in naming}
      IN /\ (\A i \in naming : Designates(i, file)) =>
              \A l \in levels : levels = {l} => \A v \in VLevels : allowed(v, file) = (v <= l)
         /\ levels = {} => \A v \in VLevels : allowed(v, file)

=============================================================================
