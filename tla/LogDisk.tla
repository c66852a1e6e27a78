------------------------------ MODULE LogDisk -------------------------------
(***************************************************************************)
(* easylogging++: log files on the disk.  A logger opens the file of each  *)
(* level when it is configured: the date is put into its name, its         *)
(* directories are made, and it is opened for appending, once for each     *)
(* resolved name.  A file that has reached the maximum size of a level is  *)
(* truncated, when the logger is configured and, with                      *)
(* StrictLogFileSizeCheck, before each line; its stream does not append    *)
(* any more then, but writes on where it wrote last.  The program may end  *)
(* and start again; the files stay.                                        *)
(*                                                                         *)
(* A filename is a sequence of names, separators and date specifiers; on   *)
(* the disk a path is the sequence of its names, behind "/" if it is       *)
(* absolute.  Several names may lead to one path: here by a doubled        *)
(* separator, which stands for "." and ".." and for links as well.  A file *)
(* is the sequence of its lines, a line its size; what a stream holds back *)
(* until it is flushed counts as written.                                  *)
(***************************************************************************)
EXTENDS Integers, SequencesExt, FiniteSetsExt

CONSTANTS
  LevelSeq,   \* levels, in the order of the configurations
  Filenames,  \* names in the configurations
  Denied,     \* directories that cannot be made, files that cannot be opened for writing
  Present,    \* directories there are at first
  Limits,     \* maximum sizes, 0 for none
  LineSizes,
  MaxLogLines \* bound: lines logged

DLevels == Range(LevelSeq)
ASSUME LevelSeqAssumption == LevelSeq \in Seq(DLevels)

Separator == "/"
DateTimeSpecifier == "%datetime"
Percent == "%"
Braces == "{%d/%M}"  \* a format given for the date

\* The name of a file does not end like that of a directory.
ASSUME FilenamesAssumption ==
  \A name \in Filenames : name \in Seq(Range(name)) /\ name # <<>> /\ Last(name) # Separator

ASSUME SizesAssumption == Limits \subseteq Nat /\ LineSizes \subseteq Nat /\ IsFiniteSet(LineSizes) /\ LineSizes # {}

VARIABLES
  filenames,  \* the configuration: file of each level
  limits,     \* maximum size of each level
  strict,     \* the flag StrictLogFileSizeCheck
  dirs,       \* directories on the disk
  disk,       \* files on the disk
  streams,    \* m_logStreamsReference: a stream for each resolved name
  running,    \* the logger is configured
  lines       \* history: all lines written to each file

dvars == <<filenames, limits, strict, dirs, disk, streams, running, lines>>

\* A stream is where it writes, or one of these: nothing is open, or it appends.
nullFile == -2
appending == -1

-----------------------------------------------------------------------------
(***************************************************************************)
(* Names.                                                                  *)
(***************************************************************************)

\* getDateTime in the default format, or in the one in braces.
Now(given) == IF given THEN <<"07", "/", "08">> ELSE <<"2017-08-07">>

\* The first specifier that is not escaped.  (The code reads outside the name if all are escaped.)
DateIndex(name) ==
  LET specifiers == {i \in DOMAIN name : name[i] = DateTimeSpecifier /\ (i > 1 => name[i - 1] # Percent)}
  IN IF specifiers = {} THEN 0 ELSE Min(specifiers)

WithDate(name, now) ==
  FoldLeft(LAMBDA resolved, t : resolved \o (IF t = DateTimeSpecifier THEN now ELSE <<t>>), <<>>, name)

\* With a date every specifier is replaced, the separators in the date by "-".
resolveFilename(name) ==
  LET at == DateIndex(name)
      given == at # 0 /\ at < Len(name) /\ name[at + 1] = Braces
      rest == IF given THEN RemoveAt(name, at + 1) ELSE name
      now == ReplaceAll(Now(given), Separator, "-")
  IN IF at = 0 THEN name ELSE WithDate(rest, now)

\* m_filenameMap
fileName(level) == resolveFilename(filenames[level])

\* Up to the last separator; the whole name if there is none.
extractPathFromFilename(name) ==
  IF Separator \notin Range(name) THEN name
  ELSE SubSeq(name, 1, SelectLastInSeq(name, LAMBDA t : t = Separator))

\* What a name means: the pieces between separators, one name each.
NextPiece(p, t) ==
  IF t = Separator
  THEN IF p.at = "start" THEN [path |-> <<<<Separator>>>>, at |-> "between"] ELSE [p EXCEPT !.at = "between"]
  ELSE IF p.at = "piece" THEN [p EXCEPT !.path[Len(p.path)] = Append(@, t)]
       ELSE [path |-> Append(p.path, <<t>>), at |-> "piece"]

Pieces(name) == FoldLeft(NextPiece, [path |-> <<>>, at |-> "start"], name)
PathOf(name) == Pieces(name).path

-----------------------------------------------------------------------------
(***************************************************************************)
(* The disk.                                                               *)
(***************************************************************************)

\* The current directory is <<>>, the root <<"/">>.
pathExists(ds, path) == path \in ds \cup {<<>>, <<<<Separator>>>>}

\* What is above a directory is there, and the root can always be passed.
ASSUME DirectoriesAssumption ==
  /\ \A path \in Present : \A n \in 1..Len(path) : pathExists(Present, SubSeq(path, 1, n))
  /\ <<<<Separator>>>> \notin Denied

\* mkdir(2): the directory above is there and allows it, and no file is in the way.
mkdir(ds, files, path) ==
  IF pathExists(ds, Front(path)) /\ path \notin Denied \cup files THEN ds \cup {path} ELSE ds

\* Fault: only the last directory is made.
createPath_last(ds, files, path) == IF pathExists(ds, path) THEN ds ELSE mkdir(ds, files, path)

\* Each directory on the way, although the one above may have failed.
createPath(ds, files, path) ==
  IF pathExists(ds, path) THEN ds
  ELSE FoldLeft(LAMBDA d, n : IF pathExists(d, SubSeq(path, 1, n)) THEN d ELSE mkdir(d, files, SubSeq(path, 1, n)),
                ds, [n \in 1..Len(path) |-> n])

\* open(2) for appending fails without the directory above, on a directory and on
\* a file that may not be written; the stream is deleted then.
newFileStream(ds, path) ==
  IF pathExists(ds, Front(path)) /\ ~pathExists(ds, path) /\ path \notin Denied
  THEN appending ELSE nullFile

getSizeOfFile(content) == FoldLeft(LAMBDA a, b : a + b, 0, content)

\* Files that are not there are made.
WithFiles(files, paths) == [p \in DOMAIN files \cup paths |-> IF p \in DOMAIN files THEN files[p] ELSE <<>>]

(***************************************************************************)
(* insertFile for one level, after those before it: s has the directories, *)
(* the streams and the files so far.  A name that was opened before, or    *)
(* could not be opened, is shared.                                         *)
(***************************************************************************)
insertFile(s, level) ==
  LET resolved == fileName(level)
      filePath == extractPathFromFilename(resolved)
      path == PathOf(resolved)
      ds == IF Len(filePath) < Len(resolved) THEN createPath(s.dirs, DOMAIN s.disk, PathOf(filePath)) ELSE s.dirs
      fs == newFileStream(ds, path)
  IN IF resolved \in DOMAIN s.streams THEN [s EXCEPT !.dirs = ds]
     ELSE [dirs |-> ds,
           streams |-> [n \in DOMAIN s.streams \cup {resolved} |-> IF n = resolved THEN fs ELSE s.streams[n]],
           disk |-> IF fs = nullFile THEN s.disk ELSE WithFiles(s.disk, {path})]

\* Fault: a file as large as the maximum is let through.
unsafeValidateFileRolling_late(s, level) ==
  LET path == PathOf(fileName(level))
  IN IF /\ s.streams[fileName(level)] # nullFile
        /\ limits[level] # 0 /\ getSizeOfFile(s.disk[path]) > limits[level]
     THEN [dirs |-> s.dirs, disk |-> [s.disk EXCEPT ![path] = <<>>],
           streams |-> [s.streams EXCEPT ![fileName(level)] = 0]]
     ELSE s

\* The file is emptied and its stream opened anew, not for appending.
unsafeValidateFileRolling(s, level) ==
  LET path == PathOf(fileName(level))
  IN IF /\ s.streams[fileName(level)] # nullFile
        /\ limits[level] # 0 /\ getSizeOfFile(s.disk[path]) >= limits[level]
     THEN [dirs |-> s.dirs, disk |-> [s.disk EXCEPT ![path] = <<>>],
           streams |-> [s.streams EXCEPT ![fileName(level)] = 0]]
     ELSE s

(***************************************************************************)
(* fs->write: a stream that appends, and one that is where the file ends,  *)
(* adds a line.  Any other writes over what came from another stream, or   *)
(* leaves a gap: what the file holds then is no longer told apart.         *)
(***************************************************************************)
WriteLine(s, level, size) ==
  LET path == PathOf(fileName(level))
      at == s.streams[fileName(level)]
      end == getSizeOfFile(s.disk[path])
  IN [dirs |-> s.dirs,
      disk |-> [s.disk EXCEPT ![path] = IF at \in {appending, end} THEN Append(@, size)
                                        ELSE <<IF at + size > end THEN at + size ELSE end>>],
      streams |-> [s.streams EXCEPT ![fileName(level)] = IF at = appending THEN at ELSE at + size]]

-----------------------------------------------------------------------------
DInit ==
  /\ filenames \in [DLevels -> Filenames]
  /\ limits \in [DLevels -> Limits]
  /\ strict \in BOOLEAN
  /\ dirs = Present
  /\ disk = <<>> /\ lines = <<>>
  /\ streams = <<>>
  /\ running = FALSE

\* The logger is configured: all files, then the sizes.
ConfigureFiles ==
  /\ ~running
  /\ LET s == FoldLeft(insertFile, [dirs |-> dirs, streams |-> streams, disk |-> disk], LevelSeq)
         t == FoldLeft(unsafeValidateFileRolling, s, LevelSeq)
     IN /\ dirs' = t.dirs /\ streams' = t.streams /\ disk' = t.disk
        /\ lines' = WithFiles(lines, DOMAIN t.disk)
  /\ running' = TRUE
  /\ UNCHANGED <<filenames, limits, strict>>

\* LogDispatcher::dispatch; the line is written if the level has a stream, and ToFile is on.
LogLine(level, size, toFile) ==
  /\ running
  /\ FoldFunction(LAMBDA content, n : Len(content) + n, 0, lines) < MaxLogLines
  /\ LET s == [dirs |-> dirs, streams |-> streams, disk |-> disk]
         r == IF strict THEN unsafeValidateFileRolling(s, level) ELSE s
         written == toFile /\ streams[fileName(level)] # nullFile
         t == IF written THEN WriteLine(r, level, size) ELSE r
     IN /\ streams' = t.streams /\ disk' = t.disk
        /\ lines' = IF written THEN [lines EXCEPT ![PathOf(fileName(level))] = Append(@, size)] ELSE lines
  /\ UNCHANGED <<filenames, limits, strict, dirs, running>>

\* The program ends.
ProgramEnds ==
  /\ running
  /\ running' = FALSE
  /\ streams' = <<>>
  /\ UNCHANGED <<filenames, limits, strict, dirs, disk, lines>>

DNext ==
  \/ ConfigureFiles \/ ProgramEnds
  \/ \E level \in DLevels, size \in LineSizes, toFile \in BOOLEAN : LogLine(level, size, toFile)

-----------------------------------------------------------------------------
\* Directories on the way to a file.
Above(path) == {SubSeq(path, 1, n) : n \in 1..(Len(path) - 1)}

(***************************************************************************)
(* A level has a stream if all directories of its file are there or can be *)
(* made, no log file is where one of them has to be, and the file is no    *)
(* directory and may be written, and only then: whichever level comes      *)
(* first, and whatever a start before has made.  A date in the name adds   *)
(* no directory, also if it is given a format with slashes.                *)
(***************************************************************************)
FileWhereAsked ==
  running => \A l \in DLevels :
    LET path == PathOf(fileName(l))
    IN /\ streams[fileName(l)] # nullFile <=>
            /\ Above(path) \cap ((Denied \ Present) \cup DOMAIN disk) = {}
            /\ path \notin Denied /\ ~pathExists(dirs, path)
       /\ Len(path) = Len(PathOf(filenames[l]))

Writers(path) == {l \in DLevels : PathOf(fileName(l)) = path}

\* All levels call the file by one name, and so share its stream.
OneName(path) == \A l, m \in Writers(path) : fileName(l) = fileName(m)

(***************************************************************************)
(* A file holds the last lines written to it, in their order: only rolling *)
(* takes some away, and then all.  Where every level that writes to it has *)
(* a maximum size, it exceeds the largest by less than a line if sizes are *)
(* checked strictly, whoever writes and however often the program is       *)
(* started.  This is for files that go by one name: two names are two      *)
(* streams, and after rolling each writes over the other's lines.          *)
(***************************************************************************)
FileBounded ==
  \A path \in DOMAIN disk : OneName(path) =>
    /\ IsSuffix(disk[path], lines[path])
    /\ running /\ strict /\ Writers(path) # {} /\ (\A l \in Writers(path) : limits[l] # 0) =>
         getSizeOfFile(disk[path]) < Max({limits[l] : l \in Writers(path)}) + Max(LineSizes)

\* Lines are in the file that was asked for, the last ones and within its size.
FilesAsAsked == FileWhereAsked /\ FileBounded

=============================================================================
