------------------------------- MODULE AppLog -------------------------------
(***************************************************************************)
(* The event log, app_log.c: the tail in memory, the file on the console's   *)
(* disk that is moved aside at LOG_LIMIT, and what the panel shows of them.   *)
(*                                                                          *)
(* Every operation holds the mutex from beginning to end, so that it is one   *)
(* step; inside it each call of the file system may fail.  Events are         *)
(* numbered in the order they happen and lengths count events: a line written *)
(* in part is a line that is not there.  The process may die at any time.     *)
(* The disk keeps what was written, the memory does not.                      *)
(***************************************************************************)
EXTENDS Integers, Sequences, SequencesExt

CONSTANTS
  LogLimit,  \* LOG_LIMIT, in events
  LogTail,   \* LOG_TAIL, in events
  MaxEvents  \* bound: events that happen

ASSUME LogAssumption ==
  LogLimit \in Nat /\ LogTail \in 1 .. LogLimit /\ MaxEvents \in Nat

VARIABLES
  log,        \* the file PS5Torrent.log
  previous,   \* the file PS5Torrent.previous.log
  output,     \* the log is open for writing
  fileLength, \* file_length: how long the process believes the file is
  recent,     \* the tail in memory
  opens,      \* how often main has called app_log_open
  newest      \* the newest event, 0 before the first

vars == <<log, previous, output, fileLength, recent, opens, newest>>

-----------------------------------------------------------------------------
LastOf(s, n) == SubSeq(s, IF Len(s) > n THEN Len(s) - n + 1 ELSE 1, Len(s))

Init ==
  /\ log = <<>> /\ previous = <<>>
  /\ output = FALSE /\ fileLength = 0 /\ recent = <<>>
  /\ opens = 0 /\ newest = 0

Remember(event) == LastOf(Append(recent, event), LogTail)

(* What the calls of the file system leave: f is the part of the state they   *)
(* reach.                                                                   *)
Files(l, p, o, n) == [log |-> l, previous |-> p, output |-> o, length |-> n]

(* rotate: the file cannot be moved, or moved but not opened again, or both.  *)
Rotated(f) ==
  {Files(f.log, f.previous, FALSE, f.length)}
    \cup {Files(<<>>, f.log, o, 0) : o \in BOOLEAN}

(* A deviation: a failed write leaves the log open.                          *)
CutUnclosed(f, lines) ==
  {Files(f.log \o SubSeq(lines, 1, k), f.previous, TRUE, f.length) : k \in 0 .. Len(lines)}

(* persist's write and flush fail: a part of the lines is in the file, which   *)
(* is closed and stays so.                                                  *)
Cut(f, lines) ==
  {Files(f.log \o SubSeq(lines, 1, k), f.previous, FALSE, f.length) : k \in 0 .. Len(lines)}

Written(f, lines) ==
  {Files(f.log \o lines, f.previous, TRUE, f.length + Len(lines))} \cup Cut(f, lines)

Persisted(f, lines) ==
  IF ~f.output THEN {f}
  ELSE IF f.length + Len(lines) <= LogLimit THEN Written(f, lines)
  ELSE UNION {IF g.output THEN Written(g, lines) ELSE {g} : g \in Rotated(f)}

SetFiles(f) ==
  /\ log' = f.log /\ previous' = f.previous
  /\ output' = f.output /\ fileLength' = f.length

-----------------------------------------------------------------------------
(* A deviation: the file is taken to be empty.                               *)
LengthFoundNone == 0

(* The length of a file that an earlier run of the process left.             *)
LengthFound == Len(log)

(* app_log_open: main calls it before it asks for access to the file system,  *)
(* and once more after.  The first may fail, and what happened meanwhile is   *)
(* written by the second.                                                   *)
AppLogOpen ==
  /\ opens < 2
  /\ opens' = opens + 1
  /\ \/ output /\ UNCHANGED <<log, previous, output, fileLength>>
     \/ ~output /\ UNCHANGED <<log, previous, output, fileLength>>     \* mkdir fails
     \/ /\ ~output                                                     \* fopen fails
        /\ fileLength' = LengthFound
        /\ UNCHANGED <<log, previous, output>>
     \/ /\ ~output
        /\ \E f \in Persisted(Files(log, previous, TRUE, LengthFound), recent) : SetFiles(f)
  /\ UNCHANGED <<recent, newest>>

AppLogWrite ==
  /\ opens > 0 /\ newest < MaxEvents
  /\ newest' = newest + 1
  /\ recent' = Remember(newest')
  /\ \E f \in Persisted(Files(log, previous, output, fileLength), <<newest'>>) : SetFiles(f)
  /\ UNCHANGED opens

AppLogClose ==
  /\ opens = 2 /\ output
  /\ output' = FALSE
  /\ UNCHANGED <<log, previous, fileLength, recent, opens, newest>>

(* The process ends, in whatever way, and is started again.  If it dies inside *)
(* an operation, the disk is as after a failure of the call it died in.      *)
Restart ==
  /\ output' = FALSE /\ fileLength' = 0 /\ recent' = <<>> /\ opens' = 0
  /\ UNCHANGED <<log, previous, newest>>

Next == AppLogOpen \/ AppLogWrite \/ AppLogClose \/ Restart

Spec == Init /\ [][Next]_vars

-----------------------------------------------------------------------------
(* What app_log_read may return: the end of the file, without the line that   *)
(* the tail begins in, or the memory when the file is closed, cannot be read  *)
(* or has nothing to show.                                                  *)
FromFile == LastOf(log, IF Len(log) > LogTail THEN LogTail - 1 ELSE LogTail)

Views == {IF output /\ opened /\ FromFile # <<>> THEN FromFile ELSE recent : opened \in BOOLEAN}

(* The log page always ends with the newest event of this run of the program,  *)
(* whatever call of the file system has failed since it started: before the   *)
(* directory is accessible, in the middle of a rotation, after a full disk.   *)
LatestIsShown ==
  recent # <<>> => \A view \in Views : view # <<>> /\ Last(view) = newest

(* Neither file grows beyond the limit that src/README.md:47 promises, also   *)
(* when the file is that of earlier runs, which ended anywhere.               *)
LogBounded == Len(log) <= LogLimit /\ Len(previous) <= LogLimit
=============================================================================
