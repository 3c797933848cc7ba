---------------------------- MODULE AppLog_proofs ----------------------------
(* Theorems about AppLog, for every limit, tail and number of events.       *)
EXTENDS AppLog, SequenceTheorems, TLAPS

-----------------------------------------------------------------------------
(* The inductive invariant.                                                 *)

Event == Seq(Nat)

(* What is on the disk, and how long the process believes the file is, fit   *)
(* together.  fileLength is trusted by persist instead of the file.          *)
FilesFit(f) ==
  /\ f.log \in Event /\ f.previous \in Event
  /\ f.output \in BOOLEAN /\ f.length \in Nat
  /\ Len(f.log) <= LogLimit /\ Len(f.previous) <= LogLimit
  /\ f.output => f.length = Len(f.log)

TailFits ==
  /\ newest \in Nat /\ recent \in Event /\ Len(recent) <= LogTail
  /\ recent # <<>> => Last(recent) = newest

EndsWith(s, event) == s # <<>> /\ Last(s) = event

(* As long as the file is open, it has the newest event, too.               *)
FileIsCurrent == output /\ recent # <<>> => EndsWith(log, newest)

LogInvariant ==
  FilesFit(Files(log, previous, output, fileLength)) /\ TailFits /\ FileIsCurrent

-----------------------------------------------------------------------------
(* Sequences.                                                               *)

(* An end of a sequence.                                                    *)
LEMMA SuffixProperties ==
  ASSUME NEW s \in Event, NEW m \in 1 .. Len(s) + 1
  PROVE  /\ SubSeq(s, m, Len(s)) \in Event
         /\ Len(SubSeq(s, m, Len(s))) = Len(s) - m + 1
         /\ m <= Len(s) => SubSeq(s, m, Len(s))[Len(s) - m + 1] = s[Len(s)]
  BY DEF Event

(* The last n elements of a sequence are n at most, and end as it does.     *)
LEMMA LastOfProperties ==
  ASSUME NEW s \in Event, NEW n \in Nat
  PROVE  /\ LastOf(s, n) \in Event
         /\ Len(LastOf(s, n)) <= n
         /\ LastOf(s, n) # <<>> => s # <<>> /\ Last(LastOf(s, n)) = Last(s)
         /\ n > 0 /\ s # <<>> => LastOf(s, n) # <<>>
<1>1. Len(s) \in Nat /\ (s = <<>> <=> Len(s) = 0)
  BY LenProperties, EmptySeq DEF Event
<1>2. PICK m : /\ LastOf(s, n) = SubSeq(s, m, Len(s))
               /\ m \in 1 .. Len(s) + 1 /\ Len(s) - m + 1 <= n
               /\ n > 0 /\ Len(s) > 0 => m <= Len(s)
  <2>1. CASE Len(s) > n
    <3>1. LastOf(s, n) = SubSeq(s, Len(s) - n + 1, Len(s))
      BY <2>1 DEF LastOf
    <3>2. PICK m \in 1 .. Len(s) + 1 : m = Len(s) - n + 1
      BY <1>1, <2>1
    <3>3. Len(s) - m + 1 <= n /\ (n > 0 => m <= Len(s))
      BY <1>1, <3>2
    <3>4. LastOf(s, n) = SubSeq(s, m, Len(s))
      BY <3>1, <3>2
    <3> QED
      BY <3>3, <3>4
  <2>2. CASE ~(Len(s) > n)
    BY <1>1, <2>2 DEF LastOf
  <2> QED
    BY <2>1, <2>2
<1>3. PICK t : t = LastOf(s, n)
  OBVIOUS
<1>4. /\ t \in Event /\ Len(t) = Len(s) - m + 1
      /\ m <= Len(s) => t[Len(t)] = s[Len(s)]
  BY <1>2, <1>3, SuffixProperties
<1>5. t = <<>> <=> Len(t) = 0
  BY <1>4, EmptySeq DEF Event
<1>6. Len(t) <= n /\ (n > 0 /\ Len(s) > 0 => Len(t) > 0)
  BY <1>1, <1>2, <1>4
<1>7. t # <<>> => s # <<>> /\ Last(t) = Last(s)
  <2>1. Len(t) # 0 => Len(s) # 0 /\ m <= Len(s)
    BY <1>1, <1>2, <1>4
  <2> QED
    BY <1>1, <1>4, <1>5, <2>1 DEF Last
<1> QED
  BY <1>1, <1>3, <1>4, <1>5, <1>6, <1>7

(* What a sequence, extended by another one, ends with.                     *)
LEMMA LastOfConcat ==
  ASSUME NEW s \in Event, NEW t \in Event, NEW event, EndsWith(t, event)
  PROVE  EndsWith(s \o t, event)
<1>1. Len(s) \in Nat /\ Len(t) \in Nat /\ Len(t) # 0
  BY LenProperties, EmptySeq DEF Event, EndsWith
<1>2. /\ Len(s \o t) = Len(s) + Len(t)
      /\ (s \o t)[Len(s) + Len(t)] = t[Len(t)]
  BY <1>1, ConcatProperties DEF Event
<1>3. s \o t # <<>>
  BY <1>1, <1>2, EmptySeq
<1> QED
  BY <1>2, <1>3 DEF EndsWith, Last

(* A single line: its sequence, and what it is the end of.                  *)
LEMMA Line ==
  ASSUME NEW event \in Nat
  PROVE  /\ <<event>> \in Event /\ Len(<<event>>) = 1
         /\ EndsWith(<<event>>, event)
  BY DEF Event, EndsWith, Last

-----------------------------------------------------------------------------
(* The calls of the file system.                                            *)

(* A write within the limit keeps the files fitting, and if the log is open  *)
(* after it, all the lines are at its end.                                  *)
LEMMA WrittenFits ==
  ASSUME NEW f, FilesFit(f), f.output, NEW lines \in Event,
         f.length + Len(lines) <= LogLimit, NEW g \in Written(f, lines)
  PROVE  FilesFit(g) /\ (g.output => g.log = f.log \o lines)
<1>1. Len(lines) \in Nat /\ Len(f.log) \in Nat /\ f.length = Len(f.log)
  BY LenProperties DEF Event, FilesFit
<1>2. CASE g = Files(f.log \o lines, f.previous, TRUE, f.length + Len(lines))
  <2>1. f.log \o lines \in Event /\ Len(f.log \o lines) = Len(f.log) + Len(lines)
    BY ConcatProperties DEF Event, FilesFit
  <2> QED
    BY <1>1, <1>2, <2>1, LogAssumption DEF FilesFit, Files
<1>3. CASE g \in Cut(f, lines)
  <2>1. PICK k \in 0 .. Len(lines) :
          g = Files(f.log \o SubSeq(lines, 1, k), f.previous, FALSE, f.length)
    BY <1>3 DEF Cut
  <2>2. \A i \in 1 .. k : lines[i] \in Nat
    BY <1>1, ElementOfSeq DEF Event
  <2>3. SubSeq(lines, 1, k) \in Event /\ Len(SubSeq(lines, 1, k)) = k
    BY <1>1, <2>2, SubSeqProperties DEF Event
  <2>4. PICK part : part = SubSeq(lines, 1, k)
    OBVIOUS
  <2>5. part \in Seq(Nat) /\ f.log \in Seq(Nat) /\ Len(part) = k
    BY <2>3, <2>4 DEF Event, FilesFit
  <2>6. f.log \o part \in Event /\ Len(f.log \o part) = Len(f.log) + Len(part)
    BY <2>5, ConcatProperties DEF Event
  <2>7. Len(f.log \o part) <= LogLimit
    BY <1>1, <2>5, <2>6, LogAssumption
  <2>8. g = Files(f.log \o part, f.previous, FALSE, f.length)
    BY <2>1, <2>4
  <2> QED
    BY <2>6, <2>7, <2>8 DEF FilesFit, Files
<1> QED
  BY <1>2, <1>3 DEF Written

(* Wherever the rotation fails, the files fit; when the log is open after    *)
(* it, it is empty.                                                         *)
LEMMA RotatedFits ==
  ASSUME NEW f, FilesFit(f), NEW g \in Rotated(f)
  PROVE  FilesFit(g) /\ (g.output => g.length = 0)
<1>1. CASE g = Files(f.log, f.previous, FALSE, f.length)
  BY <1>1 DEF FilesFit, Files
<1>2. CASE \E o \in BOOLEAN : g = Files(<<>>, f.log, o, 0)
  <2>1. <<>> \in Event /\ Len(<<>>) = 0
    BY EmptySeq DEF Event
  <2> QED
    BY <1>2, <2>1, LogAssumption DEF FilesFit, Files
<1> QED
  BY <1>1, <1>2 DEF Rotated

(* persist, whichever of its calls fail.                                    *)
LEMMA PersistedFits ==
  ASSUME NEW f, FilesFit(f), NEW lines \in Event, Len(lines) <= LogLimit,
         NEW g \in Persisted(f, lines)
  PROVE  /\ FilesFit(g)
         /\ g.output => \E before \in Event : g.log = before \o lines
<1>1. CASE ~f.output
  BY <1>1 DEF Persisted
<1>2. CASE f.output /\ f.length + Len(lines) <= LogLimit
  <2>1. g \in Written(f, lines)
    BY <1>2 DEF Persisted
  <2> QED
    BY <1>2, <2>1, WrittenFits DEF FilesFit
<1>3. CASE f.output /\ ~(f.length + Len(lines) <= LogLimit)
  <2>1. PICK r \in Rotated(f) : g \in (IF r.output THEN Written(r, lines) ELSE {r})
    BY <1>3 DEF Persisted
  <2>2. FilesFit(r) /\ (r.output => r.length = 0)
    BY <2>1, RotatedFits
  <2>3. CASE r.output
    <3>1. r.length + Len(lines) <= LogLimit
      BY <2>2, <2>3, LenProperties DEF Event
    <3> QED
      BY <2>1, <2>2, <2>3, <3>1, WrittenFits DEF FilesFit
  <2>4. CASE ~r.output
    BY <2>1, <2>2, <2>4
  <2> QED
    BY <2>3, <2>4
<1> QED
  BY <1>1, <1>2, <1>3

-----------------------------------------------------------------------------
(* The invariant.                                                           *)

LEMMA InvariantInit == Init => LogInvariant
<1> SUFFICES ASSUME Init PROVE LogInvariant
  OBVIOUS
<1>1. <<>> \in Event /\ Len(<<>>) = 0
  BY EmptySeq DEF Event
<1>2. Len(<<>>) <= LogLimit /\ Len(<<>>) <= LogTail
  BY <1>1, LogAssumption
<1> QED
  BY <1>1, <1>2 DEF Init, LogInvariant, FilesFit, Files, TailFits, FileIsCurrent

(* SetFiles makes the files of the next state those of f.                   *)
LEMMA FilesSet ==
  ASSUME NEW f, FilesFit(f), SetFiles(f)
  PROVE  /\ FilesFit(Files(log', previous', output', fileLength'))
         /\ output' = f.output /\ log' = f.log
  BY DEF SetFiles, FilesFit, Files

LEMMA OpenKeeps == LogInvariant /\ AppLogOpen => LogInvariant'
<1> SUFFICES ASSUME LogInvariant, AppLogOpen PROVE LogInvariant'
  OBVIOUS
<1>1. TailFits'
  BY DEF LogInvariant, TailFits, AppLogOpen
<1>2. CASE UNCHANGED <<log, previous, output, fileLength>>
  BY <1>1, <1>2 DEF LogInvariant, FilesFit, Files, FileIsCurrent, AppLogOpen
<1>3. CASE /\ ~output /\ fileLength' = LengthFound
           /\ UNCHANGED <<log, previous, output>>
  <2>1. Len(log) \in Nat
    BY LenProperties DEF LogInvariant, FilesFit, Files, Event
  <2> QED
    BY <1>1, <1>3, <2>1
    DEF LogInvariant, FilesFit, Files, FileIsCurrent, AppLogOpen, LengthFound
<1>4. CASE \E f \in Persisted(Files(log, previous, TRUE, LengthFound), recent) :
             SetFiles(f)
  <2>1. PICK f \in Persisted(Files(log, previous, TRUE, LengthFound), recent) :
          SetFiles(f)
    BY <1>4
  <2>2. FilesFit(Files(log, previous, TRUE, LengthFound))
    BY LenProperties DEF LogInvariant, FilesFit, Files, LengthFound, Event
  <2>3. recent \in Event /\ Len(recent) <= LogLimit
    BY LenProperties, LogAssumption DEF LogInvariant, TailFits, Event
  <2>4. /\ FilesFit(f)
        /\ f.output => \E before \in Event : f.log = before \o recent
    BY <2>2, <2>3, PersistedFits
  <2>5. /\ FilesFit(Files(log', previous', output', fileLength'))
        /\ output' = f.output /\ log' = f.log
    BY <2>1, <2>4, FilesSet
  <2>6. recent # <<>> => EndsWith(recent, newest)
    BY DEF LogInvariant, TailFits, EndsWith
  <2>7. FileIsCurrent'
    BY <2>3, <2>4, <2>5, <2>6, LastOfConcat DEF FileIsCurrent, AppLogOpen
  <2> QED
    BY <1>1, <2>5, <2>7 DEF LogInvariant, Files
<1> QED
  BY <1>2, <1>3, <1>4 DEF AppLogOpen

LEMMA WriteKeeps == LogInvariant /\ AppLogWrite => LogInvariant'
<1> SUFFICES ASSUME LogInvariant, AppLogWrite PROVE LogInvariant'
  OBVIOUS
<1> DEFINE line == <<newest'>>
<1>1. newest' \in Nat
  BY DEF LogInvariant, TailFits, AppLogWrite
<1>2. line \in Event /\ Len(line) = 1 /\ EndsWith(line, newest')
  BY <1>1, Line
<1>3. Append(recent, newest') \in Event /\ EndsWith(Append(recent, newest'), newest')
  <2>1. recent \in Seq(Nat) /\ Len(recent) \in Nat
    BY LenProperties DEF LogInvariant, TailFits, Event
  <2> QED
    BY <1>1, <2>1 DEF Event, EndsWith, Last
<1>4. TailFits'
  <2>1. recent' = LastOf(Append(recent, newest'), LogTail)
    BY DEF AppLogWrite, Remember
  <2>2. LogTail \in Nat /\ LogTail > 0
    BY LogAssumption
  <2> QED
    BY <1>1, <1>3, <2>1, <2>2, LastOfProperties DEF TailFits, EndsWith
<1>5. PICK f \in Persisted(Files(log, previous, output, fileLength), line) :
        SetFiles(f)
  BY DEF AppLogWrite
<1>6. /\ FilesFit(f)
      /\ f.output => \E before \in Event : f.log = before \o line
  <2>1. Len(line) <= LogLimit
    BY <1>2, LogAssumption
  <2> QED
    BY <1>2, <1>5, <2>1, PersistedFits DEF LogInvariant
<1>7. /\ FilesFit(Files(log', previous', output', fileLength'))
      /\ output' = f.output /\ log' = f.log
  BY <1>5, <1>6, FilesSet
<1>8. FileIsCurrent'
  BY <1>2, <1>6, <1>7, LastOfConcat DEF FileIsCurrent
<1> QED
  BY <1>4, <1>7, <1>8 DEF LogInvariant, Files

LEMMA InvariantStep == LogInvariant /\ [Next]_vars => LogInvariant'
<1> SUFFICES ASSUME LogInvariant, [Next]_vars PROVE LogInvariant'
  OBVIOUS
<1>1. CASE AppLogOpen
  BY <1>1, OpenKeeps
<1>2. CASE AppLogWrite
  BY <1>2, WriteKeeps
<1>3. CASE AppLogClose
  BY <1>3 DEF LogInvariant, FilesFit, Files, TailFits, FileIsCurrent, AppLogClose
<1>4. CASE Restart
  <2>1. <<>> \in Event /\ Len(<<>>) = 0
    BY EmptySeq DEF Event
  <2>2. Len(<<>>) <= LogTail
    BY <2>1, LogAssumption
  <2>3. FilesFit(Files(log', previous', output', fileLength'))
    BY <1>4 DEF LogInvariant, FilesFit, Files, Restart
  <2>4. TailFits' /\ FileIsCurrent'
    BY <1>4, <2>1, <2>2 DEF LogInvariant, TailFits, FileIsCurrent, Restart
  <2> QED
    BY <2>3, <2>4 DEF LogInvariant, Files
<1>5. CASE UNCHANGED vars
  BY <1>5 DEF LogInvariant, FilesFit, Files, TailFits, FileIsCurrent, vars
<1> QED
  BY <1>1, <1>2, <1>3, <1>4, <1>5 DEF Next

-----------------------------------------------------------------------------
(* Neither file grows beyond the limit, whatever call fails and whenever the *)
(* process dies.                                                            *)
THEOREM LogStaysBounded == Spec => []LogBounded
<1>1. LogInvariant => LogBounded
  BY DEF LogInvariant, FilesFit, Files, LogBounded
<1> QED
  BY <1>1, InvariantInit, InvariantStep, PTL DEF Spec

(* The log page ends with the newest event of this run.                     *)
THEOREM NewestIsShown == Spec => []LatestIsShown
<1>1. LogInvariant => LatestIsShown
  <2> SUFFICES ASSUME LogInvariant, recent # <<>>, NEW view \in Views
               PROVE  view # <<>> /\ Last(view) = newest
    BY DEF LatestIsShown
  <2>1. CASE view = recent
    BY <2>1 DEF LogInvariant, TailFits
  <2>2. CASE output /\ FromFile # <<>> /\ view = FromFile
    <3>1. EndsWith(log, newest)
      BY <2>2 DEF LogInvariant, FileIsCurrent
    <3>2. PICK n \in Nat : FromFile = LastOf(log, n)
      <4>1. LogTail \in Nat /\ LogTail - 1 \in Nat
        BY LogAssumption
      <4> QED
        BY <4>1 DEF FromFile
    <3>3. log \in Event
      BY DEF LogInvariant, FilesFit, Files
    <3> QED
      BY <2>2, <3>1, <3>2, <3>3, LastOfProperties DEF EndsWith
  <2> QED
    BY <2>1, <2>2 DEF Views
<1> QED
  BY <1>1, InvariantInit, InvariantStep, PTL DEF Spec
=============================================================================
