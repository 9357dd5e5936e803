--------------------------- MODULE TailersProofs ---------------------------
(***************************************************************************)
(* The safety properties of Tailers, proved for a file of any length that  *)
(* is truncated and rotated any number of times, any number of runs of the *)
(* program, and any process, log and reconnect delays.                     *)
(***************************************************************************)
EXTENDS Tailers, WellFoundedInduction, TLAPS

-----------------------------------------------------------------------------
(* The inductive invariant: the goroutine's life.                          *)

\* The goroutine has the file open and goes on reading it.
AtWork ==
    \/ pc \in {"read", "send", "count", "addWatch", "select", "reopen", "rewatch"}
    \/ pc = "sendErr" /\ errNext = "select"

\* An error that ends the tailer has been reported to the health monitor before
\* it is sent, and an error of a read is remembered until the tailer ends.
Control ==
    /\ ~ctxDone => stopper = "running"
    /\ errNext \in (IF kind = "file" THEN {"done", "select"} ELSE {"done", "wait", "backoff"})
    /\ (pc \in {"sendErr", "errBlocked"} /\ errNext = "done" /\ ~ctxDone) =>
          status \in {"degraded", "failed"}
    /\ readEnd = "error" => readFailed

\* The goroutine's file: there is one, its line has text, and retries are left.
FileControl ==
    kind = "file" =>
        /\ Len(files) >= 1
        /\ path \in {0, Len(files)}
        /\ AtWork => handle # 0
        /\ pc = "send" => hand # <<>>
        /\ pc = "reopen" => retry < ReopenMaxRetry

\* Without follow there is one session, and each line of it is sent as it is read.
OneSession ==
    /\ ~follow => ~repeated
    /\ (kind # "file" /\ ~follow) =>
          /\ pc \notin {"exited", "backoff"}
          /\ errNext # "backoff"
          /\ pc = "start" => pos = 0
          /\ emitted <= pos
          /\ pc = "send" => emitted < pos

-----------------------------------------------------------------------------
(* The inductive invariant: what the watcher holds.                        *)

\* The watcher is set up after the first read, and again after a rotation.  A
\* rename ends the watch, is its last event, and leaves another file, or none,
\* at the path.
Watching ==
    kind = "file" =>
        /\ \/ pc \in {"off", "open", "addWatch", "reopen", "rewatch"}
           \/ pc \in {"read", "send", "count"} /\ ~following
           => events = <<>> /\ watch = 0
        /\ watch # 0 \/ events # <<>> => handle # 0
        /\ pc = "select" \/ (pc = "sendErr" /\ errNext = "select") => following
        /\ \A i \in 1..Len(events) :
              events[i] = "rename" => i = Len(events) /\ watch = 0 /\ path # handle
        /\ pc = "reopen" => path # handle

-----------------------------------------------------------------------------
(* The inductive invariant: order.                                         *)

Increasing(ps) == \A i, j \in 1..Len(ps) : i < j => ps[i].id < ps[j].id

\* The pieces of the files fs, n in all, are numbered in the order of writing.
Numbered(fs, n) ==
    /\ \A k \in 1..Len(fs) : Increasing(fs[k]) /\ \A i \in 1..Len(fs[k]) : fs[k][i].id <= n
    /\ \A j, k \in 1..Len(fs) : j < k =>
          \A a \in PieceIds(fs[j]), b \in PieceIds(fs[k]) : a < b

\* All that this run has taken from the files.
Taken == {sent[i] : i \in 1..Len(sent)} \cup PieceIds(hand) \cup PieceIds(buf)

\* With file hd open at position fp, what is still to be read of the files fs
\* comes after the pieces in t: also if the file is shorter than the position,
\* when it has been truncated.
Ahead(fs, hd, fp, t) ==
    /\ hd # 0 => \A i \in 1..Len(fs[hd]) :
          (i > fp \/ Len(fs[hd]) < fp) => \A a \in t : a < fs[hd][i].id
    /\ \A k \in 1..Len(fs) : k > hd => \A a \in t, b \in PieceIds(fs[k]) : a < b

\* The lines sent, the line in hand and the buffer follow each other.
InTurn ==
    /\ \A i, j \in 1..Len(sent) : i < j => sent[i] < sent[j]
    /\ Increasing(hand)
    /\ Increasing(buf)
    /\ \A i \in 1..Len(sent), b \in PieceIds(buf) : sent[i] < b
    /\ \A a \in PieceIds(hand), b \in PieceIds(buf) : a < b
    /\ pc = "send" => \A i \in 1..Len(sent), b \in PieceIds(hand) : sent[i] < b

\* A process starts with nothing.
Fresh == pc \in {"off", "open"} => handle = 0 /\ sent = <<>> /\ hand = <<>> /\ buf = <<>>

Order ==
    kind = "file" =>
        /\ Numbered(files, pieces)
        /\ \A a \in Taken : a <= pieces
        /\ Ahead(files, handle, fdpos, Taken)
        /\ InTurn
        /\ Fresh

-----------------------------------------------------------------------------
(* The inductive invariant: the bookmark.                                  *)

\* The pieces ps are those of file f from position off on.
Piecewise(f, off, ps) ==
    off + Len(ps) <= Len(f) /\ \A i \in 1..Len(ps) : ps[i] = f[off + i]

\* What the offset off says of file f: what lies before it is delivered (d), and
\* what lies behind it is not, but for the pieces in x.
Before(f, off, d) == off <= Len(f) /\ \A i \in 1..off : f[i].id \in d
Behind(f, off, d, x) == \A i \in 1..Len(f) : i > off /\ f[i].id \in d => f[i].id \in x

\* The line that is in the channel and not counted.
Uncounted == IF pc = "count" THEN PieceIds(hand) ELSE {}

\* The position of the descriptor is the offset, the line in hand and the buffer.
Reading ==
    AtWork =>
        /\ handle = path
        /\ pc \notin {"reopen", "rewatch"}
        /\ LET inHand == IF pc \in {"send", "count"} THEN Len(hand) ELSE 0
           IN  /\ pc \in {"send", "count"} => Piecewise(files[path], lastOffset, hand)
               /\ Piecewise(files[path], lastOffset + inHand, buf)
               /\ fdpos = lastOffset + inHand + Len(buf)
        /\ pc = "send" /\ hand[1].kind = "newline" => Len(hand) = 1
        /\ pc = "count" => PieceIds(hand) \subseteq delivered

\* The file at the path is the open one, and no rename is under way.
Steady ==
    /\ handle # 0 => handle = path
    /\ \A i \in 1..Len(events) : events[i] = "write"

\* What lies before the saved offset was sent.
Saved == bookmark.inode # 0 => Before(files[bookmark.inode], bookmark.offset, delivered)

\* Between two runs, without a crash: what lies behind the saved offset was not
\* sent, and nothing was of a file that came later.
AtRest ==
    (pc = "off" /\ ~crashed) =>
        /\ bookmark.inode # 0 =>
              Behind(files[bookmark.inode], bookmark.offset, delivered, inFlight)
        /\ path \notin {0, bookmark.inode} => Behind(files[path], 0, delivered, inFlight)

\* The same of the offset of the running tailer, but for the line it has not counted.
Running ==
    /\ pc # "off" =>
          /\ path = 0 => lastOffset = 0
          /\ path # 0 => Before(files[path], lastOffset, delivered)
          /\ (path # 0 /\ ~crashed) =>
                Behind(files[path], lastOffset, delivered, inFlight \cup Uncounted)
    /\ pc = "open" => startOffset = lastOffset

\* A file that was neither truncated nor rotated under a running tailer.
Mark == Steady /\ Reading /\ Saved /\ AtRest /\ Running

Bookmarked == (kind = "file" /\ ~disturbed) => Mark

Delivered == kind = "file" => \A d \in delivered : d <= pieces

\* The tailers of processes leave files and bookmark alone.
NoFile == kind # "file" => sent = <<>> /\ bookmark.inode = 0

IInv ==
    /\ EndIsReported
    /\ Control
    /\ FileControl
    /\ OneSession
    /\ Watching
    /\ Order
    /\ Delivered
    /\ Bookmarked
    /\ NoFile

-----------------------------------------------------------------------------
(* Tailers of processes.                                                   *)

\* What the tailers of processes can change.
ProcPart ==
    /\ BaseTypeOK
    /\ ProcTypeOK
    /\ pc \in ProcLabels
    /\ errNext \in {"done", "wait", "backoff"}
    /\ ~ctxDone => stopper = "running"
    /\ (pc \in {"sendErr", "errBlocked"} /\ errNext = "done" /\ ~ctxDone) =>
          status \in {"degraded", "failed"}
    /\ OneSession
    /\ (pc = "done" /\ follow /\ ~ctxDone) =>
          \/ status \in {"degraded", "failed"}
          \/ kind = "journalctl" /\ proc = "success"
          \/ kind = "stdin"

LEMMA ProcSource ==
  ASSUME ProcPart, kind # "file", NewLine \/ ProcessExits \/ KillProcess
  PROVE  ProcPart'
  BY ProcessTailerAssumption DEF ProcPart, BaseTypeOK, ProcTypeOK, ProcLabels, OneSession, Kinds, Statuses, baseVars,
     NewLine, ProcessExits, KillProcess

LEMMA ProcScan ==
  ASSUME ProcPart, kind # "file", ScanSteps
  PROVE  ProcPart'
<1>1. CASE StartProcess
  BY <1>1, ProcessTailerAssumption DEF ProcPart, BaseTypeOK, ProcTypeOK, ProcLabels, OneSession, Kinds, Statuses,
     StartProcess, ReportHealthy, GoTo, NotGoroutine
<1>2. CASE StartFails
  BY <1>2, ProcessTailerAssumption DEF ProcPart, BaseTypeOK, ProcTypeOK, ProcLabels, OneSession, Kinds, Statuses,
     StartFails, ReportFailed, SendErrThen, NotGoroutine
<1>3. CASE ScanLine
  BY <1>3, ProcessTailerAssumption DEF ProcPart, BaseTypeOK, ProcTypeOK, ProcLabels, OneSession, Kinds, Statuses,
     ScanLine, GoTo, NotGoroutine
<1>4. CASE SendLine
  BY <1>4, ProcessTailerAssumption DEF ProcPart, BaseTypeOK, ProcTypeOK, ProcLabels, OneSession, Kinds, Statuses,
     SendLine, GoTo, NotGoroutine
<1>5. CASE SendCancelled
  BY <1>5, ProcessTailerAssumption DEF ProcPart, BaseTypeOK, ProcTypeOK, ProcLabels, OneSession, Kinds, Statuses,
     SendCancelled, GoTo, NotGoroutine
<1> QED
  BY <1>1, <1>2, <1>3, <1>4, <1>5 DEF ScanSteps

LEMMA ProcEnds ==
  ASSUME ProcPart, kind # "file", NEW label \in {"wait", "done"},
         label = "done" => kind = "stdin", ScanEnds(label) \/ (kind = "stdin" /\ ScanStops)
  PROVE  ProcPart'
  BY DEF ProcPart, BaseTypeOK, ProcTypeOK, ProcLabels, OneSession, Kinds, Statuses,
     ScanEnds, ScanStops, Exited, GoTo, NotGoroutine

LEMMA ProcFails ==
  ASSUME ProcPart, kind # "file",
         ScanFails(SendErrThen("wait")) \/ ScanFails(SendErrBlocked("wait"))
  PROVE  ProcPart'
<1>1. CASE ScanFails(SendErrThen("wait"))
  BY <1>1 DEF ProcPart, BaseTypeOK, ProcTypeOK, ProcLabels, OneSession, Kinds, Statuses,
     ScanFails, SendErrThen, ReportDegraded, GoTo, NotGoroutine
<1>2. CASE ScanFails(SendErrBlocked("wait"))
  BY <1>2 DEF ProcPart, BaseTypeOK, ProcTypeOK, ProcLabels, OneSession, Kinds, Statuses,
     ScanFails, SendErrBlocked, ReportDegraded, GoTo, NotGoroutine
<1> QED
  BY <1>1, <1>2

\* A session that ends quietly is to be read again, was not followed, was
\* stopped, or is journalctl's.
LEMMA ProcWaits ==
  ASSUME ProcPart, kind # "file", NEW label \in {"exited", "done"}, WaitQuiet(label),
         label = "exited" => follow,
         label = "done" => ~Unexpected /\ (~follow \/ kind = "journalctl")
  PROVE  ProcPart'
  BY DEF ProcPart, BaseTypeOK, ProcTypeOK, ProcLabels, OneSession, Kinds, Statuses,
     WaitQuiet, WaitReturns, Exited, Unexpected, GoTo, NotGoroutine

LEMMA ProcReports ==
  ASSUME ProcPart, kind # "file",
         \/ WaitReports(ReportDegraded, SendErrThen("done"))
         \/ WaitReports(ReportFailed, SendErrBlocked("done"))
  PROVE  ProcPart'
<1>1. CASE WaitReports(ReportDegraded, SendErrThen("done"))
  BY <1>1 DEF ProcPart, BaseTypeOK, ProcTypeOK, ProcLabels, OneSession, Kinds, Statuses,
     WaitReports, WaitReturns, ReportDegraded, SendErrThen, NotGoroutine
<1>2. CASE WaitReports(ReportFailed, SendErrBlocked("done"))
  BY <1>2 DEF ProcPart, BaseTypeOK, ProcTypeOK, ProcLabels, OneSession, Kinds, Statuses,
     WaitReports, WaitReturns, ReportFailed, SendErrBlocked, NotGoroutine
<1> QED
  BY <1>1, <1>2

LEMMA ProcReconnects ==
  ASSUME ProcPart, kind # "file", Reconnect
  PROVE  ProcPart'
<1>1. NextDelay \in BaseDelay..MaxDelay
  BY ProcessTailerAssumption DEF ProcPart, ProcTypeOK, NextDelay
<1>2. ProcTypeOK'
  BY <1>1 DEF ProcPart, ProcTypeOK, Reconnect, NotGoroutine
<1> QED
  BY <1>2 DEF ProcPart, BaseTypeOK, ProcTypeOK, ProcLabels, OneSession, Kinds, Statuses,
     Reconnect, ReportDegraded, SendErrThen, GoTo, NotGoroutine

LEMMA ProcErrors ==
  ASSUME ProcPart, kind # "file",
         (sendErr /\ UNCHANGED procVars) \/ ErrBlocked
  PROVE  ProcPart'
  BY TailerAssumption DEF ProcPart, BaseTypeOK, ProcTypeOK, ProcLabels, OneSession, Kinds, Statuses,
     procVars, sendErr, ErrBlocked

LEMMA ProcStops ==
  ASSUME ProcPart, kind # "file", StopCancel \/ StopReport \/ ConsumeErr, UNCHANGED procVars
  PROVE  ProcPart'
<1>1. CASE StopCancel
  BY <1>1 DEF ProcPart, BaseTypeOK, ProcTypeOK, ProcLabels, OneSession, Kinds, Statuses,
     procVars, StopCancel
<1>2. CASE StopReport
  BY <1>2 DEF ProcPart, BaseTypeOK, ProcTypeOK, ProcLabels, OneSession, Kinds, Statuses,
     procVars, StopReport
<1>3. CASE ConsumeErr
  BY <1>3, TailerAssumption DEF ProcPart, BaseTypeOK, ProcTypeOK, ProcLabels, OneSession,
     Kinds, Statuses, procVars, ConsumeErr
<1> QED
  BY <1>1, <1>2, <1>3

LEMMA ProcKeeps ==
  ASSUME ProcPart, kind # "file", ProcNext
  PROVE  ProcPart'
<1>1. CASE NewLine \/ ProcessExits \/ KillProcess
  BY <1>1, ProcSource
<1>2. CASE LogsSession
  <2>1. CASE ScanSteps
    BY <2>1, ProcScan
  <2>2. CASE ScanEnds("wait")
    BY <2>2, ProcEnds
  <2>3. CASE ScanFails(SendErrThen("wait"))
    BY <2>3, ProcFails
  <2>4. CASE follow /\ WaitQuiet("exited")
    BY <2>4, ProcWaits
  <2>5. CASE ~follow /\ ~Unexpected /\ WaitQuiet("done")
    BY <2>5, ProcWaits
  <2>6. CASE ~follow /\ Unexpected /\ WaitReports(ReportDegraded, SendErrThen("done"))
    BY <2>6, ProcReports
  <2> QED
    BY <1>2, <2>1, <2>2, <2>3, <2>4, <2>5, <2>6, Zenon DEF LogsSession
<1>3. CASE Reconnect
  BY <1>3, ProcReconnects
<1>4. CASE JournalctlRun
  <2>1. CASE ScanSteps
    BY <2>1, ProcScan
  <2>2. CASE ScanEnds("wait")
    BY <2>2, ProcEnds
  <2>3. CASE ScanFails(SendErrBlocked("wait"))
    BY <2>3, ProcFails
  <2>4. CASE ~Unexpected /\ WaitQuiet("done")
    BY <1>4, <2>4, ProcWaits DEF JournalctlRun
  <2>5. CASE Unexpected /\ WaitReports(ReportFailed, SendErrBlocked("done"))
    BY <2>5, ProcReports
  <2>6. CASE ErrBlocked
    BY <2>6, ProcErrors
  <2> QED
    BY <1>4, <2>1, <2>2, <2>3, <2>4, <2>5, <2>6, Zenon DEF JournalctlRun
<1>5. CASE StdinRun
  <2>1. kind = "stdin"
    BY <1>5 DEF StdinRun
  <2>2. CASE pc = "start" /\ ReportHealthy /\ GoTo("scan")
             /\ UNCHANGED <<proc, pos, delay, emitted, repeated>> /\ NotGoroutine
    BY <2>1, <2>2 DEF ProcPart, BaseTypeOK, ProcTypeOK, ProcLabels, OneSession, Kinds, Statuses,
       ReportHealthy, GoTo, NotGoroutine
  <2>3. CASE ScanLine \/ SendLine \/ SendCancelled
    BY <2>3, ProcScan DEF ScanSteps
  <2>4. CASE ScanEnds("done") \/ ScanStops
    BY <2>1, <2>4, ProcEnds
  <2> QED
    BY <1>5, <2>2, <2>3, <2>4 DEF StdinRun
<1> QED
  BY <1>1, <1>2, <1>3, <1>4, <1>5, Zenon
  DEF ProcNext, ProcGoroutine, DockerRun, DockerReconnect, KubernetesRun, KubernetesReconnect

-----------------------------------------------------------------------------
(* The file tailer: types.                                                 *)

\* The files there are, and what refers to them.
InodeTypes ==
    /\ files \in Seq(Seq(Piece)) /\ Len(files) >= 1
    /\ path \in {0, Len(files)}
    /\ pieces \in 0..MaxPieces
    /\ watch \in 0..Len(files)
    /\ handle \in 0..Len(files)
    /\ bookmark \in [offset : Nat, inode : 0..Len(files)]

\* What the goroutine reads and has read.
ReaderTypes ==
    /\ events \in Seq({"write", "rename"})
    /\ fdpos \in Nat
    /\ buf \in Seq(Piece)
    /\ hand \in Seq(Piece)
    /\ lastOffset \in Nat
    /\ startOffset \in Nat
    /\ sent \in Seq(Nat)
    /\ delivered \in SUBSET Nat
    /\ inFlight \in SUBSET Nat
    /\ pc = "send" => hand # <<>>

\* The goroutine's life.
LifeTypes ==
    /\ BaseTypeOK
    /\ pc \in FileLabels
    /\ errNext \in {"done", "select"}
    /\ readEnd \in {"none", "eof", "error"}
    /\ following \in BOOLEAN
    /\ retry \in 0..ReopenMaxRetry
    /\ sessions \in 0..MaxSessions
    /\ crashed \in BOOLEAN
    /\ upsets \in 0..MaxUpsets
    /\ disturbed \in BOOLEAN
    /\ readFailed \in BOOLEAN
    /\ ~ctxDone => stopper = "running"
    /\ (pc = "sendErr" /\ errNext = "done" /\ ~ctxDone) => status \in {"degraded", "failed"}
    /\ readEnd = "error" => readFailed
    /\ AtWork => handle # 0
    /\ pc = "reopen" => retry < ReopenMaxRetry
    /\ (pc = "done" /\ follow /\ ~ctxDone) => status \in {"degraded", "failed"} \/ readFailed

FilePart == InodeTypes /\ ReaderTypes /\ LifeTypes

LEMMA Unmoved ==
  ASSUME InodeTypes, UNCHANGED <<appVars, watch, handle, bookmark>>
  PROVE  InodeTypes'
  BY DEF InodeTypes, appVars

LEMMA UnreadOf ==
  ASSUME FilePart, kind = "file", AtWork
  PROVE  /\ handle \in 1..Len(files)
         /\ files[handle] \in Seq(Piece)
         /\ Len(files[handle]) \in Nat
         /\ Unread \in Seq(Piece)
         /\ Len(Unread) = IF fdpos < Len(files[handle]) THEN Len(files[handle]) - fdpos ELSE 0
         /\ \A i \in 1..Len(Unread) : Unread[i] = files[handle][fdpos + i]
<1>1. handle \in 1..Len(files) /\ files[handle] \in Seq(Piece) /\ fdpos \in Nat
  BY DEF FilePart, InodeTypes, LifeTypes, ReaderTypes
<1>2. Len(files[handle]) \in Nat
  BY <1>1
<1> QED
  BY <1>1, <1>2 DEF Unread

LEMMA NatMinimum ==
  ASSUME NEW S \in SUBSET Nat, S # {}
  PROVE  \E n \in S : \A m \in S : n <= m
<1>1. IsWellFoundedOn(OpToRel(<, Nat), Nat)
  BY NatLessThanWellFounded
<1>2. PICK x \in S : \A y \in S : ~ (<<y, x>> \in OpToRel(<, Nat))
  BY <1>1, WFMin, Zenon
<1>3. \A y \in S : ~ (y < x)
  BY <1>2 DEF OpToRel
<1> QED
  BY <1>3

LEMMA PieceOf ==
  ASSUME NEW ps \in Seq(Piece), NEW i \in 1..Len(ps)
  PROVE  ps[i] \in Piece /\ ps[i].id \in Nat /\ ps[i].kind \in PieceKinds
<1>1. ps[i] \in Piece
  OBVIOUS
<1> QED
  BY <1>1 DEF Piece

\* The first newline of ps, if there is one.
LEMMA LineEndOf ==
  ASSUME NEW ps \in Seq(Piece)
  PROVE  /\ LineEnd(ps) \in 0..Len(ps)
         /\ LineEnd(ps) = 0 => \A i \in 1..Len(ps) : ps[i].kind = "text"
         /\ LineEnd(ps) # 0 => \A i \in 1..(LineEnd(ps) - 1) : ps[i].kind = "text"
<1> DEFINE E == {i \in 1..Len(ps) : ps[i].kind = "newline"}
<1>1. \A i \in 1..Len(ps) : ps[i].kind \in {"text", "newline"}
  BY PieceOf DEF PieceKinds
<1>2. DOMAIN ps = 1..Len(ps) /\ Len(ps) \in Nat
  OBVIOUS
<1>3. CASE E = {}
  BY <1>1, <1>2, <1>3 DEF LineEnd
<1>4. CASE E # {}
  <2>1. E \in SUBSET Nat
    BY <1>2
  <2>2. PICK m \in E : \A n \in E : m <= n
    BY <1>4, <2>1, NatMinimum
  <2>3. m \in 1..Len(ps) /\ ps[m].kind = "newline" /\ \A j \in 1..(m - 1) : ps[j].kind = "text"
    BY <1>1, <1>2, <2>2
  <2>4. LineEnd(ps) = CHOOSE i \in DOMAIN ps :
           ps[i].kind = "newline" /\ \A j \in 1..(i - 1) : ps[j].kind = "text"
    BY <1>2, <2>3 DEF LineEnd
  <2>5. /\ LineEnd(ps) \in DOMAIN ps
        /\ \A j \in 1..(LineEnd(ps) - 1) : ps[j].kind = "text"
    BY <1>2, <2>3, <2>4
  <2> QED
    BY <1>2, <2>5
<1> QED
  BY <1>3, <1>4

\* A sequence cut in two.
LEMMA CutOf ==
  ASSUME NEW S, NEW q \in Seq(S), NEW n \in 0..Len(q)
  PROVE  /\ SubSeq(q, 1, n) \in Seq(S) /\ Len(SubSeq(q, 1, n)) = n
         /\ \A i \in 1..n : SubSeq(q, 1, n)[i] = q[i]
         /\ SubSeq(q, n + 1, Len(q)) \in Seq(S) /\ Len(SubSeq(q, n + 1, Len(q))) = Len(q) - n
         /\ \A i \in 1..(Len(q) - n) : SubSeq(q, n + 1, Len(q))[i] = q[n + i]
  OBVIOUS

LEMMA JoinOf ==
  ASSUME NEW S, NEW p \in Seq(S), NEW q \in Seq(S)
  PROVE  /\ p \o q \in Seq(S) /\ Len(p \o q) = Len(p) + Len(q)
         /\ \A i \in 1..Len(p) : (p \o q)[i] = p[i]
         /\ \A i \in 1..Len(q) : (p \o q)[Len(p) + i] = q[i]
  OBVIOUS

\* The sequence r is p followed by q.
Joined(p, q, r) ==
    /\ Len(r) = Len(p) + Len(q)
    /\ \A i \in 1..Len(p) : r[i] = p[i]
    /\ \A i \in 1..Len(q) : r[Len(p) + i] = q[i]

LEMMA JoinedOf ==
  ASSUME NEW S, NEW p \in Seq(S), NEW q \in Seq(S), NEW r, r = p \o q
  PROVE  Joined(p, q, r)
  BY JoinOf DEF Joined

LEMMA IdsOf ==
  ASSUME NEW ps \in Seq(Piece)
  PROVE  /\ Ids(ps) \in Seq(Nat) /\ Len(Ids(ps)) = Len(ps)
         /\ \A i \in 1..Len(ps) : Ids(ps)[i] = ps[i].id /\ ps[i].id \in Nat
         /\ PieceIds(ps) = {ps[i].id : i \in 1..Len(ps)}
         /\ PieceIds(ps) \in SUBSET Nat
<1>1. DOMAIN ps = 1..Len(ps) /\ Len(ps) \in Nat
  OBVIOUS
<1>2. \A i \in 1..Len(ps) : ps[i].id \in Nat
  BY PieceOf
<1>3. Ids(ps) \in Seq(Nat) /\ Len(Ids(ps)) = Len(ps)
  BY <1>1, <1>2 DEF Ids
<1> QED
  BY <1>1, <1>2, <1>3 DEF Ids, PieceIds

LEMMA AppTypes ==
  ASSUME FilePart, kind = "file", Application
  PROVE  FilePart'
<1>1. FileTailerAssumption
  BY FileTailerAssumption
<1>2. /\ files \in Seq(Seq(Piece)) /\ Len(files) \in Nat /\ Len(files) >= 1
      /\ pieces \in 0..MaxPieces /\ events \in Seq({"write", "rename"})
  BY DEF FilePart, InodeTypes, ReaderTypes
<1>3. ASSUME NEW n, NEW e \in {"write", "rename"}, Notify(n, e)
      PROVE  events' \in Seq({"write", "rename"})
  BY <1>2, <1>3 DEF Notify
<1>4. ASSUME NEW k \in 1..Len(files), NEW f \in Seq(Piece), files' = [files EXCEPT ![k] = f]
      PROVE  files' \in Seq(Seq(Piece)) /\ Len(files') = Len(files)
  BY <1>2, <1>4
<1>5. CASE AppWrite
  <2>1. PICK k \in PieceKinds : files' = [files EXCEPT ![Len(files)] = Append(@, [id |-> pieces + 1, kind |-> k])]
    BY <1>5 DEF AppWrite
  <2>2. [id |-> pieces + 1, kind |-> k] \in Piece
    BY <1>2, <1>1 DEF Piece, FileTailerAssumption
  <2>3. files[Len(files)] \in Seq(Piece)
    BY <1>2
  <2>4. Append(files[Len(files)], [id |-> pieces + 1, kind |-> k]) \in Seq(Piece)
    BY <2>2, <2>3
  <2>5. files' \in Seq(Seq(Piece)) /\ Len(files') = Len(files)
    BY <1>2, <1>4, <2>1, <2>4
  <2>6. InodeTypes'
    <3>1. pieces' \in 0..MaxPieces
      BY <1>1, <1>2, <1>5 DEF AppWrite, FileTailerAssumption
    <3>2. UNCHANGED <<path, watch, handle, bookmark>>
      BY <1>5 DEF AppWrite, readerVars, sessionVars
    <3> QED
      BY <2>5, <3>1, <3>2 DEF FilePart, InodeTypes
  <2>7. ReaderTypes' /\ LifeTypes'
    BY <1>3, <1>5 DEF AppWrite, FilePart, ReaderTypes, LifeTypes, AtWork, BaseTypeOK, readerVars, sessionVars,
       sentVars, upsetVars, baseVars
  <2> QED
    BY <2>6, <2>7 DEF FilePart
<1>6. CASE AppTruncate
  <2>1. path \in 1..Len(files)
    BY <1>6 DEF AppTruncate, FilePart, InodeTypes
  <2>2. files' \in Seq(Seq(Piece)) /\ Len(files') = Len(files)
    <3>1. <<>> \in Seq(Piece)
      OBVIOUS
    <3> QED
      BY <1>4, <1>6, <2>1, <3>1 DEF AppTruncate
  <2>3. InodeTypes'
    BY <1>6, <2>2 DEF AppTruncate, FilePart, InodeTypes, readerVars, sessionVars
  <2>4. ReaderTypes' /\ LifeTypes'
    BY <1>1, <1>3, <1>6 DEF AppTruncate, Upset, FilePart, ReaderTypes, LifeTypes, AtWork, BaseTypeOK, readerVars,
       sessionVars, sentVars, baseVars, FileTailerAssumption
  <2> QED
    BY <2>3, <2>4 DEF FilePart
<1>7. CASE AppRename
  <2>1. InodeTypes'
    BY <1>7 DEF AppRename, FilePart, InodeTypes, readerVars, sessionVars
  <2>2. ReaderTypes' /\ LifeTypes'
    BY <1>1, <1>3, <1>7 DEF AppRename, Upset, FilePart, ReaderTypes, LifeTypes, AtWork, BaseTypeOK, readerVars,
       sessionVars, sentVars, baseVars, FileTailerAssumption
  <2> QED
    BY <2>1, <2>2 DEF FilePart
<1>8. CASE AppCreate
  <2>1. files' \in Seq(Seq(Piece)) /\ Len(files') = Len(files) + 1
    BY <1>2, <1>8 DEF AppCreate
  <2>2. InodeTypes'
    BY <1>2, <1>8, <2>1 DEF AppCreate, FilePart, InodeTypes, readerVars, sessionVars
  <2>3. ReaderTypes' /\ LifeTypes'
    BY <1>8 DEF AppCreate, FilePart, ReaderTypes, LifeTypes, AtWork, BaseTypeOK, readerVars,
       sessionVars, sentVars, upsetVars, baseVars
  <2> QED
    BY <2>2, <2>3 DEF FilePart
<1> QED
  BY <1>5, <1>6, <1>7, <1>8 DEF Application

LEMMA SessionTypes ==
  ASSUME FilePart, kind = "file", StartSession \/ SaveBookmark \/ Crash
  PROVE  FilePart'
<1>1. CASE StartSession
  <2>1. InodeTypes'
    BY <1>1, Unmoved DEF FilePart, StartSession, GoTo, appVars, readerVars
  <2>2. ResumeOffset \in Nat
    BY DEF FilePart, InodeTypes, ResumeOffset
  <2>3. ReaderTypes'
    BY <1>1, <2>2 DEF FilePart, ReaderTypes, StartSession, GoTo, readerVars, sentVars
  <2>4. LifeTypes'
    BY <1>1, FileTailerAssumption DEF FilePart, LifeTypes, BaseTypeOK, FileLabels, AtWork, Kinds, Statuses, StartSession, GoTo, readerVars, upsetVars
  <2> QED
    BY <2>1, <2>3, <2>4 DEF FilePart
<1>2. CASE SaveBookmark \/ Crash
  <2>1. bookmark' \in [offset : Nat, inode : 0..Len(files)] /\ inFlight' \in SUBSET Nat /\ crashed' \in BOOLEAN
    <3>1. PieceIds(hand) \in SUBSET Nat
      BY IdsOf DEF FilePart, ReaderTypes
    <3>2. path \in 0..Len(files) /\ lastOffset \in Nat /\ inFlight \in SUBSET Nat /\ crashed \in BOOLEAN
          /\ bookmark \in [offset : Nat, inode : 0..Len(files)]
      <4>1. path \in 0..Len(files) /\ bookmark \in [offset : Nat, inode : 0..Len(files)]
        BY DEF FilePart, InodeTypes
      <4>2. lastOffset \in Nat /\ inFlight \in SUBSET Nat
        BY DEF FilePart, ReaderTypes
      <4>3. crashed \in BOOLEAN
        BY DEF FilePart, LifeTypes
      <4> QED
        BY <4>1, <4>2, <4>3
    <3>3. CASE SaveBookmark
      BY <3>1, <3>2, <3>3 DEF SaveBookmark
    <3>4. CASE Crash
      BY <3>2, <3>4 DEF Crash
    <3> QED
      BY <1>2, <3>3, <3>4
  <2>2. ProcessEnds
    BY <1>2 DEF SaveBookmark, Crash
  <2>3. InodeTypes'
    BY <2>1, <2>2 DEF FilePart, InodeTypes, ProcessEnds, GoTo, appVars, upsetVars
  <2>4. ReaderTypes'
    BY <2>1, <2>2 DEF FilePart, ReaderTypes, ProcessEnds, GoTo, appVars, upsetVars
  <2>5. LifeTypes'
    <3>1. pc' = "off" /\ ctxDone' = FALSE /\ stopper' = "running" /\ status' = "starting" /\ errChan' = 0
          /\ readEnd' = "none" /\ following' = FALSE /\ retry' = 0 /\ readFailed' = FALSE
          /\ UNCHANGED <<kind, follow, errNext, sessions, upsets, disturbed>>
      BY <2>2 DEF ProcessEnds, GoTo, upsetVars
    <3>0. 0 \in 0..ErrCap
      BY TailerAssumption
    <3>2. BaseTypeOK'
      BY <3>0, <3>1, Zenon DEF FilePart, LifeTypes, BaseTypeOK, Statuses
    <3>3. ~AtWork'
      BY <3>1 DEF AtWork
    <3>4. pc' \in FileLabels /\ 0 \in 0..ReopenMaxRetry
      BY <3>1, FileTailerAssumption DEF FileLabels
    <3> QED
      BY <2>1, <3>1, <3>2, <3>3, <3>4 DEF FilePart, LifeTypes
  <2> QED
    BY <2>3, <2>4, <2>5 DEF FilePart
<1> QED
  BY <1>1, <1>2

LEMMA ReadTypes ==
  ASSUME FilePart, kind = "file", Open \/ ReadLine \/ FillBuffer \/ ReadEnds("eof") \/ ReadEnds("error")
  PROVE  FilePart'
<1>1. CASE Open
  <2>1. InodeTypes'
    BY <1>1 DEF FilePart, InodeTypes, Open, NotTailer, appVars, sessionVars
  <2>2. ReaderTypes'
    BY <1>1 DEF FilePart, ReaderTypes, Open, SendErrThen, NotTailer, appVars, sessionVars, sentVars, upsetVars, readerVars, GoTo
  <2>3. LifeTypes'
    BY <1>1 DEF FilePart, LifeTypes, BaseTypeOK, FileLabels, AtWork, Kinds, Statuses, InodeTypes, Open, ReportFailed, ReportHealthy, SendErrThen, NotTailer, appVars, sessionVars, sentVars, upsetVars, readerVars, GoTo
  <2> QED
    BY <2>1, <2>2, <2>3 DEF FilePart
<1>2. CASE ReadLine
  <2>1. InodeTypes'
    BY <1>2, Unmoved DEF FilePart, ReadLine, NotTailer, appVars, sessionVars, sentVars, upsetVars, readerVars, GoTo
  <2>2. buf \in Seq(Piece) /\ LineEnd(buf) \in 1..Len(buf)
    BY <1>2, LineEndOf DEF FilePart, ReaderTypes, ReadLine
  <2>3. hand' \in Seq(Piece) /\ hand' # <<>> /\ buf' \in Seq(Piece)
    <3>1. hand' \in Seq(Piece) /\ Len(hand') >= 1 /\ buf' \in Seq(Piece)
      BY <1>2, <2>2, CutOf DEF ReadLine
    <3> QED
      BY <3>1
  <2>4. ReaderTypes'
    BY <1>2, <2>3 DEF FilePart, ReaderTypes, ReadLine, NotTailer, appVars, sessionVars, sentVars, upsetVars, readerVars, GoTo
  <2>5. LifeTypes'
    BY <1>2 DEF FilePart, LifeTypes, BaseTypeOK, FileLabels, AtWork, Kinds, Statuses, ReadLine, NotTailer, appVars, sessionVars, sentVars, upsetVars, readerVars, GoTo
  <2> QED
    BY <2>1, <2>4, <2>5 DEF FilePart
<1>3. CASE FillBuffer
  <2>1. InodeTypes'
    BY <1>3, Unmoved DEF FilePart, FillBuffer, NotTailer, appVars, sessionVars, sentVars, upsetVars, readerVars, GoTo
  <2>2. Unread \in Seq(Piece) /\ Len(files[handle]) \in Nat
    BY <1>3, UnreadOf DEF FillBuffer, AtWork
  <2>3. buf' \in Seq(Piece)
    BY <1>3, <2>2 DEF FilePart, ReaderTypes, FillBuffer
  <2>4. ReaderTypes'
    BY <1>3, <2>2, <2>3 DEF FilePart, ReaderTypes, FillBuffer, NotTailer, appVars, sessionVars, sentVars, upsetVars, readerVars, GoTo
  <2>5. LifeTypes'
    BY <1>3 DEF FilePart, LifeTypes, BaseTypeOK, FileLabels, AtWork, Kinds, Statuses, FillBuffer, NotTailer, appVars, sessionVars, sentVars, upsetVars, readerVars, GoTo
  <2> QED
    BY <2>1, <2>4, <2>5 DEF FilePart
<1>4. ASSUME NEW end \in {"eof", "error"}, ReadEnds(end) PROVE FilePart'
  <2>1. InodeTypes'
    BY <1>4, Unmoved DEF FilePart, ReadEnds, NotTailer, appVars, sessionVars, sentVars, upsetVars, readerVars, GoTo
  <2>2. ReaderTypes'
    BY <1>4 DEF FilePart, ReaderTypes, ReadEnds, ReadReturns, NotTailer, appVars, sessionVars, sentVars, upsetVars, readerVars, GoTo
  <2>3. LifeTypes'
    BY <1>4 DEF FilePart, LifeTypes, BaseTypeOK, FileLabels, AtWork, Kinds, Statuses, ReadEnds, ReadReturns, ReportHealthy, NotTailer, appVars, sessionVars, sentVars, upsetVars, readerVars, GoTo
  <2> QED
    BY <2>1, <2>2, <2>3 DEF FilePart
<1> QED
  BY <1>1, <1>2, <1>3, <1>4

LEMMA SendTypes ==
  ASSUME FilePart, kind = "file", Send \/ SkipBlank \/ Count \/ Cancelled
  PROVE  FilePart'
<1>1. hand \in Seq(Piece) /\ sent \in Seq(Nat) /\ delivered \in SUBSET Nat
  BY DEF FilePart, ReaderTypes
<1>2. CASE Send
  <2>1. InodeTypes'
    BY <1>2, Unmoved DEF FilePart, Send, NotTailer, appVars, sessionVars, sentVars, upsetVars, readerVars, GoTo
  <2>2. sent' \in Seq(Nat) /\ delivered' \in SUBSET Nat
    <3>1. Ids(hand) \in Seq(Nat) /\ PieceIds(hand) \in SUBSET Nat
      BY <1>1, IdsOf
    <3> QED
      BY <1>1, <1>2, <3>1, JoinOf DEF Send
  <2>3. ReaderTypes'
    BY <1>2, <2>2 DEF FilePart, ReaderTypes, Send, NotTailer, appVars, sessionVars, sentVars, upsetVars, readerVars, GoTo
  <2>4. LifeTypes'
    BY <1>2 DEF FilePart, LifeTypes, BaseTypeOK, FileLabels, AtWork, Kinds, Statuses, Send, NotTailer, appVars, sessionVars, sentVars, upsetVars, readerVars, GoTo
  <2> QED
    BY <2>1, <2>3, <2>4 DEF FilePart
<1>3. CASE SkipBlank
  <2>1. InodeTypes'
    BY <1>3, Unmoved DEF FilePart, SkipBlank, NotTailer, appVars, sessionVars, sentVars, upsetVars, readerVars, GoTo
  <2>2. 1 \in 1..Len(hand)
    BY <1>1, <1>3 DEF FilePart, ReaderTypes, SkipBlank
  <2>3. hand[1].id \in Nat
    BY <1>1, <2>2, PieceOf
  <2>4. ReaderTypes'
    BY <1>1, <1>3, <2>3 DEF FilePart, ReaderTypes, SkipBlank, NotTailer, appVars, sessionVars, sentVars, upsetVars, readerVars, GoTo
  <2>5. LifeTypes'
    BY <1>3 DEF FilePart, LifeTypes, BaseTypeOK, FileLabels, AtWork, Kinds, Statuses, SkipBlank, NotTailer, appVars, sessionVars, sentVars, upsetVars, readerVars, GoTo
  <2> QED
    BY <2>1, <2>4, <2>5 DEF FilePart
<1>4. CASE Count
  <2>1. InodeTypes'
    BY <1>4, Unmoved DEF FilePart, Count, NotTailer, appVars, sessionVars, sentVars, upsetVars, readerVars, GoTo
  <2>2. Counted \in Nat
    BY <1>1 DEF Counted
  <2>3. ReaderTypes'
    BY <1>4, <2>2 DEF FilePart, ReaderTypes, Count, ReadReturns, NotTailer, appVars, sessionVars, sentVars, upsetVars, readerVars, GoTo
  <2>4. LifeTypes'
    BY <1>4 DEF FilePart, LifeTypes, BaseTypeOK, FileLabels, AtWork, Kinds, Statuses, Count, ReadReturns, ReportHealthy, NotTailer, appVars, sessionVars, sentVars, upsetVars, readerVars, GoTo
  <2> QED
    BY <2>1, <2>3, <2>4 DEF FilePart
<1>5. CASE Cancelled
  <2>1. InodeTypes'
    BY <1>5, Unmoved DEF FilePart, Cancelled, NotTailer, appVars, sessionVars, sentVars, upsetVars, readerVars, GoTo
  <2>2. ReaderTypes'
    BY <1>5 DEF FilePart, ReaderTypes, Cancelled, NotTailer, appVars, sessionVars, sentVars, upsetVars, readerVars, GoTo
  <2>3. LifeTypes'
    BY <1>5, FileTailerAssumption, TailerAssumption DEF FilePart, LifeTypes, BaseTypeOK, FileLabels, AtWork, Kinds, Statuses, Cancelled, NotTailer, appVars, sessionVars, sentVars, upsetVars, readerVars, GoTo
  <2> QED
    BY <2>1, <2>2, <2>3 DEF FilePart
<1> QED
  BY <1>2, <1>3, <1>4, <1>5

LEMMA WatchTypes ==
  ASSUME FilePart, kind = "file",
         \/ AddWatch("addWatch") \/ AddWatch("rewatch") \/ HandleWrite
         \/ HandleWriteFails \/ HandleRename \/ Reopen \/ WatchError
  PROVE  FilePart'
<1>1. ASSUME NEW label \in {"addWatch", "rewatch"}, AddWatch(label) PROVE FilePart'
  <2>1. InodeTypes'
    BY <1>1 DEF FilePart, InodeTypes, AddWatch, WatchPath, NotTailer, appVars, sessionVars, sentVars, upsetVars, readerVars, GoTo
  <2>2. ReaderTypes'
    BY <1>1 DEF FilePart, ReaderTypes, AddWatch, WatchPath, GiveUp, SendErrThen, NotTailer, appVars, sessionVars, sentVars, upsetVars, readerVars, GoTo
  <2>3. LifeTypes'
    BY <1>1 DEF FilePart, LifeTypes, BaseTypeOK, FileLabels, AtWork, Kinds, Statuses, AddWatch, WatchPath, GiveUp, ReportFailed, ReportHealthy, SendErrThen, NotTailer, appVars, sessionVars, sentVars, upsetVars, readerVars, GoTo
  <2> QED
    BY <2>1, <2>2, <2>3 DEF FilePart
<1>2. Tail(events) \in Seq({"write", "rename"}) \/ events = <<>>
  BY DEF FilePart, ReaderTypes
<1>3. CASE HandleWrite
  <2>1. InodeTypes'
    BY <1>3, Unmoved DEF FilePart, HandleWrite, NotTailer, appVars, sessionVars, sentVars, upsetVars, readerVars, GoTo
  <2>2. ReaderTypes'
    <3>0. fdpos \in Nat /\ buf \in Seq(Piece) /\ lastOffset \in Nat /\ <<>> \in Seq(Piece) /\ 0 \in Nat
      BY DEF FilePart, ReaderTypes
    <3>1. fdpos' \in Nat /\ buf' \in Seq(Piece) /\ lastOffset' \in Nat /\ pc' = "read"
      <4>1. CASE Truncated
        BY <1>3, <3>0, <4>1, Zenon DEF HandleWrite, GoTo
      <4>2. CASE ~Truncated
        BY <1>3, <3>0, <4>2, Zenon DEF HandleWrite, GoTo
      <4> QED
        BY <4>1, <4>2
    <3>2. events' \in Seq({"write", "rename"})
      BY <1>2, <1>3 DEF HandleWrite
    <3> QED
      BY <1>3, <3>1, <3>2 DEF FilePart, ReaderTypes, HandleWrite, NotTailer, appVars, sessionVars, sentVars, upsetVars, readerVars, GoTo
  <2>3. LifeTypes'
    BY <1>3, FileTailerAssumption, TailerAssumption DEF FilePart, LifeTypes, BaseTypeOK, FileLabels, AtWork, Kinds, Statuses, HandleWrite, NotTailer, appVars, sessionVars, sentVars, upsetVars, readerVars, GoTo
  <2> QED
    BY <2>1, <2>2, <2>3 DEF FilePart
<1>4. CASE HandleWriteFails
  <2>1. InodeTypes'
    BY <1>4, Unmoved DEF FilePart, HandleWriteFails, SendErrThen, ReportDegraded, NotTailer, appVars, sessionVars, sentVars, upsetVars, readerVars, GoTo
  <2>2. ReaderTypes'
    BY <1>4, <1>2 DEF FilePart, ReaderTypes, HandleWriteFails, SendErrThen, ReportDegraded, NotTailer, appVars, sessionVars, sentVars, upsetVars, readerVars, GoTo
  <2>3. LifeTypes'
    BY <1>4, FileTailerAssumption, TailerAssumption DEF FilePart, LifeTypes, BaseTypeOK, FileLabels, AtWork, Kinds, Statuses, HandleWriteFails, SendErrThen, ReportDegraded, NotTailer, appVars, sessionVars, sentVars, upsetVars, readerVars, GoTo
  <2> QED
    BY <2>1, <2>2, <2>3 DEF FilePart
<1>5. CASE HandleRename
  <2>1. InodeTypes'
    BY <1>5, Unmoved DEF FilePart, HandleRename, ReportDegraded, NotTailer, appVars, sessionVars, sentVars, upsetVars, readerVars, GoTo
  <2>2. ReaderTypes'
    BY <1>5, <1>2 DEF FilePart, ReaderTypes, HandleRename, ReportDegraded, NotTailer, appVars, sessionVars, sentVars, upsetVars, readerVars, GoTo
  <2>3. LifeTypes'
    BY <1>5, FileTailerAssumption, TailerAssumption DEF FilePart, LifeTypes, BaseTypeOK, FileLabels, AtWork, Kinds, Statuses, HandleRename, ReportDegraded, NotTailer, appVars, sessionVars, sentVars, upsetVars, readerVars, GoTo
  <2> QED
    BY <2>1, <2>2, <2>3 DEF FilePart
<1>6. CASE Reopen
  <2>1. InodeTypes'
    BY <1>6 DEF FilePart, InodeTypes, Reopen, NotTailer, appVars, sessionVars, sentVars, upsetVars, readerVars, GoTo
  <2>2. ReaderTypes'
    <3>0. fdpos \in Nat /\ buf \in Seq(Piece) /\ <<>> \in Seq(Piece) /\ 0 \in Nat
      BY DEF FilePart, ReaderTypes
    <3>1. fdpos' \in Nat /\ buf' \in Seq(Piece) /\ pc' # "send"
      BY <1>6, <3>0, Zenon DEF Reopen, GiveUp, SendErrThen, GoTo
    <3> QED
      BY <1>6, <3>1 DEF FilePart, ReaderTypes, Reopen, NotTailer, appVars, sessionVars, sentVars, upsetVars, readerVars, GoTo
  <2>3. LifeTypes'
    BY <1>6, FileTailerAssumption DEF FilePart, LifeTypes, BaseTypeOK, FileLabels, AtWork, Kinds, Statuses, Reopen, GiveUp, ReportFailed, SendErrThen, NotTailer, appVars, sessionVars, sentVars, upsetVars, readerVars, GoTo
  <2> QED
    BY <2>1, <2>2, <2>3 DEF FilePart
<1>7. CASE WatchError
  <2>1. InodeTypes'
    BY <1>7, Unmoved DEF FilePart, WatchError, Upset, SendErrThen, ReportDegraded, NotTailer, appVars, sessionVars, sentVars, upsetVars, readerVars, GoTo
  <2>2. ReaderTypes'
    BY <1>7 DEF FilePart, ReaderTypes, WatchError, Upset, SendErrThen, ReportDegraded, NotTailer, appVars, sessionVars, sentVars, upsetVars, readerVars, GoTo
  <2>3. LifeTypes'
    BY <1>7, FileTailerAssumption, TailerAssumption DEF FilePart, LifeTypes, BaseTypeOK, FileLabels, AtWork, Kinds, Statuses, WatchError, Upset, SendErrThen, ReportDegraded, NotTailer, appVars, sessionVars, sentVars, upsetVars, readerVars, GoTo
  <2> QED
    BY <2>1, <2>2, <2>3 DEF FilePart
<1> QED
  BY <1>1, <1>3, <1>4, <1>5, <1>6, <1>7

LEMMA BaseTypes ==
  ASSUME FilePart, kind = "file", UNCHANGED fileVars,
         sendErr \/ StopCancel \/ StopReport \/ ConsumeErr
  PROVE  FilePart'
<1>1. CASE sendErr
  <2>1. InodeTypes'
    BY <1>1, Unmoved DEF FilePart, sendErr, fileVars, appVars
  <2>2. ReaderTypes'
    <3>1. pc' # "send"
      BY <1>1 DEF FilePart, LifeTypes, sendErr
    <3> QED
      BY <1>1, <3>1 DEF FilePart, ReaderTypes, fileVars
  <2>3. LifeTypes'
    BY <1>1, FileTailerAssumption, TailerAssumption DEF FilePart, LifeTypes, BaseTypeOK, FileLabels, AtWork, Kinds, Statuses, sendErr, fileVars, appVars
  <2> QED
    BY <2>1, <2>2, <2>3 DEF FilePart
<1>2. CASE StopCancel
  <2>1. InodeTypes'
    BY <1>2, Unmoved DEF FilePart, StopCancel, fileVars, appVars
  <2>2. ReaderTypes'
    BY <1>2 DEF FilePart, ReaderTypes, StopCancel, fileVars, appVars
  <2>3. LifeTypes'
    BY <1>2, FileTailerAssumption, TailerAssumption DEF FilePart, LifeTypes, BaseTypeOK, FileLabels, AtWork, Kinds, Statuses, StopCancel, fileVars, appVars
  <2> QED
    BY <2>1, <2>2, <2>3 DEF FilePart
<1>3. CASE StopReport
  <2>1. InodeTypes'
    BY <1>3, Unmoved DEF FilePart, StopReport, fileVars, appVars
  <2>2. ReaderTypes'
    BY <1>3 DEF FilePart, ReaderTypes, StopReport, fileVars, appVars
  <2>3. LifeTypes'
    BY <1>3, FileTailerAssumption, TailerAssumption DEF FilePart, LifeTypes, BaseTypeOK, FileLabels, AtWork, Kinds, Statuses, StopReport, fileVars, appVars
  <2> QED
    BY <2>1, <2>2, <2>3 DEF FilePart
<1>4. CASE ConsumeErr
  <2>1. InodeTypes'
    BY <1>4, Unmoved DEF FilePart, ConsumeErr, fileVars, appVars
  <2>2. ReaderTypes'
    BY <1>4 DEF FilePart, ReaderTypes, ConsumeErr, fileVars, appVars
  <2>3. LifeTypes'
    BY <1>4, FileTailerAssumption, TailerAssumption DEF FilePart, LifeTypes, BaseTypeOK, FileLabels, AtWork, Kinds, Statuses, ConsumeErr, fileVars, appVars
  <2> QED
    BY <2>1, <2>2, <2>3 DEF FilePart
<1> QED
  BY <1>1, <1>2, <1>3, <1>4

LEMMA FileTypes ==
  ASSUME FilePart, kind = "file", FileNext
  PROVE  FilePart'
  BY AppTypes, SessionTypes, ReadTypes, SendTypes, WatchTypes, Zenon DEF FileNext, FileGoroutine

-----------------------------------------------------------------------------
(* The file tailer: the watcher.                                           *)

LEMMA NotifyOf ==
  ASSUME FilePart, NEW n \in 1..Len(files), NEW e \in {"write", "rename"}, Notify(n, e)
  PROVE  /\ watch # n => events' = events
         /\ events' = events \/ (watch = n /\ Len(events') = Len(events) + 1)
         /\ \A i \in 1..Len(events) : events'[i] = events[i]
         /\ \A i \in 1..Len(events') : i \in 1..Len(events) \/ (i = Len(events') /\ events'[i] = e /\ watch = n)
<1>1. events \in Seq({"write", "rename"})
  BY DEF FilePart, ReaderTypes
<1> QED
  BY <1>1 DEF Notify

LEMMA AppWatching ==
  ASSUME FilePart, Watching, kind = "file", Application
  PROVE  Watching'
<1>1. Len(files) \in Nat /\ Len(files) >= 1 /\ watch \in 0..Len(files) /\ handle \in 0..Len(files)
      /\ path \in {0, Len(files)}
  BY DEF FilePart, InodeTypes
<1>2. Len(events) \in Nat /\ (events = <<>> <=> Len(events) = 0)
  BY DEF FilePart, ReaderTypes
<1>3. CASE AppWrite
  <2>1. Notify(Len(files), "write") /\ UNCHANGED <<path, watch, handle, following, pc, errNext>>
    BY <1>3 DEF AppWrite, readerVars, baseVars
  <2>2. Len(files) \in 1..Len(files)
    BY <1>1
  <2> QED
    BY <1>1, <1>2, <2>1, <2>2, NotifyOf DEF Watching
<1>4. CASE AppTruncate
  <2>1. Notify(path, "write") /\ UNCHANGED <<path, watch, handle, following, pc, errNext>>
    BY <1>4 DEF AppTruncate, readerVars, baseVars
  <2>2. path \in 1..Len(files)
    BY <1>1, <1>4 DEF AppTruncate
  <2> QED
    BY <1>1, <1>2, <2>1, <2>2, NotifyOf DEF Watching
<1>5. CASE AppRename
  <2>1. Notify(path, "rename") /\ UNCHANGED <<handle, following, pc, errNext>>
        /\ path' = 0 /\ watch' = IF watch = path THEN 0 ELSE watch
    BY <1>5 DEF AppRename, readerVars, baseVars
  <2>2. path \in 1..Len(files)
    BY <1>1, <1>5 DEF AppRename
  <2>3. pc = "reopen" => handle # 0
    BY DEF FilePart, LifeTypes, AtWork
  <2> QED
    BY <1>1, <1>2, <2>1, <2>2, <2>3, NotifyOf DEF Watching
<1>6. CASE AppCreate
  <2>1. UNCHANGED <<events, watch, handle, following, pc, errNext>> /\ path' = Len(files) + 1
    BY <1>6 DEF AppCreate, readerVars, baseVars
  <2> QED
    BY <1>1, <2>1 DEF Watching
<1> QED
  BY <1>3, <1>4, <1>5, <1>6 DEF Application

\* Steps that leave the watcher alone and do not lead to reopening the file.
LEMMA SameWatcher ==
  ASSUME Watching, kind = "file", UNCHANGED <<events, watch, path, handle>>,
         \/ pc' \in {"off", "open", "addWatch", "reopen", "rewatch"}
         \/ pc' \in {"read", "send", "count"} /\ ~following'
         => events = <<>> /\ watch = 0,
         pc' = "select" \/ (pc' = "sendErr" /\ errNext' = "select") => following',
         pc' = "reopen" => path # handle
  PROVE  Watching'
  BY DEF Watching

LEMMA SessionWatching ==
  ASSUME FilePart, Watching, kind = "file", StartSession \/ SaveBookmark \/ Crash
  PROVE  Watching'
<1>1. CASE StartSession
  BY <1>1, SameWatcher DEF Watching, StartSession, GoTo, appVars, readerVars
<1>2. CASE ProcessEnds
  BY <1>2 DEF Watching, ProcessEnds, GoTo
<1> QED
  BY <1>1, <1>2 DEF SaveBookmark, Crash

LEMMA ReadWatching ==
  ASSUME FilePart, Watching, kind = "file",
         Open \/ ReadLine \/ FillBuffer \/ ReadEnds("eof") \/ ReadEnds("error")
  PROVE  Watching'
<1>1. CASE Open
  <2>1. events = <<>> /\ watch = 0 /\ UNCHANGED <<events, watch, path>> /\ pc' \in {"read", "sendErr"}
        /\ following' = FALSE /\ (pc' = "sendErr" => errNext' = "done")
    BY <1>1 DEF Watching, Open, SendErrThen, GoTo, NotTailer, appVars
  <2> QED
    BY <2>1 DEF Watching
<1>2. CASE ReadLine
  BY <1>2, SameWatcher DEF Watching, ReadLine, GoTo, NotTailer, appVars
<1>3. CASE FillBuffer
  BY <1>3, SameWatcher DEF Watching, FillBuffer, NotTailer, appVars
<1>4. ASSUME NEW end \in {"eof", "error"}, ReadEnds(end) PROVE Watching'
  BY <1>4, SameWatcher DEF Watching, ReadEnds, ReadReturns, GoTo, NotTailer, appVars
<1> QED
  BY <1>1, <1>2, <1>3, <1>4

LEMMA SendWatching ==
  ASSUME FilePart, Watching, kind = "file", Send \/ SkipBlank \/ Count \/ Cancelled
  PROVE  Watching'
<1>1. CASE Send
  BY <1>1, SameWatcher DEF Watching, Send, GoTo, appVars, readerVars
<1>2. CASE SkipBlank
  BY <1>2, SameWatcher DEF Watching, SkipBlank, GoTo, appVars, readerVars
<1>3. CASE Count
  BY <1>3, SameWatcher DEF Watching, Count, ReadReturns, GoTo, NotTailer, appVars, readerVars
<1>4. CASE Cancelled
  BY <1>4, SameWatcher DEF Watching, Cancelled, GoTo, NotTailer, appVars, readerVars
<1> QED
  BY <1>1, <1>2, <1>3, <1>4

LEMMA WatchWatching ==
  ASSUME FilePart, Watching, kind = "file",
         \/ AddWatch("addWatch") \/ AddWatch("rewatch") \/ HandleWrite
         \/ HandleWriteFails \/ HandleRename \/ Reopen \/ WatchError
  PROVE  Watching'
<1>0. events \in Seq({"write", "rename"})
  BY DEF FilePart, ReaderTypes
<1>1. ASSUME NEW label \in {"addWatch", "rewatch"}, AddWatch(label) PROVE Watching'
  <2>1. events = <<>> /\ watch = 0 /\ handle # 0
    BY <1>1 DEF AddWatch, Watching, FilePart, LifeTypes, AtWork
  <2>2. UNCHANGED <<events, handle, path>> /\ following' = TRUE /\ pc' \in {"sendErr", "select"}
    BY <1>1 DEF AddWatch, WatchPath, GiveUp, SendErrThen, GoTo, NotTailer, appVars
  <2> QED
    BY <2>1, <2>2 DEF Watching
<1>2. ASSUME events # <<>>, events' = Tail(events)
      PROVE  /\ Len(events') = Len(events) - 1 /\ Len(events) \in Nat /\ Len(events) >= 1
             /\ \A i \in 1..Len(events') : i + 1 \in 1..Len(events) /\ events'[i] = events[i + 1]
             /\ Head(events) = events[1]
  BY <1>0, <1>2
<1>3. CASE HandleWrite
  <2>1. UNCHANGED <<watch, path, handle, following>> /\ pc = "select" /\ pc' = "read"
        /\ events # <<>> /\ events' = Tail(events)
    BY <1>3 DEF HandleWrite, GoTo, NotTailer, appVars
  <2>2. following /\ handle # 0
    BY <2>1 DEF Watching, FilePart, LifeTypes, AtWork
  <2> QED
    BY <1>2, <2>1, <2>2 DEF Watching
<1>4. CASE HandleWriteFails
  <2>1. UNCHANGED <<watch, path, handle, following>> /\ pc = "select" /\ pc' = "sendErr" /\ errNext' = "done"
        /\ events # <<>> /\ events' = Tail(events)
    BY <1>4 DEF HandleWriteFails, SendErrThen, NotTailer, appVars, readerVars
  <2>2. handle # 0
    BY <2>1 DEF FilePart, LifeTypes, AtWork
  <2> QED
    BY <1>2, <2>1, <2>2 DEF Watching
<1>5. CASE HandleRename
  <2>1. UNCHANGED <<watch, path, handle, following>> /\ pc = "select" /\ pc' = "reopen"
        /\ events # <<>> /\ events' = Tail(events) /\ Head(events) = "rename"
    BY <1>5 DEF HandleRename, GoTo, NotTailer, appVars, readerVars
  <2>2. Len(events) = 1 /\ watch = 0 /\ path # handle
    <3>1. 1 \in 1..Len(events) /\ events[1] = "rename"
      BY <1>2, <2>1
    <3>2. events[1] = "rename" => 1 = Len(events) /\ watch = 0 /\ path # handle
      BY <3>1 DEF Watching
    <3> QED
      BY <3>1, <3>2
  <2>3. events' = <<>>
    BY <1>0, <2>1, <2>2
  <2> QED
    BY <2>1, <2>2, <2>3 DEF Watching
<1>6. CASE Reopen
  <2>1. events = <<>> /\ watch = 0 /\ path # handle
    BY <1>6 DEF Reopen, Watching
  <2>2. UNCHANGED <<watch, path, events>> /\ pc' \in {"sendErr", "rewatch", "reopen"}
        /\ (pc' = "sendErr" => errNext' = "done") /\ (pc' = "reopen" => UNCHANGED handle)
    BY <1>6 DEF Reopen, GiveUp, SendErrThen, GoTo, NotTailer, appVars
  <2> QED
    BY <2>1, <2>2 DEF Watching
<1>7. CASE WatchError
  BY <1>7, SameWatcher DEF Watching, WatchError, SendErrThen, NotTailer, appVars, readerVars
<1> QED
  BY <1>1, <1>3, <1>4, <1>5, <1>6, <1>7

LEMMA FileWatching ==
  ASSUME FilePart, Watching, kind = "file", FileNext
  PROVE  Watching'
  BY AppWatching, SessionWatching, ReadWatching, SendWatching, WatchWatching, Zenon
  DEF FileNext, FileGoroutine

LEMMA BaseWatching ==
  ASSUME FilePart, Watching, kind = "file", UNCHANGED fileVars,
         sendErr \/ StopCancel \/ StopReport \/ ConsumeErr
  PROVE  Watching'
<1>1. CASE sendErr
  BY <1>1, SameWatcher DEF Watching, FilePart, LifeTypes, sendErr, fileVars
<1>2. CASE StopCancel \/ StopReport \/ ConsumeErr
  BY <1>2 DEF Watching, fileVars, StopCancel, StopReport, ConsumeErr
<1> QED
  BY <1>1, <1>2

-----------------------------------------------------------------------------
(* The file tailer: order.                                                 *)

LEMMA NoIds == PieceIds(<<>>) = {} /\ Increasing(<<>>)
  BY DEF PieceIds, Increasing

\* The pieces ps are p and then q.
CutInto(ps, p, q) ==
    /\ Increasing(p) /\ Increasing(q)
    /\ PieceIds(p) \subseteq PieceIds(ps) /\ PieceIds(q) \subseteq PieceIds(ps)
    /\ \A a \in PieceIds(p), b \in PieceIds(q) : a < b

LEMMA CutIds ==
  ASSUME NEW ps \in Seq(Piece), Increasing(ps), NEW n \in 0..Len(ps),
         NEW p, NEW q, p = SubSeq(ps, 1, n), q = SubSeq(ps, n + 1, Len(ps))
  PROVE  CutInto(ps, p, q)
<1>1. /\ p \in Seq(Piece) /\ Len(p) = n /\ \A i \in 1..n : p[i] = ps[i]
      /\ q \in Seq(Piece) /\ Len(q) = Len(ps) - n /\ \A i \in 1..(Len(ps) - n) : q[i] = ps[n + i]
      /\ Len(ps) \in Nat
  BY CutOf
<1>2. /\ PieceIds(p) = {p[i].id : i \in 1..Len(p)}
      /\ PieceIds(q) = {q[i].id : i \in 1..Len(q)}
      /\ PieceIds(ps) = {ps[i].id : i \in 1..Len(ps)}
  BY <1>1, IdsOf
<1>3. \A i \in 1..Len(p) : i \in 1..Len(ps) /\ p[i] = ps[i]
  BY <1>1
<1>4. \A i \in 1..Len(q) : n + i \in 1..Len(ps) /\ q[i] = ps[n + i]
  BY <1>1
<1>5. PieceIds(p) \subseteq PieceIds(ps) /\ PieceIds(q) \subseteq PieceIds(ps)
  BY <1>2, <1>3, <1>4
<1>6. Increasing(p) /\ Increasing(q)
  BY <1>1, <1>3, <1>4 DEF Increasing
<1>7. \A i \in 1..Len(p), j \in 1..Len(q) : p[i].id < q[j].id
  BY <1>1, <1>3, <1>4 DEF Increasing
<1> QED
  BY <1>2, <1>5, <1>6, <1>7 DEF CutInto

LEMMA JoinIds ==
  ASSUME NEW p \in Seq(Piece), NEW q \in Seq(Piece), Increasing(p), Increasing(q),
         \A a \in PieceIds(p), b \in PieceIds(q) : a < b
  PROVE  Increasing(p \o q) /\ PieceIds(p \o q) = PieceIds(p) \cup PieceIds(q)
<1> DEFINE r == p \o q
<1>1. /\ r \in Seq(Piece) /\ Len(r) = Len(p) + Len(q) /\ Len(p) \in Nat /\ Len(q) \in Nat
      /\ \A i \in 1..Len(p) : r[i] = p[i]
      /\ \A i \in 1..Len(q) : r[Len(p) + i] = q[i]
  BY JoinOf
<1> HIDE DEF r
<1>2. /\ PieceIds(p) = {p[i].id : i \in 1..Len(p)}
      /\ PieceIds(q) = {q[i].id : i \in 1..Len(q)}
      /\ PieceIds(r) = {r[i].id : i \in 1..Len(r)}
  BY <1>1, IdsOf
<1>3. \A i \in 1..Len(r) : \/ i \in 1..Len(p) /\ r[i] = p[i]
                           \/ i > Len(p) /\ i - Len(p) \in 1..Len(q) /\ r[i] = q[i - Len(p)]
  BY <1>1
<1>4. \A i \in 1..Len(p), j \in 1..Len(q) : p[i].id < q[j].id
  BY <1>2
<1>5. Increasing(r)
  <2> SUFFICES ASSUME NEW i \in 1..Len(r), NEW j \in 1..Len(r), i < j
               PROVE  r[i].id < r[j].id
    BY DEF Increasing
  <2>1. CASE i \in 1..Len(p) /\ j \in 1..Len(p)
    BY <1>1, <2>1 DEF Increasing
  <2>2. CASE i \in 1..Len(p) /\ j \notin 1..Len(p)
    BY <1>3, <1>4, <2>2
  <2>3. CASE i \notin 1..Len(p)
    <3>1. /\ i - Len(p) \in 1..Len(q) /\ r[i] = q[i - Len(p)]
          /\ j - Len(p) \in 1..Len(q) /\ r[j] = q[j - Len(p)]
          /\ i - Len(p) < j - Len(p)
      BY <1>1, <1>3, <2>3
    <3> QED
      BY <3>1 DEF Increasing
  <2> QED
    BY <2>1, <2>2, <2>3
<1>6. PieceIds(r) \subseteq PieceIds(p) \cup PieceIds(q)
  BY <1>2, <1>3
<1>7. \A i \in 1..Len(p) : i \in 1..Len(r)
  BY <1>1
<1>8. \A i \in 1..Len(q) : Len(p) + i \in 1..Len(r)
  BY <1>1
<1>9. PieceIds(p) \subseteq PieceIds(r) /\ PieceIds(q) \subseteq PieceIds(r)
  BY <1>1, <1>2, <1>7, <1>8
<1> QED
  BY <1>5, <1>6, <1>9 DEF r

LEMMA TakenOf ==
  ASSUME FilePart
  PROVE  /\ Taken \in SUBSET Nat
         /\ \A i \in 1..Len(sent) : sent[i] \in Taken
         /\ PieceIds(hand) \subseteq Taken /\ PieceIds(buf) \subseteq Taken
         /\ \A t : t \in Taken => t \in PieceIds(hand) \/ t \in PieceIds(buf) \/ \E i \in 1..Len(sent) : t = sent[i]
<1>1. sent \in Seq(Nat) /\ PieceIds(hand) \in SUBSET Nat /\ PieceIds(buf) \in SUBSET Nat
  BY IdsOf DEF FilePart, ReaderTypes
<1>2. \A i \in 1..Len(sent) : sent[i] \in Nat
  BY <1>1
<1> QED
  BY <1>1, <1>2 DEF Taken

\* The pieces u of file f from position p on, where f is ahead of t.
LEMMA RestIds ==
  ASSUME NEW f \in Seq(Piece), NEW u \in Seq(Piece), NEW p \in Nat, NEW t, Increasing(f),
         \A i \in 1..Len(u) : p + i \in 1..Len(f) /\ u[i] = f[p + i],
         \A i \in 1..Len(f) : i > p => \A a \in t : a < f[i].id
  PROVE  /\ Increasing(u)
         /\ PieceIds(u) \subseteq PieceIds(f)
         /\ \A a \in t, b \in PieceIds(u) : a < b
<1>1. /\ PieceIds(u) = {u[i].id : i \in 1..Len(u)}
      /\ PieceIds(f) = {f[i].id : i \in 1..Len(f)}
  BY IdsOf
<1>2. Increasing(u)
  <2>1. ASSUME NEW i \in 1..Len(u), NEW j \in 1..Len(u), i < j PROVE u[i].id < u[j].id
    <3>1. p + i \in 1..Len(f) /\ p + j \in 1..Len(f) /\ p + i < p + j
      BY <2>1
    <3>2. f[p + i].id < f[p + j].id
      BY <3>1 DEF Increasing
    <3> QED
      BY <3>2
  <2> QED
    BY <2>1 DEF Increasing
<1>3. ASSUME NEW i \in 1..Len(u), NEW a \in t PROVE a < u[i].id
  <2>1. p + i > p
    OBVIOUS
  <2> QED
    BY <2>1
<1> QED
  BY <1>1, <1>2, <1>3

\* What can still be read of the open file.
LEMMA UnreadAhead ==
  ASSUME FilePart, kind = "file", Order, AtWork
  PROVE  /\ Increasing(Unread)
         /\ PieceIds(Unread) \subseteq PieceIds(files[handle])
         /\ \A a \in Taken, b \in PieceIds(Unread) : a < b
<1>1. /\ handle \in 1..Len(files) /\ files[handle] \in Seq(Piece) /\ Len(files[handle]) \in Nat
      /\ Unread \in Seq(Piece)
      /\ Len(Unread) = IF fdpos < Len(files[handle]) THEN Len(files[handle]) - fdpos ELSE 0
      /\ \A i \in 1..Len(Unread) : Unread[i] = files[handle][fdpos + i]
      /\ fdpos \in Nat
  BY UnreadOf DEF FilePart, ReaderTypes
<1>2. \A i \in 1..Len(Unread) : fdpos + i \in 1..Len(files[handle]) /\ Unread[i] = files[handle][fdpos + i]
  BY <1>1
<1>3. Increasing(files[handle])
  BY <1>1 DEF Order, Numbered
<1>4. \A i \in 1..Len(files[handle]) : i > fdpos => \A a \in Taken : a < files[handle][i].id
  BY <1>1 DEF Order, Ahead
<1>5. PICK f, u : f = files[handle] /\ u = Unread
  OBVIOUS
<1>6. /\ f \in Seq(Piece) /\ u \in Seq(Piece) /\ fdpos \in Nat /\ Increasing(f)
      /\ \A i \in 1..Len(u) : fdpos + i \in 1..Len(f) /\ u[i] = f[fdpos + i]
      /\ \A i \in 1..Len(f) : i > fdpos => \A a \in Taken : a < f[i].id
  BY <1>1, <1>2, <1>3, <1>4, <1>5
<1>7. /\ Increasing(u)
      /\ PieceIds(u) \subseteq PieceIds(f)
      /\ \A a \in Taken, b \in PieceIds(u) : a < b
  BY <1>6, RestIds
<1> QED
  BY <1>5, <1>7

\* A step that takes nothing new from the files.
LEMMA Settled ==
  ASSUME Order, kind = "file", UNCHANGED <<files, pieces, handle, fdpos>>,
         Taken' \subseteq Taken, InTurn', Fresh'
  PROVE  Order'
  BY DEF Order, Ahead

LEMMA Idle ==
  ASSUME Order, kind = "file", UNCHANGED <<files, pieces, handle, fdpos, sent, hand, buf>>,
         pc' = "send" => pc = "send", pc' \in {"off", "open"} => pc \in {"off", "open"}
  PROVE  Order'
<1>1. Taken' = Taken /\ InTurn' /\ Fresh'
  BY DEF Order, Taken, InTurn, Fresh, Increasing
<1> QED
  BY <1>1, Settled

\* Every file of gs is that of fs or empty.
LEMMA Emptier ==
  ASSUME NEW fs, NEW gs, Len(fs) \in Nat, Len(gs) \in Nat, NEW n, NEW hd \in 0..Len(fs),
         NEW fp, NEW t, Numbered(fs, n), Ahead(fs, hd, fp, t), Len(gs) >= Len(fs),
         \A k \in 1..Len(gs) : (k \in 1..Len(fs) /\ gs[k] = fs[k]) \/ gs[k] = <<>>
  PROVE  Numbered(gs, n) /\ Ahead(gs, hd, fp, t)
<1>1. \A k \in 1..Len(gs) : gs[k] = <<>> => 1..Len(gs[k]) = {} /\ PieceIds(gs[k]) = {} /\ Increasing(gs[k])
  BY NoIds
<1>2. \A k \in 1..Len(gs) :
         \/ k \in 1..Len(fs) /\ gs[k] = fs[k]
         \/ 1..Len(gs[k]) = {} /\ PieceIds(gs[k]) = {} /\ Increasing(gs[k])
  BY <1>1
<1>3. hd # 0 => hd \in 1..Len(gs)
  OBVIOUS
<1>4. Numbered(gs, n)
  <2>1. ASSUME NEW k \in 1..Len(gs)
        PROVE  Increasing(gs[k]) /\ \A i \in 1..Len(gs[k]) : gs[k][i].id <= n
    BY <1>2 DEF Numbered
  <2>2. ASSUME NEW j \in 1..Len(gs), NEW k \in 1..Len(gs), j < k,
               NEW a \in PieceIds(gs[j]), NEW b \in PieceIds(gs[k])
        PROVE  a < b
    BY <1>2, <2>2 DEF Numbered
  <2> QED
    BY <2>1, <2>2 DEF Numbered
<1>5. Ahead(gs, hd, fp, t)
  <2>1. ASSUME hd # 0, NEW i \in 1..Len(gs[hd]), i > fp \/ Len(gs[hd]) < fp, NEW a \in t
        PROVE  a < gs[hd][i].id
    <3>1. gs[hd] = fs[hd]
      BY <1>2, <1>3, <2>1
    <3> QED
      BY <2>1, <3>1 DEF Ahead
  <2>2. ASSUME NEW k \in 1..Len(gs), k > hd, NEW a \in t, NEW b \in PieceIds(gs[k])
        PROVE  a < b
    BY <1>2, <2>2 DEF Ahead
  <2> QED
    BY <2>1, <2>2 DEF Ahead
<1> QED
  BY <1>4, <1>5

\* File g is file f and one more piece, with the next number.
ExtendedBy(f, g, n) ==
    /\ Increasing(g) /\ \A i \in 1..Len(g) : g[i].id <= n + 1
    /\ \A i \in 1..Len(g) : (i \in 1..Len(f) /\ g[i] = f[i]) \/ (i > Len(f) /\ g[i].id = n + 1)
    /\ \A b \in PieceIds(g) : b \in PieceIds(f) \/ b = n + 1
    /\ Len(g) = Len(f) + 1

LEMMA GrownFile ==
  ASSUME NEW f \in Seq(Piece), NEW n \in Nat, NEW e \in Piece, e.id = n + 1, NEW g, g = Append(f, e),
         Increasing(f), \A i \in 1..Len(f) : f[i].id <= n
  PROVE  ExtendedBy(f, g, n)
<1>1. /\ g \in Seq(Piece) /\ Len(g) = Len(f) + 1 /\ Len(f) \in Nat
      /\ \A i \in 1..Len(f) : g[i] = f[i]
      /\ g[Len(f) + 1] = e
  OBVIOUS
<1>2. /\ PieceIds(f) = {f[i].id : i \in 1..Len(f)}
      /\ PieceIds(g) = {g[i].id : i \in 1..Len(g)}
      /\ \A i \in 1..Len(f) : f[i].id \in Nat
  BY <1>1, IdsOf
<1>3. \A i \in 1..Len(g) : \/ i \in 1..Len(f) /\ g[i] = f[i] /\ f[i].id \in Nat /\ f[i].id <= n
                           \/ i = Len(f) + 1 /\ g[i].id = n + 1
  BY <1>1, <1>2
<1>4. \A i \in 1..Len(g) : g[i].id <= n + 1
  BY <1>3
<1>5. Increasing(g)
  <2> SUFFICES ASSUME NEW i \in 1..Len(g), NEW j \in 1..Len(g), i < j PROVE g[i].id < g[j].id
    BY DEF Increasing
  <2>1. i \in 1..Len(f) /\ g[i] = f[i] /\ f[i].id \in Nat /\ f[i].id <= n
    BY <1>1, <1>3
  <2>2. CASE j \in 1..Len(f)
    BY <1>1, <2>1, <2>2 DEF Increasing
  <2>3. CASE j = Len(f) + 1
    BY <1>3, <2>1, <2>3
  <2> QED
    BY <1>3, <2>2, <2>3
<1> QED
  BY <1>1, <1>2, <1>3, <1>4, <1>5 DEF ExtendedBy

\* The pieces of the files fs have numbers up to n.
UpTo(fs, n) ==
    \A k \in 1..Len(fs) :
        /\ Len(fs[k]) \in Nat
        /\ \A i \in 1..Len(fs[k]) : fs[k][i].id \in Nat
        /\ \A a \in PieceIds(fs[k]) : a \in Nat /\ a <= n

\* The newest file of fs grows by a piece with the next number.
LEMMA Newest ==
  ASSUME NEW fs, NEW gs, NEW m \in Nat, m >= 1, Len(fs) = m, Len(gs) = m, NEW n \in Nat, NEW hd \in 0..m,
         NEW fp \in Nat, NEW t \in SUBSET Nat,
         Numbered(fs, n), Ahead(fs, hd, fp, t), \A a \in t : a <= n,
         \A k \in 1..m : k # m => gs[k] = fs[k],
         UpTo(fs, n), ExtendedBy(fs[m], gs[m], n)
  PROVE  Numbered(gs, n + 1) /\ Ahead(gs, hd, fp, t)
<1>0. \A k \in 1..m :
        /\ Len(fs[k]) \in Nat
        /\ \A i \in 1..Len(fs[k]) : fs[k][i].id \in Nat
        /\ \A a \in PieceIds(fs[k]) : a \in Nat /\ a <= n
  BY DEF UpTo
<1>1. m \in 1..m /\ Len(fs[m]) \in Nat
  BY <1>0
<1>4. PICK g : g = gs[m]
  OBVIOUS
<1>5. /\ Increasing(g) /\ \A i \in 1..Len(g) : g[i].id <= n + 1
      /\ \A i \in 1..Len(g) : (i \in 1..Len(fs[m]) /\ g[i] = fs[m][i]) \/ (i > Len(fs[m]) /\ g[i].id = n + 1)
      /\ \A b \in PieceIds(g) : b \in PieceIds(fs[m]) \/ b = n + 1
      /\ Len(g) = Len(fs[m]) + 1
  BY <1>4 DEF ExtendedBy
<1>2. Numbered(gs, n + 1)
  <2>1. ASSUME NEW k \in 1..Len(gs)
        PROVE  Increasing(gs[k]) /\ \A i \in 1..Len(gs[k]) : gs[k][i].id <= n + 1
    <3>1. CASE k = m
      BY <1>4, <1>5, <3>1
    <3>2. CASE k # m
      <4>1. gs[k] = fs[k] /\ Increasing(fs[k])
        BY <3>2 DEF Numbered
      <4>2. \A i \in 1..Len(fs[k]) : fs[k][i].id \in Nat /\ fs[k][i].id <= n
        BY <1>0 DEF Numbered
      <4> QED
        BY <4>1, <4>2
    <3> QED
      BY <3>1, <3>2
  <2>2. ASSUME NEW j \in 1..Len(gs), NEW k \in 1..Len(gs), j < k,
               NEW a \in PieceIds(gs[j]), NEW b \in PieceIds(gs[k])
        PROVE  a < b
    <3>1. j # m /\ gs[j] = fs[j]
      BY <2>2
    <3>2. a \in PieceIds(fs[j]) /\ a \in Nat /\ a <= n
      BY <1>0, <2>2, <3>1
    <3>3. \A c \in PieceIds(fs[k]) : a < c
      BY <2>2, <3>2 DEF Numbered
    <3>4. CASE k # m
      BY <2>2, <3>3, <3>4
    <3>5. CASE k = m
      <4>1. b \in PieceIds(fs[k]) \/ b = n + 1
        BY <1>4, <1>5, <2>2, <3>5
      <4> QED
        BY <3>2, <3>3, <4>1
    <3> QED
      BY <3>4, <3>5
  <2> QED
    BY <2>1, <2>2 DEF Numbered
<1>3. Ahead(gs, hd, fp, t)
  <2>1. ASSUME hd # 0, NEW i \in 1..Len(gs[hd]), i > fp \/ Len(gs[hd]) < fp, NEW a \in t
        PROVE  a < gs[hd][i].id
    <3>0. hd \in 1..m
      BY <2>1
    <3>1. CASE hd # m
      <4>1. gs[hd] = fs[hd]
        BY <3>0, <3>1
      <4> QED
        BY <2>1, <4>1 DEF Ahead
    <3>2. CASE hd = m
      <4>1. i \in 1..Len(g) /\ (i > fp \/ Len(g) < fp) /\ gs[hd][i] = g[i]
        BY <1>4, <2>1, <3>2
      <4>2. CASE i \in 1..Len(fs[m]) /\ g[i] = fs[m][i]
        <5>1. i > fp \/ Len(fs[m]) < fp
          BY <1>1, <1>5, <4>1
        <5>2. a < fs[m][i].id
          BY <2>1, <3>2, <4>2, <5>1 DEF Ahead
        <5> QED
          BY <4>1, <4>2, <5>2
      <4>3. CASE g[i].id = n + 1
        <5>1. a \in Nat /\ a <= n
          OBVIOUS
        <5> QED
          BY <4>1, <4>3, <5>1
      <4> QED
        BY <1>5, <4>1, <4>2, <4>3
    <3> QED
      BY <3>1, <3>2
  <2>2. ASSUME NEW k \in 1..Len(gs), k > hd, NEW a \in t, NEW b \in PieceIds(gs[k])
        PROVE  a < b
    <3>1. \A c \in PieceIds(fs[k]) : a < c
      BY <2>2 DEF Ahead
    <3>2. a \in Nat /\ a <= n
      OBVIOUS
    <3>3. CASE k # m
      BY <2>2, <3>1, <3>3
    <3>4. CASE k = m
      BY <1>4, <1>5, <2>2, <3>1, <3>2, <3>4
    <3> QED
      BY <3>3, <3>4
  <2> QED
    BY <2>1, <2>2 DEF Ahead
<1> QED
  BY <1>2, <1>3

LEMMA Grown ==
  ASSUME NEW fs \in Seq(Seq(Piece)), Len(fs) >= 1, NEW n \in Nat, NEW hd \in 0..Len(fs),
         NEW fp \in Nat, NEW t \in SUBSET Nat, NEW e \in Piece, e.id = n + 1,
         Numbered(fs, n), Ahead(fs, hd, fp, t), \A a \in t : a <= n,
         NEW gs, Len(gs) = Len(fs), gs[Len(fs)] = Append(fs[Len(fs)], e),
         \A k \in 1..Len(fs) : k # Len(fs) => gs[k] = fs[k]
  PROVE  Numbered(gs, n + 1) /\ Ahead(gs, hd, fp, t)
<1>1. PICK m : m = Len(fs)
  OBVIOUS
<1>2. m \in Nat /\ m >= 1 /\ m \in 1..Len(fs) /\ Len(gs) = m /\ DOMAIN fs = 1..m
  BY <1>1
<1>3. PICK f, g : f = fs[m] /\ g = Append(f, e)
  OBVIOUS
<1>4. \A k \in 1..m : fs[k] \in Seq(Piece)
  BY <1>1
<1>5. gs[m] = g /\ \A k \in 1..m : k # m => gs[k] = fs[k]
  BY <1>1, <1>2, <1>3
<1>6. f \in Seq(Piece) /\ Increasing(f) /\ \A i \in 1..Len(f) : f[i].id <= n
  BY <1>2, <1>3, <1>4 DEF Numbered
<1>7. ExtendedBy(f, g, n)
  BY <1>3, <1>6, GrownFile
<1>8. ASSUME NEW k \in 1..m
      PROVE  /\ Len(fs[k]) \in Nat
             /\ \A i \in 1..Len(fs[k]) : fs[k][i].id \in Nat
             /\ \A a \in PieceIds(fs[k]) : a \in Nat /\ a <= n
  <2>1. PICK h : h = fs[k]
    OBVIOUS
  <2>2. h \in Seq(Piece) /\ \A i \in 1..Len(h) : h[i].id <= n
    BY <1>1, <1>4, <2>1 DEF Numbered
  <2>3. /\ PieceIds(h) = {h[i].id : i \in 1..Len(h)} /\ Len(h) \in Nat
        /\ \A i \in 1..Len(h) : h[i].id \in Nat
    <3>1. Len(h) \in Nat
      BY <2>2
    <3> QED
      BY <2>2, <3>1, IdsOf, Zenon
  <2>4. \A a \in PieceIds(h) : a \in Nat /\ a <= n
    BY <2>2, <2>3
  <2> QED
    BY <2>1, <2>3, <2>4
<1>9. Len(fs) = m /\ hd \in 0..m /\ UpTo(fs, n)
  BY <1>1, <1>8 DEF UpTo
<1>10. ExtendedBy(fs[m], gs[m], n)
  BY <1>3, <1>5, <1>7
<1> QED
  BY <1>2, <1>5, <1>9, <1>10, Newest, Zenon

\* The application appends a piece with the next number to the newest file.
LEMMA Written ==
  ASSUME FilePart, AppWrite
  PROVE  \E e \in Piece :
            /\ e.id = pieces + 1
            /\ Len(files') = Len(files) /\ files'[Len(files)] = Append(files[Len(files)], e)
            /\ \A k \in 1..Len(files) : k # Len(files) => files'[k] = files[k]
<1>1. files \in Seq(Seq(Piece)) /\ Len(files) \in Nat /\ Len(files) >= 1 /\ pieces \in Nat
  BY FileTailerAssumption DEF FilePart, InodeTypes
<1>2. PICK c \in PieceKinds : files' = [files EXCEPT ![Len(files)] = Append(@, [id |-> pieces + 1, kind |-> c])]
  BY DEF AppWrite
<1>3. PICK e : e = [id |-> pieces + 1, kind |-> c]
  OBVIOUS
<1>4. e \in Piece /\ e.id = pieces + 1
  BY <1>1, <1>3 DEF Piece
<1>5. files' = [files EXCEPT ![Len(files)] = Append(@, e)]
  BY <1>2, <1>3
<1>6. /\ Len(files') = Len(files) /\ files'[Len(files)] = Append(files[Len(files)], e)
      /\ \A k \in 1..Len(files) : k # Len(files) => files'[k] = files[k]
  BY <1>1, <1>5
<1> QED
  BY <1>4, <1>6

LEMMA AppOrder ==
  ASSUME FilePart, Order, kind = "file", Application
  PROVE  Order'
<1>1. /\ files \in Seq(Seq(Piece)) /\ Len(files) \in Nat /\ Len(files) >= 1 /\ pieces \in Nat
      /\ handle \in 0..Len(files) /\ fdpos \in Nat /\ path \in {0, Len(files)}
      /\ Taken \in SUBSET Nat
  BY TakenOf, FileTailerAssumption DEF FilePart, InodeTypes, ReaderTypes
<1>2. UNCHANGED <<handle, fdpos, sent, hand, buf, pc>>
  BY DEF Application, AppWrite, AppTruncate, AppRename, AppCreate, readerVars, sentVars, baseVars
<1>3. Taken' = Taken /\ InTurn' /\ Fresh'
  BY <1>2 DEF Order, Taken, InTurn, Fresh, Increasing
<1>4. Numbered(files, pieces) /\ Ahead(files, handle, fdpos, Taken) /\ \A a \in Taken : a <= pieces
  BY DEF Order
<1>5. ASSUME pieces' \in Nat, pieces <= pieces', Numbered(files', pieces'), Ahead(files', handle, fdpos, Taken)
      PROVE  Order'
  <2>1. \A a \in Taken : a <= pieces'
    BY <1>1, <1>4, <1>5
  <2> QED
    BY <1>2, <1>3, <1>5, <2>1 DEF Order
<1>6. CASE AppWrite
  <2>1. PICK e \in Piece :
           /\ e.id = pieces + 1
           /\ Len(files') = Len(files) /\ files'[Len(files)] = Append(files[Len(files)], e)
           /\ \A k \in 1..Len(files) : k # Len(files) => files'[k] = files[k]
    BY <1>6, Written
  <2>5. Numbered(files', pieces + 1) /\ Ahead(files', handle, fdpos, Taken)
    <3>1. PICK gs, t, p : gs = files' /\ t = Taken /\ p = pieces
      OBVIOUS
    <3>2. /\ Len(gs) = Len(files) /\ gs[Len(files)] = Append(files[Len(files)], e)
          /\ \A k \in 1..Len(files) : k # Len(files) => gs[k] = files[k]
      BY <2>1, <3>1
    <3>3. /\ t \in SUBSET Nat /\ p \in Nat /\ e.id = p + 1
          /\ Numbered(files, p) /\ Ahead(files, handle, fdpos, t) /\ \A a \in t : a <= p
      BY <1>1, <1>4, <2>1, <3>1
    <3>4. Numbered(gs, p + 1) /\ Ahead(gs, handle, fdpos, t)
      BY <1>1, <3>2, <3>3, Grown, Zenon
    <3> QED
      BY <3>1, <3>4
  <2>6. pieces' = pieces + 1
    BY <1>6 DEF AppWrite
  <2> QED
    BY <1>1, <1>5, <2>5, <2>6
<1>7. CASE AppTruncate
  <2>1. path \in 1..Len(files) /\ files' = [files EXCEPT ![path] = <<>>] /\ pieces' = pieces
    BY <1>1, <1>7 DEF AppTruncate
  <2>2. <<>> \in Seq(Piece)
    OBVIOUS
  <2>3. /\ files' \in Seq(Seq(Piece)) /\ Len(files') = Len(files)
        /\ \A k \in 1..Len(files') : (k \in 1..Len(files) /\ files'[k] = files[k]) \/ files'[k] = <<>>
    BY <1>1, <2>1, <2>2
  <2>5. Len(files') \in Nat /\ Len(files') >= Len(files)
    BY <1>1, <2>3
  <2>4. Numbered(files', pieces) /\ Ahead(files', handle, fdpos, Taken)
    BY <1>1, <1>4, <2>3, <2>5, Emptier, Zenon
  <2> QED
    BY <1>1, <1>5, <2>1, <2>4
<1>8. CASE AppRename
  BY <1>1, <1>4, <1>5, <1>8 DEF AppRename
<1>9. CASE AppCreate
  <2>1. files' = Append(files, <<>>) /\ pieces' = pieces
    BY <1>9 DEF AppCreate
  <2>2. <<>> \in Seq(Piece)
    OBVIOUS
  <2>3. /\ files' \in Seq(Seq(Piece)) /\ Len(files') = Len(files) + 1
        /\ \A k \in 1..Len(files') : (k \in 1..Len(files) /\ files'[k] = files[k]) \/ files'[k] = <<>>
    BY <1>1, <2>1, <2>2
  <2>5. Len(files') \in Nat /\ Len(files') >= Len(files)
    BY <1>1, <2>3
  <2>4. Numbered(files', pieces) /\ Ahead(files', handle, fdpos, Taken)
    BY <1>1, <1>4, <2>3, <2>5, Emptier, Zenon
  <2> QED
    BY <1>1, <1>5, <2>1, <2>4
<1> QED
  BY <1>6, <1>7, <1>8, <1>9 DEF Application

LEMMA SessionOrder ==
  ASSUME FilePart, Order, kind = "file", StartSession \/ SaveBookmark \/ Crash
  PROVE  Order'
<1>1. CASE StartSession
  BY <1>1, Idle DEF StartSession, GoTo, appVars, readerVars, sentVars
<1>2. CASE ProcessEnds
  <2>1. /\ pc' = "off" /\ handle' = 0 /\ sent' = <<>> /\ hand' = <<>> /\ buf' = <<>>
        /\ files' = files /\ pieces' = pieces
    BY <1>2 DEF ProcessEnds, GoTo, appVars
  <2>2. Taken' = {} /\ InTurn' /\ Fresh'
    BY <2>1, NoIds DEF Taken, InTurn, Fresh
  <2>3. Ahead(files, 0, fdpos', {}) /\ Numbered(files, pieces)
    BY DEF Order, Ahead
  <2> QED
    BY <2>1, <2>2, <2>3 DEF Order
<1> QED
  BY <1>1, <1>2 DEF SaveBookmark, Crash

LEMMA OpenOrder ==
  ASSUME FilePart, Order, kind = "file", Open
  PROVE  Order'
<1>1. /\ sent = <<>> /\ hand = <<>> /\ buf = <<>> /\ pc' \in {"read", "sendErr"}
      /\ UNCHANGED <<files, pieces, sent, hand, buf>>
  BY DEF Order, Fresh, Open, SendErrThen, GoTo, NotTailer, appVars, sentVars
<1>2. Taken' = {} /\ InTurn' /\ Fresh'
  BY <1>1, NoIds DEF Taken, InTurn, Fresh
<1>3. Ahead(files, handle', fdpos', {}) /\ Numbered(files, pieces)
  BY DEF Order, Ahead
<1> QED
  BY <1>1, <1>2, <1>3 DEF Order

LEMMA ReadLineOrder ==
  ASSUME FilePart, Order, kind = "file", ReadLine
  PROVE  Order'
<1>1. /\ buf \in Seq(Piece) /\ LineEnd(buf) \in 0..Len(buf) /\ Increasing(buf)
      /\ hand' = SubSeq(buf, 1, LineEnd(buf)) /\ buf' = SubSeq(buf, LineEnd(buf) + 1, Len(buf))
      /\ UNCHANGED <<files, pieces, handle, fdpos, sent>> /\ pc' = "send"
  BY LineEndOf DEF FilePart, ReaderTypes, Order, InTurn, ReadLine, GoTo, NotTailer, appVars, sentVars
<1>2. PICK n, h, b : n = LineEnd(buf) /\ h = hand' /\ b = buf'
  OBVIOUS
<1>3. /\ Increasing(h) /\ Increasing(b)
      /\ PieceIds(h) \subseteq PieceIds(buf) /\ PieceIds(b) \subseteq PieceIds(buf)
      /\ \A x \in PieceIds(h), y \in PieceIds(b) : x < y
  <2>1. n \in 0..Len(buf) /\ h = SubSeq(buf, 1, n) /\ b = SubSeq(buf, n + 1, Len(buf))
    BY <1>1, <1>2
  <2>2. CutInto(buf, h, b)
    BY <1>1, <2>1, CutIds
  <2> QED
    BY <2>2 DEF CutInto
<1>4. Taken' \subseteq Taken
  BY <1>1, <1>2, <1>3 DEF Taken
<1>5. InTurn' /\ Fresh'
  BY <1>1, <1>2, <1>3 DEF Order, InTurn, Fresh
<1> QED
  BY <1>1, <1>4, <1>5, Settled

LEMMA FillOrder ==
  ASSUME FilePart, Order, kind = "file", FillBuffer
  PROVE  Order'
<1>1. /\ AtWork /\ buf' = buf \o Unread /\ fdpos' = Len(files[handle])
      /\ UNCHANGED <<files, pieces, handle, sent, hand, pc>>
  BY DEF FillBuffer, AtWork, NotTailer, appVars, sentVars
<1>2. /\ handle \in 1..Len(files) /\ Len(files[handle]) \in Nat /\ Unread \in Seq(Piece) /\ buf \in Seq(Piece)
      /\ Len(files) \in Nat /\ Increasing(buf) /\ Taken \in SUBSET Nat /\ PieceIds(buf) \subseteq Taken
      /\ PieceIds(hand) \subseteq Taken /\ \A i \in 1..Len(sent) : sent[i] \in Taken
      /\ pieces \in Nat
  <2>1. handle \in 1..Len(files) /\ Len(files[handle]) \in Nat /\ Unread \in Seq(Piece)
    BY <1>1, UnreadOf, Zenon
  <2>2. /\ Taken \in SUBSET Nat /\ PieceIds(buf) \subseteq Taken
        /\ PieceIds(hand) \subseteq Taken /\ \A i \in 1..Len(sent) : sent[i] \in Taken
    BY TakenOf, Zenon
  <2>3. buf \in Seq(Piece) /\ Len(files) \in Nat /\ pieces \in Nat
    BY FileTailerAssumption DEF FilePart, ReaderTypes, InodeTypes
  <2>4. Increasing(buf)
    BY DEF Order, InTurn
  <2> QED
    BY <2>1, <2>2, <2>3, <2>4
<1>3. PICK u, f : u = Unread /\ f = files[handle]
  OBVIOUS
<1>4. /\ Increasing(u) /\ PieceIds(u) \subseteq PieceIds(f)
      /\ \A a \in Taken, b \in PieceIds(u) : a < b
  BY <1>1, <1>3, UnreadAhead
<1>5. Increasing(buf') /\ PieceIds(buf') = PieceIds(buf) \cup PieceIds(u)
  BY <1>1, <1>2, <1>3, <1>4, JoinIds
<1>6. Taken' = Taken \cup PieceIds(u)
  BY <1>1, <1>5 DEF Taken
<1>7. \A a \in PieceIds(f) : a <= pieces
  <2>1. PieceIds(f) = {f[i].id : i \in 1..Len(f)}
    <3>1. f \in Seq(Piece)
      BY <1>1, <1>3, UnreadOf, Zenon
    <3> QED
      BY <3>1, IdsOf
  <2> QED
    BY <1>2, <1>3, <2>1 DEF Order, Numbered
<1>8. \A a \in Taken' : a <= pieces
  BY <1>4, <1>6, <1>7 DEF Order
<1>9. Ahead(files, handle, Len(f), Taken')
  <2>1. \A k \in 1..Len(files) : k > handle => \A a \in PieceIds(f), b \in PieceIds(files[k]) : a < b
    BY <1>2, <1>3 DEF Order, Numbered
  <2>2. \A k \in 1..Len(files) : k > handle => \A a \in Taken, b \in PieceIds(files[k]) : a < b
    BY DEF Order, Ahead
  <2>3. \A k \in 1..Len(files) : k > handle => \A a \in Taken', b \in PieceIds(files[k]) : a < b
    BY <1>4, <1>6, <2>1, <2>2
  <2>4. \A i \in 1..Len(f) : ~(i > Len(f) \/ Len(f) < Len(f))
    BY <1>2, <1>3
  <2> QED
    BY <1>3, <2>3, <2>4 DEF Ahead
<1>10. InTurn'
  <2>1. \A i \in 1..Len(sent), b \in PieceIds(buf') : sent[i] < b
    BY <1>2, <1>4, <1>5 DEF Order, InTurn
  <2>2. \A a \in PieceIds(hand), b \in PieceIds(buf') : a < b
    BY <1>2, <1>4, <1>5 DEF Order, InTurn
  <2> QED
    BY <1>1, <1>5, <2>1, <2>2 DEF Order, InTurn, Increasing
<1>11. Fresh'
  BY <1>1 DEF AtWork, FillBuffer, Fresh
<1> QED
  BY <1>1, <1>3, <1>8, <1>9, <1>10, <1>11 DEF Order

LEMMA ReadEndsOrder ==
  ASSUME FilePart, Order, kind = "file", NEW end, ReadEnds(end)
  PROVE  Order'
<1>1. /\ hand' = buf /\ buf' = <<>> /\ UNCHANGED <<files, pieces, handle, fdpos, sent>>
      /\ pc' \notin {"off", "open"}
  BY DEF ReadEnds, ReadReturns, GoTo, NotTailer, appVars, sentVars
<1>2. PieceIds(hand') = PieceIds(buf) /\ PieceIds(buf') = {} /\ Increasing(buf')
  BY <1>1, NoIds
<1>3. Taken' \subseteq Taken
  BY <1>1, <1>2 DEF Taken
<1>4. InTurn' /\ Fresh'
  BY <1>1, <1>2 DEF Order, InTurn, Fresh, Increasing
<1> QED
  BY <1>1, <1>3, <1>4, Settled

LEMMA SendOrder ==
  ASSUME FilePart, Order, kind = "file", Send \/ SkipBlank \/ Count \/ Cancelled
  PROVE  Order'
<1>1. CASE Send
  <2>1. /\ sent' = sent \o Ids(hand) /\ UNCHANGED <<files, pieces, handle, fdpos, hand, buf>>
        /\ pc = "send" /\ pc' = "count"
    BY <1>1 DEF Send, GoTo, appVars, readerVars
  <2>2. /\ hand \in Seq(Piece) /\ sent \in Seq(Nat) /\ Ids(hand) \in Seq(Nat) /\ Len(Ids(hand)) = Len(hand)
        /\ \A i \in 1..Len(hand) : Ids(hand)[i] = hand[i].id
        /\ PieceIds(hand) = {hand[i].id : i \in 1..Len(hand)}
    BY IdsOf DEF FilePart, ReaderTypes
  <2>3. PICK s, d : s = sent' /\ d = Ids(hand)
    OBVIOUS
  <2>4. /\ Len(s) = Len(sent) + Len(hand) /\ Len(sent) \in Nat /\ Len(hand) \in Nat
        /\ \A i \in 1..Len(sent) : s[i] = sent[i]
        /\ \A i \in 1..Len(hand) : s[Len(sent) + i] = hand[i].id
    <3>1. d \in Seq(Nat) /\ s = sent \o d /\ Len(d) = Len(hand) /\ \A i \in 1..Len(hand) : d[i] = hand[i].id
      BY <2>1, <2>2, <2>3
    <3>2. /\ Len(s) = Len(sent) + Len(d)
          /\ \A i \in 1..Len(sent) : s[i] = sent[i]
          /\ \A i \in 1..Len(d) : s[Len(sent) + i] = d[i]
      <4>1. sent \in Seq(Nat) /\ Joined(sent, d, s)
        BY <2>2, <3>1, JoinedOf
      <4> QED
        BY <4>1 DEF Joined
    <3>3. Len(sent) \in Nat /\ Len(hand) \in Nat
      BY <2>2
    <3> QED
      BY <3>1, <3>2, <3>3
  <2>5. \A i \in 1..Len(s) : \/ i \in 1..Len(sent) /\ s[i] = sent[i]
                             \/ i > Len(sent) /\ i - Len(sent) \in 1..Len(hand) /\ s[i] = hand[i - Len(sent)].id
    BY <2>4
  <2>6. \A i \in 1..Len(s) : (\E j \in 1..Len(sent) : s[i] = sent[j]) \/ s[i] \in PieceIds(hand)
    BY <2>2, <2>5
  <2>7. Taken' \subseteq Taken
    BY <2>1, <2>3, <2>6 DEF Taken
  <2>8. \A i, j \in 1..Len(s) : i < j => s[i] < s[j]
    <3> SUFFICES ASSUME NEW i \in 1..Len(s), NEW j \in 1..Len(s), i < j PROVE s[i] < s[j]
      OBVIOUS
    <3>1. CASE i \in 1..Len(sent) /\ j \in 1..Len(sent)
      BY <2>4, <3>1 DEF Order, InTurn
    <3>2. CASE i \in 1..Len(sent) /\ j \notin 1..Len(sent)
      <4>1. s[i] = sent[i] /\ s[j] \in PieceIds(hand)
        BY <2>2, <2>4, <2>5, <3>2
      <4> QED
        BY <2>1, <3>2, <4>1 DEF Order, InTurn
    <3>3. CASE i \notin 1..Len(sent)
      <4>1. /\ i - Len(sent) \in 1..Len(hand) /\ s[i] = hand[i - Len(sent)].id
            /\ j - Len(sent) \in 1..Len(hand) /\ s[j] = hand[j - Len(sent)].id
            /\ i - Len(sent) < j - Len(sent)
        BY <2>4, <2>5, <3>3
      <4> QED
        BY <4>1 DEF Order, InTurn, Increasing
    <3> QED
      BY <3>1, <3>2, <3>3
  <2>9. \A i \in 1..Len(s), b \in PieceIds(buf) : s[i] < b
    BY <2>6 DEF Order, InTurn
  <2>10. InTurn' /\ Fresh'
    BY <2>1, <2>3, <2>8, <2>9 DEF Order, InTurn, Fresh, Increasing
  <2> QED
    BY <2>1, <2>7, <2>10, Settled
<1>2. CASE SkipBlank
  BY <1>2, Idle DEF SkipBlank, GoTo, appVars, readerVars
<1>3. CASE Count
  BY <1>3, Idle DEF Count, ReadReturns, GoTo, NotTailer, appVars, readerVars, sentVars
<1>4. CASE Cancelled
  BY <1>4, Idle DEF Cancelled, GoTo, NotTailer, appVars, readerVars, sentVars
<1> QED
  BY <1>1, <1>2, <1>3, <1>4

\* The buffer is dropped, and file hd is read from its start.
LEMMA Restart ==
  ASSUME FilePart, Order, kind = "file", UNCHANGED <<files, pieces, sent, hand>>,
         buf' = <<>>, fdpos' = 0, handle' \in 1..Len(files), handle' >= handle,
         pc' \notin {"send", "off", "open"},
         \A a \in Taken, b \in PieceIds(files[handle']) : a < b
  PROVE  Order'
<1>1. PICK h : h = handle'
  OBVIOUS
<1>2. /\ h \in 1..Len(files) /\ Len(files) \in Nat /\ files[h] \in Seq(Piece)
      /\ handle \in Nat /\ h >= handle
  BY <1>1 DEF FilePart, InodeTypes
<1>3. PieceIds(files[h]) = {files[h][i].id : i \in 1..Len(files[h])}
  BY <1>2, IdsOf
<1>4. Taken' \subseteq Taken
  BY NoIds DEF Taken
<1>5. InTurn' /\ Fresh'
  BY NoIds DEF Order, InTurn, Fresh, Increasing
<1>6. \A k \in 1..Len(files) : k > h => \A a \in Taken, b \in PieceIds(files[k]) : a < b
  BY <1>2 DEF Order, Ahead
<1>7. Ahead(files, h, 0, Taken')
  BY <1>1, <1>3, <1>4, <1>6 DEF Ahead
<1> QED
  BY <1>1, <1>4, <1>5, <1>7 DEF Order

LEMMA WatchOrder ==
  ASSUME FilePart, Order, Watching, kind = "file",
         \/ AddWatch("addWatch") \/ AddWatch("rewatch") \/ HandleWrite
         \/ HandleWriteFails \/ HandleRename \/ Reopen \/ WatchError
  PROVE  Order'
<1>1. ASSUME NEW label, AddWatch(label) PROVE Order'
  BY <1>1, Idle DEF AddWatch, WatchPath, GiveUp, SendErrThen, GoTo, NotTailer, appVars, sentVars
<1>2. CASE HandleWrite /\ ~Truncated
  BY <1>2, Idle DEF HandleWrite, GoTo, NotTailer, appVars, sentVars
<1>3. CASE HandleWrite /\ Truncated
  <2>1. /\ UNCHANGED <<files, pieces, sent, hand, handle>> /\ buf' = <<>> /\ fdpos' = 0
        /\ pc = "select" /\ pc' = "read"
    BY <1>3 DEF HandleWrite, GoTo, NotTailer, appVars, sentVars
  <2>2. AtWork /\ Len(files[handle]) < fdpos
    BY <1>3, <2>1 DEF AtWork, Truncated
  <2>3. handle \in 1..Len(files) /\ files[handle] \in Seq(Piece) /\ handle \in Nat
    BY <2>2, UnreadOf DEF FilePart, InodeTypes
  <2>4. PieceIds(files[handle]) = {files[handle][i].id : i \in 1..Len(files[handle])}
    BY <2>3, IdsOf
  <2>5. \A i \in 1..Len(files[handle]) : \A a \in Taken : a < files[handle][i].id
    BY <2>2, <2>3 DEF Order, Ahead
  <2>6. \A a \in Taken, b \in PieceIds(files[handle]) : a < b
    BY <2>4, <2>5
  <2> QED
    BY <2>1, <2>3, <2>6, Restart
<1>4. CASE HandleWriteFails
  BY <1>4, Idle DEF HandleWriteFails, SendErrThen, NotTailer, appVars, readerVars, sentVars
<1>5. CASE HandleRename
  BY <1>5, Idle DEF HandleRename, GoTo, NotTailer, appVars, readerVars, sentVars
<1>6. CASE Reopen
  <2>1. UNCHANGED <<files, pieces, sent, hand>> /\ pc = "reopen" /\ path # handle
    BY <1>6 DEF Reopen, NotTailer, appVars, sentVars, Watching
  <2>2. \/ UNCHANGED <<handle, fdpos, buf>> /\ pc' \in {"sendErr", "reopen"}
        \/ path # 0 /\ handle' = path /\ fdpos' = 0 /\ buf' = <<>> /\ pc' = "rewatch"
    BY <1>6, <2>1 DEF Reopen, GiveUp, SendErrThen, GoTo
  <2>3. CASE UNCHANGED <<handle, fdpos, buf>> /\ pc' \in {"sendErr", "reopen"}
    BY <2>1, <2>3, Idle
  <2>4. CASE path # 0 /\ handle' = path /\ fdpos' = 0 /\ buf' = <<>> /\ pc' = "rewatch"
    <3>1. path = Len(files) /\ path \in 1..Len(files) /\ path > handle
      BY <2>1, <2>4 DEF FilePart, InodeTypes
    <3>2. \A a \in Taken, b \in PieceIds(files[path]) : a < b
      BY <3>1 DEF Order, Ahead
    <3>3. path >= handle
      BY <3>1 DEF FilePart, InodeTypes
    <3> QED
      BY <2>1, <2>4, <3>1, <3>2, <3>3, Restart
  <2> QED
    BY <2>2, <2>3, <2>4
<1>7. CASE WatchError
  BY <1>7, Idle DEF WatchError, SendErrThen, NotTailer, appVars, readerVars, sentVars
<1> QED
  BY <1>1, <1>2, <1>3, <1>4, <1>5, <1>6, <1>7

LEMMA FileOrder ==
  ASSUME FilePart, Order, Watching, kind = "file", FileNext
  PROVE  Order'
  BY AppOrder, SessionOrder, OpenOrder, ReadLineOrder, FillOrder, ReadEndsOrder, SendOrder, WatchOrder, Zenon
  DEF FileNext, FileGoroutine

LEMMA BaseOrder ==
  ASSUME FilePart, Order, kind = "file", UNCHANGED fileVars,
         sendErr \/ StopCancel \/ StopReport \/ ConsumeErr
  PROVE  Order'
<1>1. (pc' = "send" => pc = "send") /\ (pc' \in {"off", "open"} => pc \in {"off", "open"})
  BY DEF FilePart, LifeTypes, sendErr, StopCancel, StopReport, ConsumeErr
<1> QED
  BY <1>1, Idle DEF fileVars

-----------------------------------------------------------------------------
(* The file tailer: the bookmark.                                          *)

\* File g is file f with pieces appended that were not delivered.
Extends(f, g, d) ==
    /\ Len(f) \in Nat /\ Len(g) \in Nat /\ Len(f) <= Len(g)
    /\ \A i \in 1..Len(f) : g[i] = f[i]
    /\ \A i \in 1..Len(g) : i > Len(f) => g[i].id \notin d

LEMMA ExtendsKeeps ==
  ASSUME NEW f, NEW g, NEW d, NEW x, NEW off \in Nat, Extends(f, g, d)
  PROVE  /\ Before(f, off, d) => Before(g, off, d)
         /\ Behind(f, off, d, x) => Behind(g, off, d, x)
<1>1. Before(f, off, d) => Before(g, off, d)
  BY DEF Extends, Before
<1>2. ASSUME Behind(f, off, d, x), NEW i \in 1..Len(g), i > off, g[i].id \in d
      PROVE  g[i].id \in x
  <2>1. i \in 1..Len(f) /\ g[i] = f[i]
    BY <1>2 DEF Extends
  <2> QED
    BY <1>2, <2>1 DEF Behind
<1> QED
  BY <1>1, <1>2 DEF Behind

LEMMA ExtendsPieces ==
  ASSUME NEW f, NEW g, NEW d, NEW off \in Nat, NEW ps, Len(ps) \in Nat, Extends(f, g, d), Piecewise(f, off, ps)
  PROVE  Piecewise(g, off, ps)
<1>1. off + Len(ps) <= Len(g)
  BY DEF Extends, Piecewise
<1>2. ASSUME NEW i \in 1..Len(ps) PROVE ps[i] = g[off + i]
  <2>1. off + i \in 1..Len(f)
    BY DEF Extends, Piecewise
  <2> QED
    BY <2>1 DEF Extends, Piecewise
<1> QED
  BY <1>1, <1>2 DEF Piecewise

\* What is delivered has been written: a line in hand was read from a file.
LEMMA FileDelivered ==
  ASSUME FilePart, Order, Delivered, kind = "file", FileNext
  PROVE  Delivered'
<1>1. pieces \in Nat /\ delivered \in SUBSET Nat
  BY FileTailerAssumption DEF FilePart, InodeTypes, ReaderTypes
<1>2. CASE UNCHANGED delivered /\ pieces' \in {pieces, pieces + 1} /\ UNCHANGED kind
  BY <1>1, <1>2 DEF Delivered
<1>3. \A a \in PieceIds(hand) : a <= pieces
  BY TakenOf, Zenon DEF Order
<1>4. CASE Send
  BY <1>3, <1>4 DEF Delivered, Send, appVars
<1>5. CASE SkipBlank
  <2>1. hand \in Seq(Piece) /\ hand # <<>>
    BY <1>5 DEF FilePart, ReaderTypes, SkipBlank
  <2>2. 1 \in 1..Len(hand)
    BY <2>1
  <2>3. hand[1].id \in PieceIds(hand)
    BY <2>1, <2>2, IdsOf
  <2> QED
    BY <1>3, <1>5, <2>3 DEF Delivered, SkipBlank, appVars
<1>6. CASE Application
  <2>1. CASE AppWrite
    BY <1>2, <2>1 DEF AppWrite, sentVars, baseVars
  <2>2. CASE AppTruncate \/ AppRename \/ AppCreate
    BY <1>2, <2>2 DEF AppTruncate, AppRename, AppCreate, sentVars, baseVars
  <2> QED
    BY <1>6, <2>1, <2>2 DEF Application
<1>7. CASE StartSession \/ SaveBookmark \/ Crash
  BY <1>2, <1>7 DEF StartSession, SaveBookmark, Crash, ProcessEnds, appVars, sentVars
<1>8. CASE NotTailer /\ UNCHANGED sentVars
  BY <1>2, <1>8 DEF NotTailer, appVars, sentVars
<1>9. CASE Open \/ ReadLine \/ FillBuffer \/ ReadEnds("eof") \/ ReadEnds("error")
  BY <1>8, <1>9 DEF Open, ReadLine, FillBuffer, ReadEnds
<1>10. CASE Count \/ Cancelled \/ AddWatch("addWatch") \/ AddWatch("rewatch") \/ Reopen
  BY <1>8, <1>10 DEF Count, Cancelled, AddWatch, Reopen
<1>11. CASE HandleWrite \/ HandleWriteFails \/ HandleRename \/ WatchError
  BY <1>8, <1>11 DEF HandleWrite, HandleWriteFails, HandleRename, WatchError
<1> QED
  BY <1>4, <1>5, <1>6, <1>7, <1>9, <1>10, <1>11, Zenon DEF FileNext, FileGoroutine

\* Every step of the application leaves the files as they are, or extends them,
\* unless it truncates one.
LEMMA AppExtends ==
  ASSUME FilePart, Delivered, kind = "file", AppWrite \/ AppCreate, NEW k \in 1..Len(files)
  PROVE  Extends(files[k], files'[k], delivered)
<1>1. /\ files \in Seq(Seq(Piece)) /\ Len(files) \in Nat /\ pieces \in Nat /\ files[k] \in Seq(Piece)
      /\ delivered \in SUBSET Nat
  BY FileTailerAssumption DEF FilePart, InodeTypes, ReaderTypes
<1>2. Len(files[k]) \in Nat
  BY <1>1
<1>3. CASE files'[k] = files[k]
  BY <1>2, <1>3 DEF Extends
<1>4. CASE AppCreate
  <2>1. files'[k] = files[k]
    BY <1>1, <1>4 DEF AppCreate
  <2> QED
    BY <1>3, <2>1
<1>5. CASE AppWrite
  <2>1. PICK e \in Piece :
           /\ e.id = pieces + 1
           /\ Len(files') = Len(files) /\ files'[Len(files)] = Append(files[Len(files)], e)
           /\ \A j \in 1..Len(files) : j # Len(files) => files'[j] = files[j]
    BY <1>5, Written
  <2>2. CASE k # Len(files)
    BY <1>3, <2>1, <2>2
  <2>3. CASE k = Len(files)
    <3>1. PICK f, g : f = files[k] /\ g = files'[k]
      OBVIOUS
    <3>2. f \in Seq(Piece) /\ g = Append(f, e)
      BY <1>1, <2>1, <2>3, <3>1
    <3>3. /\ Len(f) \in Nat /\ Len(g) = Len(f) + 1
          /\ \A i \in 1..Len(f) : g[i] = f[i]
          /\ g[Len(f) + 1] = e
      BY <3>2
    <3>4. e.id \notin delivered
      BY <1>1, <2>1 DEF Delivered
    <3>5. Extends(f, g, delivered)
      BY <3>3, <3>4 DEF Extends
    <3> QED
      BY <3>1, <3>5
  <2> QED
    BY <2>2, <2>3
<1> QED
  BY <1>4, <1>5

LEMMA OffsetTypes ==
  ASSUME FilePart
  PROVE  /\ Len(files) \in Nat /\ path \in {0, Len(files)} /\ Len(files) >= 1
         /\ handle \in 0..Len(files)
         /\ bookmark.inode \in 0..Len(files) /\ bookmark.offset \in Nat /\ lastOffset \in Nat
         /\ Len(hand) \in Nat /\ Len(buf) \in Nat /\ fdpos \in Nat
<1>1. bookmark \in [offset : Nat, inode : 0..Len(files)]
  BY DEF FilePart, InodeTypes
<1> QED
  BY <1>1 DEF FilePart, InodeTypes, ReaderTypes

LEMMA WriteMark ==
  ASSUME FilePart, Watching, Delivered, kind = "file", Mark, AppWrite
  PROVE  Mark'
<1>1. UNCHANGED <<path, handle, fdpos, buf, hand, lastOffset, startOffset, bookmark, crashed, inFlight, delivered, pc, errNext>>
  BY DEF AppWrite, readerVars, sessionVars, sentVars, baseVars
<1>2. /\ Len(files) \in Nat /\ path \in {0, Len(files)} /\ Len(files) >= 1
      /\ bookmark.inode \in 0..Len(files) /\ bookmark.offset \in Nat /\ lastOffset \in Nat
      /\ Len(hand) \in Nat /\ Len(buf) \in Nat
  BY OffsetTypes
<1>3. \A k \in 1..Len(files) : Extends(files[k], files'[k], delivered)
  BY AppExtends
<1>4. Steady'
  <2>1. Notify(Len(files), "write") /\ Len(files) \in 1..Len(files)
    BY <1>2 DEF AppWrite
  <2>2. \A i \in 1..Len(events') : i \in 1..Len(events) \/ events'[i] = "write"
    BY <2>1, NotifyOf
  <2>3. \A i \in 1..Len(events) : events'[i] = events[i]
    BY <2>1, NotifyOf
  <2> QED
    BY <1>1, <2>2, <2>3 DEF Mark, Steady
<1>5. Saved' /\ AtRest' /\ Running'
  <2>1. ASSUME NEW k \in 1..Len(files), NEW off \in Nat, NEW x
        PROVE  /\ Before(files[k], off, delivered) => Before(files'[k], off, delivered)
               /\ Behind(files[k], off, delivered, x) => Behind(files'[k], off, delivered, x)
    BY <1>3, ExtendsKeeps
  <2>2. Uncounted' = Uncounted /\ 0 \in Nat
    BY <1>1 DEF Uncounted
  <2>3. /\ bookmark.inode # 0 => bookmark.inode \in 1..Len(files)
        /\ path # 0 => path \in 1..Len(files)
    BY <1>2
  <2>4. Saved'
    BY <1>1, <1>2, <2>1, <2>3 DEF Mark, Saved
  <2>5. AtRest'
    BY <1>1, <1>2, <2>1, <2>2, <2>3 DEF Mark, AtRest
  <2>6. Running'
    BY <1>1, <1>2, <2>1, <2>2, <2>3 DEF Mark, Running
  <2> QED
    BY <2>4, <2>5, <2>6
<1>6. Reading'
  <2>1. AtWork' = AtWork
    BY <1>1 DEF AtWork
  <2>2. CASE ~AtWork
    BY <2>1, <2>2 DEF Reading
  <2>3. CASE AtWork
    <3>1. path \in 1..Len(files)
      BY <1>2, <2>3 DEF FilePart, LifeTypes, Mark, Steady
    <3>2. PICK f, g : f = files[path] /\ g = files'[path]
      OBVIOUS
    <3>3. Extends(f, g, delivered)
      BY <1>3, <3>1, <3>2
    <3>4. ASSUME NEW off \in Nat, NEW ps, Len(ps) \in Nat, Piecewise(f, off, ps) PROVE Piecewise(g, off, ps)
      BY <3>3, <3>4, ExtendsPieces
    <3>5. CASE pc \in {"send", "count"}
      <4>1. lastOffset + Len(hand) \in Nat
        BY <1>2
      <4>2. Piecewise(g, lastOffset, hand) /\ Piecewise(g, lastOffset + Len(hand), buf)
        BY <1>2, <2>3, <3>2, <3>4, <3>5, <4>1 DEF Mark, Reading
      <4> QED
        BY <1>1, <2>3, <3>2, <3>5, <4>2 DEF Mark, Reading
    <3>6. CASE pc \notin {"send", "count"}
      <4>1. lastOffset + 0 \in Nat
        BY <1>2
      <4>2. Piecewise(g, lastOffset + 0, buf)
        BY <1>2, <2>3, <3>2, <3>4, <3>6, <4>1 DEF Mark, Reading
      <4> QED
        BY <1>1, <2>3, <3>2, <3>6, <4>2 DEF Mark, Reading
    <3> QED
      BY <3>5, <3>6
  <2> QED
    BY <2>2, <2>3
<1> QED
  BY <1>4, <1>5, <1>6 DEF Mark

LEMMA RenameMark ==
  ASSUME FilePart, Watching, Order, kind = "file", Mark, AppRename, pc = "off"
  PROVE  Mark'
<1>1. /\ UNCHANGED <<files, handle, lastOffset, startOffset, bookmark, crashed, inFlight, delivered, pc, errNext>>
      /\ path' = 0 /\ path # 0
  BY DEF AppRename, readerVars, sessionVars, sentVars, baseVars
<1>2. handle = 0 /\ events = <<>> /\ watch = 0
  BY DEF Order, Fresh, Watching
<1>3. events' = events
  BY <1>1, <1>2 DEF AppRename, Notify
<1>4. Steady' /\ Saved' /\ AtRest' /\ Running'
  BY <1>1, <1>2, <1>3 DEF Mark, Steady, Saved, AtRest, Running
<1>5. Reading'
  BY <1>1 DEF Reading, AtWork
<1> QED
  BY <1>4, <1>5 DEF Mark

LEMMA CreateMark ==
  ASSUME FilePart, Watching, Delivered, kind = "file", Mark, AppCreate
  PROVE  Mark'
<1>1. /\ UNCHANGED <<handle, lastOffset, startOffset, bookmark, crashed, inFlight, delivered, pc, errNext, events>>
      /\ path = 0 /\ path' = Len(files) + 1 /\ files' = Append(files, <<>>)
  BY DEF AppCreate, readerVars, sessionVars, sentVars, baseVars
<1>2. /\ Len(files) \in Nat /\ bookmark.inode \in 0..Len(files) /\ bookmark.offset \in Nat
      /\ files \in Seq(Seq(Piece))
  BY OffsetTypes DEF FilePart, InodeTypes
<1>3. handle = 0 /\ ~AtWork
  BY <1>1 DEF FilePart, LifeTypes, Mark, Steady
<1>4. Steady' /\ Reading'
  BY <1>1, <1>3 DEF Mark, Steady, Reading, AtWork
<1>5. files'[path'] = <<>> /\ \A k \in 1..Len(files) : files'[k] = files[k]
  BY <1>1, <1>2
<1>6. bookmark.inode # 0 => files'[bookmark.inode] = files[bookmark.inode]
  BY <1>2, <1>5
<1>7. Saved'
  BY <1>1, <1>6 DEF Mark, Saved
<1>8. \A x : Before(<<>>, 0, delivered) /\ Behind(<<>>, 0, delivered, x)
  BY DEF Before, Behind
<1>9. AtRest' /\ Running'
  BY <1>1, <1>2, <1>5, <1>6, <1>8 DEF Mark, AtRest, Running
<1> QED
  BY <1>4, <1>7, <1>9 DEF Mark

-----------------------------------------------------------------------------
(* The file tailer: the bookmark of one run and the next.                  *)

LEMMA StartMark ==
  ASSUME FilePart, Watching, Order, kind = "file", Mark, StartSession
  PROVE  Mark'
<1>1. /\ UNCHANGED <<files, path, handle, bookmark, crashed, inFlight, delivered, events>>
      /\ pc = "off" /\ pc' = "open"
      /\ startOffset' = ResumeOffset /\ lastOffset' = ResumeOffset
  BY DEF StartSession, GoTo, appVars, readerVars, sentVars
<1>2. Steady' /\ Saved' /\ AtRest' /\ Reading'
  BY <1>1 DEF Mark, Steady, Saved, AtRest, Reading, AtWork
<1>3. /\ Len(files) \in Nat /\ path \in {0, Len(files)} /\ bookmark.offset \in Nat
      /\ files \in Seq(Seq(Piece)) /\ Len(files) >= 1
  BY OffsetTypes DEF FilePart, InodeTypes
<1>4. Uncounted' = {}
  BY <1>1 DEF Uncounted
<1>5. CASE path = 0
  BY <1>1, <1>2, <1>5 DEF Mark, Running, ResumeOffset
<1>6. CASE path # 0 /\ path = bookmark.inode
  <2>1. ResumeOffset = bookmark.offset
    BY <1>6 DEF ResumeOffset
  <2> QED
    BY <1>1, <1>2, <1>4, <1>6, <2>1 DEF Mark, Running, Saved, AtRest
<1>7. CASE path # 0 /\ path # bookmark.inode
  <2>1. ResumeOffset = 0
    BY <1>7 DEF ResumeOffset
  <2>2. files[path] \in Seq(Piece)
    BY <1>3, <1>7
  <2>3. Before(files[path], 0, delivered)
    BY <2>2 DEF Before
  <2>4. ~crashed => Behind(files[path], 0, delivered, inFlight)
    BY <1>1, <1>7 DEF Mark, AtRest
  <2> QED
    BY <1>1, <1>2, <1>4, <1>7, <2>1, <2>3, <2>4 DEF Mark, Running
<1> QED
  BY <1>5, <1>6, <1>7

LEMMA SaveMark ==
  ASSUME FilePart, kind = "file", Mark, SaveBookmark
  PROVE  Mark'
<1>1. /\ UNCHANGED <<files, path, crashed, delivered>>
      /\ pc # "off" /\ pc' = "off" /\ handle' = 0 /\ events' = <<>>
      /\ bookmark' = [offset |-> lastOffset, inode |-> path]
      /\ inFlight' = inFlight \cup Uncounted
  BY DEF SaveBookmark, ProcessEnds, GoTo, appVars, Uncounted
<1>2. Steady' /\ Reading' /\ Running'
  BY <1>1 DEF Steady, Reading, AtWork, Running
<1>3. bookmark'.offset = lastOffset /\ bookmark'.inode = path
  BY <1>1
<1>4. Saved' /\ AtRest'
  BY <1>1, <1>3 DEF Mark, Running, Saved, AtRest
<1> QED
  BY <1>2, <1>4 DEF Mark

LEMMA CrashMark ==
  ASSUME FilePart, kind = "file", Mark, Crash
  PROVE  Mark'
<1>1. /\ UNCHANGED <<files, path, bookmark, delivered>>
      /\ pc' = "off" /\ handle' = 0 /\ events' = <<>> /\ crashed' = TRUE
  BY DEF Crash, ProcessEnds, GoTo, appVars
<1> QED
  BY <1>1 DEF Mark, Steady, Reading, AtWork, Running, Saved, AtRest

\* A step of the goroutine.
LEMMA GoroutineMark ==
  ASSUME kind = "file", Mark, pc # "off", pc' \notin {"off", "open"},
         UNCHANGED <<files, path, bookmark, inFlight, crashed>>,
         delivered \subseteq delivered', Steady', Reading', Running'
  PROVE  Mark'
<1>1. Saved'
  BY DEF Mark, Saved, Before
<1>2. AtRest'
  BY DEF AtRest
<1> QED
  BY <1>1, <1>2 DEF Mark

\* One that neither takes pieces up nor puts any down.
LEMMA IdleMark ==
  ASSUME kind = "file", Mark, pc # "off", pc' # "off",
         pc \notin {"send", "count"}, pc' \notin {"send", "count", "reopen", "rewatch"},
         pc' = "open" => pc = "open",
         UNCHANGED <<files, path, bookmark, inFlight, crashed, delivered, startOffset>>,
         UNCHANGED <<handle, fdpos, buf, lastOffset>>,
         AtWork' => AtWork, Steady'
  PROVE  Mark'
<1>1. Reading'
  BY DEF Mark, Reading
<1>2. Uncounted' = {} /\ Uncounted = {}
  BY DEF Uncounted
<1>3. Running'
  BY <1>2 DEF Mark, Running
<1>4. Saved' /\ AtRest'
  BY DEF Mark, Saved, AtRest
<1> QED
  BY <1>1, <1>3, <1>4 DEF Mark

\* One that ends the tailer.
LEMMA LeaveMark ==
  ASSUME kind = "file", Mark, pc \notin {"off", "count"}, pc' \notin {"off", "open", "count"}, ~AtWork',
         UNCHANGED <<files, path, bookmark, inFlight, crashed, delivered, lastOffset>>, Steady'
  PROVE  Mark'
<1>1. Reading'
  BY DEF Reading
<1>2. Uncounted' = {} /\ Uncounted = {}
  BY DEF Uncounted
<1>3. Running'
  BY <1>2 DEF Mark, Running
<1> QED
  BY <1>1, <1>3, GoroutineMark

LEMMA OpenMark ==
  ASSUME FilePart, Watching, Order, kind = "file", Mark, Open
  PROVE  Mark'
<1>1. /\ UNCHANGED <<files, path, bookmark, inFlight, crashed, delivered, lastOffset, events, buf>>
      /\ pc = "open"
  BY DEF Open, NotTailer, appVars, sessionVars, sentVars
<1>2. handle = 0 /\ buf = <<>> /\ events = <<>> /\ startOffset = lastOffset
  BY <1>1 DEF Order, Fresh, Watching, Mark, Running
<1>3. CASE path = 0
  <2>1. pc' = "sendErr" /\ errNext' = "done" /\ handle' = handle
    BY <1>3 DEF Open, SendErrThen
  <2>2. ~AtWork' /\ Steady'
    BY <1>1, <1>2, <2>1 DEF AtWork, Mark, Steady
  <2> QED
    BY <1>1, <2>1, <2>2, LeaveMark
<1>4. CASE path # 0
  <2>1. pc' = "read" /\ handle' = path /\ fdpos' = lastOffset
    BY <1>2, <1>4 DEF Open, GoTo
  <2>2. Before(files[path], lastOffset, delivered)
    BY <1>1, <1>4 DEF Mark, Running
  <2>3. lastOffset \in Nat /\ Len(<<>>) = 0
    BY OffsetTypes
  <2>4. Piecewise(files[path], lastOffset + 0, <<>>)
    BY <2>2, <2>3 DEF Before, Piecewise
  <2>5. Steady' /\ Reading'
    BY <1>1, <1>2, <2>1, <2>3, <2>4 DEF Mark, Steady, Reading
  <2>6. Running'
    BY <1>1, <1>4, <2>1 DEF Mark, Running, Uncounted
  <2> QED
    BY <1>1, <2>1, <2>5, <2>6, GoroutineMark
<1> QED
  BY <1>3, <1>4

\* A running tailer has the file at the path open, and the descriptor in it.
LEMMA AtWorkOf ==
  ASSUME FilePart, kind = "file", Mark, AtWork
  PROVE  /\ handle = path /\ path \in 1..Len(files) /\ files[path] \in Seq(Piece)
         /\ Len(files[path]) \in Nat
<1>1. handle \in 1..Len(files) /\ files[handle] \in Seq(Piece) /\ Len(files[handle]) \in Nat
  BY UnreadOf, Zenon
<1> QED
  BY <1>1 DEF Mark, Reading

\* The sequence b is cut into h, its first n elements, and r.
Halves(b, n, h, r) ==
    /\ Len(h) = n /\ \A i \in 1..n : h[i] = b[i]
    /\ Len(r) = Len(b) - n /\ \A i \in 1..(Len(b) - n) : r[i] = b[n + i]

LEMMA HalvesOf ==
  ASSUME NEW S, NEW b \in Seq(S), NEW n \in 0..Len(b), NEW h, NEW r,
         h = SubSeq(b, 1, n), r = SubSeq(b, n + 1, Len(b))
  PROVE  Halves(b, n, h, r)
  BY CutOf DEF Halves

LEMMA PiecewiseCut ==
  ASSUME NEW f, NEW off \in Nat, NEW b, NEW n \in Nat, NEW h, NEW r,
         Len(f) \in Nat, Len(b) \in Nat, n <= Len(b), Halves(b, n, h, r), Piecewise(f, off, b)
  PROVE  Piecewise(f, off, h) /\ Piecewise(f, off + n, r)
<1>1. Len(h) = n /\ Len(r) = Len(b) - n /\ off + Len(b) <= Len(f)
  BY DEF Halves, Piecewise
<1>2. ASSUME NEW i \in 1..Len(h) PROVE h[i] = f[off + i]
  <2>1. h[i] = b[i] /\ i \in 1..Len(b)
    BY <1>1 DEF Halves
  <2>2. b[i] = f[off + i]
    BY <2>1 DEF Piecewise
  <2> QED
    BY <2>1, <2>2
<1>3. ASSUME NEW i \in 1..Len(r) PROVE r[i] = f[off + n + i]
  <2>1. n + i \in 1..Len(b) /\ off + (n + i) = off + n + i /\ r[i] = b[n + i]
    BY <1>1 DEF Halves
  <2>2. b[n + i] = f[off + (n + i)]
    BY <2>1 DEF Piecewise
  <2> QED
    BY <2>1, <2>2
<1>4. off + Len(h) <= Len(f) /\ off + n + Len(r) <= Len(f)
  BY <1>1
<1> QED
  BY <1>2, <1>3, <1>4, Zenon DEF Piecewise

LEMMA ReadLineMark ==
  ASSUME FilePart, kind = "file", Mark, ReadLine
  PROVE  Mark'
<1>1. /\ UNCHANGED <<files, path, bookmark, inFlight, crashed, delivered, lastOffset, handle, fdpos, events>>
      /\ pc = "read" /\ pc' = "send" /\ AtWork
      /\ hand' = SubSeq(buf, 1, LineEnd(buf))
      /\ buf' = SubSeq(buf, LineEnd(buf) + 1, Len(buf)) /\ LineEnd(buf) # 0
  BY DEF ReadLine, NotTailer, GoTo, AtWork, appVars, sessionVars, sentVars
<1>2. PICK f, n, h, r : f = files[path] /\ n = LineEnd(buf) /\ h = hand' /\ r = buf'
  OBVIOUS
<1>3. /\ lastOffset \in Nat /\ Len(f) \in Nat /\ buf \in Seq(Piece) /\ Len(buf) \in Nat
      /\ n \in 1..Len(buf) /\ \A i \in 1..(n - 1) : buf[i].kind = "text"
  <2>1. lastOffset \in Nat /\ buf \in Seq(Piece) /\ Len(buf) \in Nat
    BY DEF FilePart, ReaderTypes
  <2>2. Len(f) \in Nat
    BY <1>1, <1>2, AtWorkOf
  <2>3. n \in 0..Len(buf) /\ n # 0 /\ \A i \in 1..(n - 1) : buf[i].kind = "text"
    BY <1>1, <1>2, <2>1, LineEndOf
  <2> QED
    BY <2>1, <2>2, <2>3
<1>4. Piecewise(f, lastOffset, buf) /\ fdpos = lastOffset + Len(buf) /\ handle = path
  BY <1>1, <1>2, <1>3 DEF Mark, Reading
<1>5. /\ Len(h) = n /\ Len(r) = Len(buf) - n
      /\ Piecewise(f, lastOffset, h) /\ Piecewise(f, lastOffset + Len(h), r)
  <2>1. n \in 0..Len(buf) /\ h = SubSeq(buf, 1, n) /\ r = SubSeq(buf, n + 1, Len(buf))
    BY <1>1, <1>2, <1>3
  <2>2. Halves(buf, n, h, r)
    BY <1>3, <2>1, HalvesOf
  <2>3. n \in Nat /\ n <= Len(buf)
    BY <1>3
  <2>4. Piecewise(f, lastOffset, h) /\ Piecewise(f, lastOffset + n, r)
    BY <1>3, <1>4, <2>2, <2>3, PiecewiseCut
  <2> QED
    BY <2>2, <2>4 DEF Halves
<1>6. h[1].kind = "newline" => Len(h) = 1
  <2>1. 1 \in 1..n /\ h[1] = buf[1]
    BY <1>1, <1>2, <1>3
  <2>2. n # 1 => buf[1].kind = "text"
    BY <1>3
  <2> QED
    BY <1>5, <2>1, <2>2
<1>7. fdpos = lastOffset + Len(h) + Len(r)
  BY <1>3, <1>4, <1>5
<1>8. Reading'
  BY <1>1, <1>2, <1>4, <1>5, <1>6, <1>7 DEF Reading
<1>9. Steady'
  BY <1>1 DEF Mark, Steady
<1>10. Running'
  BY <1>1 DEF Mark, Running, Uncounted
<1> QED
  BY <1>1, <1>8, <1>9, <1>10, GoroutineMark

LEMMA PiecewiseJoin ==
  ASSUME NEW f, NEW off \in Nat, NEW b, NEW u, NEW r, Len(f) \in Nat, Len(b) \in Nat,
         Joined(b, u, r), Piecewise(f, off, b), Len(u) = Len(f) - (off + Len(b)),
         Piecewise(f, off + Len(b), u)
  PROVE  Piecewise(f, off, r) /\ Len(f) = off + Len(r)
<1>1. off + Len(b) <= Len(f)
  BY DEF Piecewise
<1>2. Len(r) = Len(b) + Len(u) /\ Len(u) \in Nat
  BY <1>1 DEF Joined
<1>3. ASSUME NEW i \in 1..Len(r) PROVE r[i] = f[off + i]
  <2>1. CASE i \in 1..Len(b)
    <3>1. r[i] = b[i]
      BY <2>1 DEF Joined
    <3>2. b[i] = f[off + i]
      BY <2>1 DEF Piecewise
    <3> QED
      BY <3>1, <3>2
  <2>2. CASE i \notin 1..Len(b)
    <3>1. /\ i - Len(b) \in 1..Len(u) /\ Len(b) + (i - Len(b)) = i
          /\ off + Len(b) + (i - Len(b)) = off + i
      BY <1>1, <1>2, <2>2
    <3> QED
      <4>1. r[Len(b) + (i - Len(b))] = u[i - Len(b)]
        BY <3>1, Zenon DEF Joined
      <4>2. u[i - Len(b)] = f[off + Len(b) + (i - Len(b))]
        BY <3>1, Zenon DEF Piecewise
      <4> QED
        BY <3>1, <4>1, <4>2, Zenon
  <2> QED
    BY <2>1, <2>2
<1>4. off + Len(r) <= Len(f) /\ Len(f) = off + Len(r)
  BY <1>2
<1> QED
  BY <1>3, <1>4, Zenon DEF Piecewise

LEMMA FillMark ==
  ASSUME FilePart, kind = "file", Mark, FillBuffer
  PROVE  Mark'
<1>1. /\ UNCHANGED <<files, path, bookmark, inFlight, crashed, delivered, lastOffset, handle, hand, events>>
      /\ pc = "read" /\ pc' = "read" /\ AtWork
      /\ buf' = buf \o Unread /\ fdpos' = Len(files[handle])
  BY DEF FillBuffer, NotTailer, AtWork, appVars, sessionVars, sentVars
<1>2. PICK f, u, r : f = files[path] /\ u = Unread /\ r = buf'
  OBVIOUS
<1>3. /\ lastOffset \in Nat /\ Len(f) \in Nat /\ buf \in Seq(Piece) /\ Len(buf) \in Nat /\ handle = path
  BY <1>1, <1>2, AtWorkOf DEF FilePart, ReaderTypes
<1>4. Piecewise(f, lastOffset, buf) /\ fdpos = lastOffset + Len(buf)
  BY <1>1, <1>2, <1>3 DEF Mark, Reading
<1>5. /\ u \in Seq(Piece) /\ Len(u) = (IF fdpos < Len(f) THEN Len(f) - fdpos ELSE 0)
      /\ \A i \in 1..Len(u) : u[i] = f[fdpos + i]
  BY <1>1, <1>2, <1>3, UnreadOf, Zenon
<1>6. Len(u) = Len(f) - (lastOffset + Len(buf))
  BY <1>3, <1>4, <1>5 DEF Piecewise
<1>7. Piecewise(f, lastOffset, r) /\ Len(f) = lastOffset + Len(r)
  <2>1. Joined(buf, u, r)
    <3>1. r = buf \o u
      BY <1>1, <1>2
    <3> QED
      BY <1>3, <1>5, <3>1, JoinedOf, Zenon
  <2>2. Piecewise(f, lastOffset + Len(buf), u)
    <3>1. \A i \in 1..Len(u) : u[i] = f[lastOffset + Len(buf) + i]
      BY <1>4, <1>5
    <3>2. lastOffset + Len(buf) + Len(u) <= Len(f)
      BY <1>3, <1>6
    <3> QED
      BY <3>1, <3>2, Zenon DEF Piecewise
  <2> QED
    BY <1>3, <1>4, <1>6, <2>1, <2>2, PiecewiseJoin
<1>8. Reading'
  <2>1. lastOffset + 0 = lastOffset
    BY <1>3
  <2> QED
    BY <1>1, <1>2, <1>3, <1>7, <2>1 DEF Reading
<1>9. Steady'
  BY <1>1 DEF Mark, Steady
<1>10. Running'
  BY <1>1 DEF Mark, Running, Uncounted
<1> QED
  BY <1>1, <1>8, <1>9, <1>10, GoroutineMark

LEMMA ReadEndsMark ==
  ASSUME FilePart, kind = "file", Mark, NEW end, ReadEnds(end)
  PROVE  Mark'
<1>1. /\ UNCHANGED <<files, path, bookmark, inFlight, crashed, delivered, lastOffset, startOffset, handle, fdpos, events>>
      /\ pc = "read" /\ AtWork /\ hand' = buf /\ buf' = <<>> /\ LineEnd(buf) = 0
  BY DEF ReadEnds, NotTailer, AtWork, appVars, sessionVars, sentVars
<1>2. Steady'
  BY <1>1 DEF Mark, Steady
<1>3. CASE buf = <<>>
  <2>1. pc' \in {"done", "select", "addWatch"}
    BY <1>3 DEF ReadEnds, ReadReturns, GoTo
  <2> QED
    BY <1>1, <1>2, <1>3, <2>1, IdleMark
<1>4. CASE buf # <<>>
  <2>1. pc' = "send"
    BY <1>4 DEF ReadEnds, GoTo
  <2>2. PICK f : f = files[path]
    OBVIOUS
  <2>3. /\ lastOffset \in Nat /\ Len(f) \in Nat /\ buf \in Seq(Piece) /\ Len(buf) \in Nat /\ handle = path
    BY <1>1, <2>2, AtWorkOf DEF FilePart, ReaderTypes
  <2>4. Piecewise(f, lastOffset, buf) /\ fdpos = lastOffset + Len(buf)
    BY <1>1, <2>2, <2>3 DEF Mark, Reading
  <2>5. Piecewise(f, lastOffset + Len(buf), <<>>) /\ fdpos = lastOffset + Len(buf) + Len(<<>>)
    BY <2>3, <2>4 DEF Piecewise
  <2>6. buf[1].kind # "newline"
    <3>1. 1 \in 1..Len(buf)
      BY <1>4, <2>3
    <3> QED
      BY <1>1, <2>3, <3>1, LineEndOf
  <2>7. Reading'
    BY <1>1, <2>1, <2>2, <2>3, <2>4, <2>5, <2>6 DEF Reading
  <2>8. Running'
    BY <1>1, <2>1 DEF Mark, Running, Uncounted
  <2> QED
    BY <1>1, <1>2, <2>1, <2>7, <2>8, GoroutineMark
<1> QED
  BY <1>3, <1>4

\* The line in hand is delivered, and not counted yet.
LEMMA SendMark ==
  ASSUME FilePart, kind = "file", Mark, Send \/ SkipBlank
  PROVE  Mark'
<1>1. /\ UNCHANGED <<files, path, bookmark, inFlight, crashed, lastOffset, handle, fdpos, buf, hand, events>>
      /\ pc = "send" /\ pc' = "count" /\ AtWork
  BY DEF Send, SkipBlank, GoTo, AtWork, appVars, sessionVars, readerVars
<1>2. delivered' = delivered \cup PieceIds(hand)
  <2>1. CASE Send
    BY <2>1 DEF Send
  <2>2. CASE SkipBlank
    <3>1. delivered' = delivered \cup {hand[1].id} /\ Len(hand) = 1
      BY <1>1, <2>2 DEF SkipBlank, Mark, Reading
    <3>2. PieceIds(hand) = {hand[i].id : i \in 1..Len(hand)}
      BY IdsOf DEF FilePart, ReaderTypes
    <3>3. \A i \in 1..Len(hand) : i = 1
      BY <3>1
    <3>4. 1 \in 1..Len(hand)
      BY <3>1
    <3>5. PieceIds(hand) = {hand[1].id}
      BY <3>2, <3>3, <3>4, Zenon
    <3> QED
      BY <3>1, <3>5
  <2> QED
    BY <2>1, <2>2
<1>3. Reading'
  BY <1>1, <1>2 DEF Mark, Reading
<1>4. Steady'
  BY <1>1 DEF Mark, Steady
<1>5. Running'
  <2>1. ASSUME path # 0 PROVE Before(files[path], lastOffset, delivered')
    BY <1>1, <1>2, <2>1 DEF Mark, Running, Before
  <2>2. ASSUME path # 0, ~crashed
        PROVE  Behind(files[path], lastOffset, delivered', inFlight \cup PieceIds(hand))
    <3>1. Behind(files[path], lastOffset, delivered, inFlight \cup Uncounted) /\ Uncounted = {}
      BY <1>1, <2>2 DEF Mark, Running, Uncounted
    <3> QED
      BY <1>2, <3>1 DEF Behind
  <2>3. Uncounted' = PieceIds(hand)
    BY <1>1 DEF Uncounted
  <2> QED
    BY <1>1, <2>1, <2>2, <2>3 DEF Mark, Running
<1> QED
  BY <1>1, <1>2, <1>3, <1>4, <1>5, GoroutineMark

\* Pieces h of file f from offset off on, all of them delivered, are counted.
LEMMA CountedOf ==
  ASSUME NEW f, NEW off \in Nat, NEW h, NEW d, NEW x, Len(f) \in Nat, Len(h) \in Nat, Increasing(f),
         \A i \in 1..Len(f) : f[i].id \in Nat,
         NEW ids, ids = {h[i].id : i \in 1..Len(h)}, ids \subseteq d, Piecewise(f, off, h)
  PROVE  /\ Before(f, off, d) => Before(f, off + Len(h), d)
         /\ Behind(f, off, d, x \cup ids) => Behind(f, off + Len(h), d, x)
<1>1. ASSUME Before(f, off, d) PROVE Before(f, off + Len(h), d)
  <2>1. ASSUME NEW i \in 1..(off + Len(h)) PROVE f[i].id \in d
    <3>1. CASE i <= off
      BY <1>1, <3>1 DEF Before
    <3>2. CASE i > off
      <4>1. i - off \in 1..Len(h) /\ off + (i - off) = i
        BY <3>2
      <4>2. h[i - off] = f[i]
        BY <4>1 DEF Piecewise
      <4>3. h[i - off].id \in ids
        BY <4>1
      <4> QED
        BY <4>2, <4>3
    <3> QED
      BY <3>1, <3>2
  <2>2. off + Len(h) <= Len(f)
    BY DEF Piecewise
  <2> QED
    BY <2>1, <2>2 DEF Before
<1>2. ASSUME Behind(f, off, d, x \cup ids), NEW i \in 1..Len(f), i > off + Len(h), f[i].id \in d
      PROVE  f[i].id \in x
  <2>1. f[i].id \in x \cup ids
    <3>1. i > off
      BY <1>2
    <3> QED
      BY <1>2, <3>1 DEF Behind
  <2>2. ASSUME NEW j \in 1..Len(h) PROVE f[i].id # h[j].id
    <3>1. off + j \in 1..Len(f) /\ off + j < i
      BY <1>2
    <3>2. h[j] = f[off + j]
      BY DEF Piecewise
    <3>3. f[off + j].id < f[i].id /\ f[i].id \in Nat
      BY <3>1 DEF Increasing
    <3> QED
      BY <3>2, <3>3
  <2> QED
    BY <2>1, <2>2
<1> QED
  BY <1>1, <1>2 DEF Behind

LEMMA CountMark ==
  ASSUME FilePart, Order, kind = "file", Mark, Count
  PROVE  Mark'
<1>1. /\ UNCHANGED <<files, path, bookmark, inFlight, crashed, delivered, handle, fdpos, buf, hand, events>>
      /\ pc = "count" /\ pc' \in {"read", "done", "select", "addWatch"} /\ AtWork
      /\ lastOffset' = lastOffset + Len(hand)
  BY DEF Count, Counted, ReadReturns, GoTo, NotTailer, AtWork, appVars, sessionVars, readerVars, sentVars
<1>2. PICK f, h, ids : f = files[path] /\ h = hand /\ ids = PieceIds(hand)
  OBVIOUS
<1>3. /\ lastOffset \in Nat /\ Len(f) \in Nat /\ f \in Seq(Piece) /\ Len(h) \in Nat /\ path \in 1..Len(files)
      /\ Len(buf) \in Nat
  BY <1>1, <1>2, AtWorkOf, OffsetTypes
<1>4. /\ ids = {h[i].id : i \in 1..Len(h)} /\ \A i \in 1..Len(f) : f[i].id \in Nat
  <2>1. h \in Seq(Piece)
    BY <1>2 DEF FilePart, ReaderTypes
  <2>2. ids = {h[i].id : i \in 1..Len(h)}
    BY <1>2, <2>1, IdsOf, Zenon
  <2>3. \A i \in 1..Len(f) : f[i].id \in Nat
    BY <1>3, IdsOf, Zenon
  <2> QED
    BY <2>2, <2>3
<1>5. Increasing(f)
  BY <1>2, <1>3 DEF Order, Numbered
<1>6. /\ Piecewise(f, lastOffset, h) /\ ids \subseteq delivered /\ handle = path
      /\ Piecewise(f, lastOffset + Len(h), buf) /\ fdpos = lastOffset + Len(h) + Len(buf)
  BY <1>1, <1>2 DEF Mark, Reading
<1>7. Before(f, lastOffset, delivered) /\ (~crashed => Behind(f, lastOffset, delivered, inFlight \cup ids))
  BY <1>1, <1>2, <1>3 DEF Mark, Running, Uncounted
<1>8. /\ Before(f, lastOffset, delivered) => Before(f, lastOffset + Len(h), delivered)
      /\ Behind(f, lastOffset, delivered, inFlight \cup ids) => Behind(f, lastOffset + Len(h), delivered, inFlight)
  BY <1>3, <1>4, <1>5, <1>6, CountedOf
<1>9. Uncounted' = {} /\ path # 0
  BY <1>1, <1>3 DEF Uncounted
<1>10. Running'
  BY <1>1, <1>2, <1>7, <1>8, <1>9 DEF Running
<1>11. Reading'
  <2>1. lastOffset' + 0 = lastOffset + Len(h) /\ lastOffset' + 0 + Len(buf) = lastOffset + Len(h) + Len(buf)
    BY <1>1, <1>2, <1>3
  <2> QED
    BY <1>1, <1>2, <1>6, <2>1 DEF Reading
<1>12. Steady'
  BY <1>1 DEF Mark, Steady
<1> QED
  BY <1>1, <1>10, <1>11, <1>12, GoroutineMark

LEMMA CancelledMark ==
  ASSUME FilePart, kind = "file", Mark, Cancelled
  PROVE  Mark'
<1>1. /\ UNCHANGED <<files, path, bookmark, inFlight, crashed, delivered, lastOffset, handle, events>>
      /\ pc \in {"read", "send", "select"} /\ pc' = "done"
  BY DEF Cancelled, NotTailer, GoTo, appVars, sessionVars, readerVars, sentVars
<1>2. ~AtWork' /\ Steady'
  BY <1>1 DEF AtWork, Mark, Steady
<1> QED
  BY <1>1, <1>2, LeaveMark

\* Without a rotation the tailer only ever watches its file and reads on.
LEMMA WatchMark ==
  ASSUME FilePart, kind = "file", Mark,
         \/ AddWatch("addWatch") \/ AddWatch("rewatch") \/ HandleWrite
         \/ HandleWriteFails \/ HandleRename \/ Reopen \/ WatchError
  PROVE  Mark'
<1>1. events \in Seq({"write", "rename"}) /\ errNext \in {"done", "select"}
  BY DEF FilePart, ReaderTypes, LifeTypes
<1>2. pc \notin {"reopen", "rewatch"}
  BY DEF Mark, Reading, AtWork
<1>3. events # <<>> => Head(events) = "write"
  BY <1>1 DEF Mark, Steady
<1>4. CASE AddWatch("addWatch")
  <2>1. /\ UNCHANGED <<files, path, bookmark, inFlight, crashed, delivered, startOffset>>
        /\ UNCHANGED <<handle, fdpos, buf, lastOffset, events>>
        /\ pc = "addWatch" /\ AtWork
    BY <1>4 DEF AddWatch, NotTailer, AtWork, appVars, sessionVars, sentVars
  <2>2. path # 0
    BY <2>1 DEF FilePart, LifeTypes, Mark, Steady
  <2>3. pc' = "select" /\ Steady'
    BY <1>4, <2>1, <2>2 DEF AddWatch, WatchPath, GoTo, Mark, Steady
  <2> QED
    BY <2>1, <2>3, IdleMark
<1>5. CASE HandleWrite
  <2>1. /\ UNCHANGED <<files, path, bookmark, inFlight, crashed, delivered, startOffset, handle>>
        /\ pc = "select" /\ pc' = "read" /\ AtWork /\ events' = Tail(events) /\ events # <<>>
    BY <1>5 DEF HandleWrite, NotTailer, GoTo, AtWork, appVars, sessionVars, sentVars
  <2>2. ~Truncated
    <3>1. /\ handle = path /\ Len(files[path]) \in Nat /\ lastOffset \in Nat /\ Len(buf) \in Nat
      BY <2>1, AtWorkOf, OffsetTypes
    <3>2. Piecewise(files[path], lastOffset + 0, buf) /\ fdpos = lastOffset + 0 + Len(buf)
      BY <2>1 DEF Mark, Reading
    <3> QED
      BY <3>1, <3>2 DEF Piecewise, Truncated
  <2>3. UNCHANGED <<fdpos, buf, lastOffset>>
    BY <1>5, <2>2 DEF HandleWrite
  <2>4. \A i \in 1..Len(events') : events'[i] = "write"
    BY <1>1, <2>1 DEF Mark, Steady
  <2>5. Steady'
    BY <2>1, <2>4 DEF Mark, Steady
  <2> QED
    BY <2>1, <2>3, <2>5, IdleMark
<1>6. CASE HandleWriteFails
  <2>1. /\ UNCHANGED <<files, path, bookmark, inFlight, crashed, delivered, lastOffset, handle>>
        /\ pc = "select" /\ pc' = "sendErr" /\ errNext' = "done" /\ events' = Tail(events) /\ events # <<>>
    BY <1>6 DEF HandleWriteFails, NotTailer, SendErrThen, appVars, sessionVars, readerVars, sentVars
  <2>2. \A i \in 1..Len(events') : events'[i] = "write"
    BY <1>1, <2>1 DEF Mark, Steady
  <2>3. Steady' /\ ~AtWork'
    BY <2>1, <2>2 DEF Mark, Steady, AtWork
  <2> QED
    BY <2>1, <2>3, LeaveMark
<1>7. CASE WatchError
  <2>1. /\ UNCHANGED <<files, path, bookmark, inFlight, crashed, delivered, startOffset>>
        /\ UNCHANGED <<handle, fdpos, buf, lastOffset, events>>
        /\ pc = "select" /\ AtWork /\ pc' = "sendErr"
    BY <1>7 DEF WatchError, NotTailer, SendErrThen, AtWork, appVars, sessionVars, readerVars, sentVars
  <2>2. Steady'
    BY <2>1 DEF Mark, Steady
  <2> QED
    BY <2>1, <2>2, IdleMark
<1> QED
  BY <1>2, <1>3, <1>4, <1>5, <1>6, <1>7 DEF AddWatch, HandleRename, Reopen

LEMMA BaseMark ==
  ASSUME FilePart, kind = "file", Mark, UNCHANGED fileVars,
         sendErr \/ StopCancel \/ StopReport \/ ConsumeErr
  PROVE  Mark'
<1>1. UNCHANGED <<files, path, bookmark, inFlight, crashed, delivered, startOffset, handle, fdpos, buf, lastOffset, hand, events>>
  BY DEF fileVars
<1>2. Steady'
  BY <1>1 DEF Mark, Steady
<1>3. CASE sendErr
  <2>1. pc = "sendErr" /\ pc' = errNext /\ errNext \in {"done", "select"} /\ errNext' = errNext
    BY <1>3 DEF sendErr, FilePart, LifeTypes
  <2>2. AtWork' => AtWork
    BY <2>1 DEF AtWork
  <2> QED
    BY <1>1, <1>2, <2>1, <2>2, IdleMark
<1>4. CASE UNCHANGED <<pc, errNext>>
  <2>1. AtWork' = AtWork /\ Uncounted' = Uncounted
    BY <1>1, <1>4 DEF AtWork, Uncounted
  <2>2. Reading'
    BY <1>1, <1>4, <2>1 DEF Mark, Reading
  <2>3. Saved' /\ AtRest' /\ Running'
    BY <1>1, <1>4, <2>1 DEF Mark, Saved, AtRest, Running
  <2> QED
    BY <1>2, <2>2, <2>3 DEF Mark
<1> QED
  BY <1>3, <1>4 DEF StopCancel, StopReport, ConsumeErr

LEMMA FileBookmarked ==
  ASSUME FilePart, Watching, Order, Delivered, kind = "file", Bookmarked, FileNext
  PROVE  Bookmarked'
<1>1. SUFFICES ASSUME ~disturbed' PROVE Mark'
  BY DEF Bookmarked
<1>2. CASE Application
  <2>1. ~disturbed /\ ~AppTruncate /\ (AppRename => pc = "off")
    BY <1>1, <1>2 DEF FilePart, LifeTypes, Application, AppWrite, AppTruncate, AppRename, AppCreate, upsetVars
  <2>2. Mark
    BY <2>1 DEF Bookmarked
  <2> QED
    BY <1>2, <2>1, <2>2, WriteMark, RenameMark, CreateMark, Zenon DEF Application
<1>3. CASE StartSession \/ SaveBookmark \/ Crash
  <2>1. ~disturbed
    BY <1>1, <1>3 DEF StartSession, SaveBookmark, Crash, ProcessEnds, upsetVars
  <2>2. Mark
    BY <2>1 DEF Bookmarked
  <2> QED
    BY <1>3, <2>2, StartMark, SaveMark, CrashMark, Zenon
<1>4. CASE Open \/ ReadLine \/ FillBuffer \/ ReadEnds("eof") \/ ReadEnds("error")
  <2>1. ~disturbed
    BY <1>1, <1>4 DEF Open, ReadLine, FillBuffer, ReadEnds, NotTailer
  <2>2. Mark
    BY <2>1 DEF Bookmarked
  <2> QED
    BY <1>4, <2>2, OpenMark, ReadLineMark, FillMark, ReadEndsMark, Zenon
<1>5. CASE Send \/ SkipBlank \/ Count \/ Cancelled
  <2>1. ~disturbed
    BY <1>1, <1>5 DEF Send, SkipBlank, Count, Cancelled, NotTailer, upsetVars
  <2>2. Mark
    BY <2>1 DEF Bookmarked
  <2> QED
    BY <1>5, <2>2, SendMark, CountMark, CancelledMark, Zenon
<1>6. CASE \/ AddWatch("addWatch") \/ AddWatch("rewatch") \/ HandleWrite
           \/ HandleWriteFails \/ HandleRename \/ Reopen \/ WatchError
  <2>1. ~disturbed
    BY <1>1, <1>6 DEF AddWatch, HandleWrite, HandleWriteFails, HandleRename, Reopen, WatchError, NotTailer
  <2>2. Mark
    BY <2>1 DEF Bookmarked
  <2> QED
    BY <1>6, <2>2, WatchMark, Zenon
<1> QED
  BY <1>2, <1>3, <1>4, <1>5, <1>6, Zenon DEF FileNext, FileGoroutine

-----------------------------------------------------------------------------
(* The invariant and the theorems.                                         *)

LEMMA SameSource ==
  ASSUME Next
  PROVE  UNCHANGED <<kind, follow>>
<1>1. CASE FileNext
  BY <1>1 DEF FileNext, FileGoroutine, Application, AppWrite, AppTruncate, AppRename, AppCreate, StartSession,
     SaveBookmark, Crash, ProcessEnds, Open, ReadLine, FillBuffer, ReadEnds, Send, SkipBlank, Count, Cancelled,
     AddWatch, HandleWrite, HandleWriteFails, HandleRename, Reopen, WatchError, NotTailer, baseVars
<1>2. CASE ProcNext
  <2>1. CASE NewLine \/ ProcessExits \/ KillProcess
    BY <2>1 DEF NewLine, ProcessExits, KillProcess, baseVars
  <2>2. CASE ScanSteps \/ Reconnect \/ ErrBlocked \/ ScanStops
    BY <2>2 DEF ScanSteps, StartProcess, StartFails, ScanLine, SendLine, SendCancelled, Reconnect, ErrBlocked,
       ScanStops, NotGoroutine
  <2>3. CASE LogsSession \/ JournalctlRun \/ StdinRun
    BY <2>2, <2>3 DEF LogsSession, JournalctlRun, StdinRun, ScanSteps, ScanEnds, ScanFails, WaitQuiet, WaitReports,
       NotGoroutine
  <2> QED
    BY <1>2, <2>1, <2>2, <2>3 DEF ProcNext, ProcGoroutine, DockerRun, DockerReconnect, KubernetesRun, KubernetesReconnect
<1>3. CASE sendErr \/ StopCancel \/ StopReport \/ ConsumeErr
  BY <1>3 DEF sendErr, StopCancel, StopReport, ConsumeErr
<1> QED
  BY <1>1, <1>2, <1>3 DEF Next, Dispatch

\* The invariant of a file source, and of any other.
FileInv == FilePart /\ ProcTypeOK /\ (~follow => ~repeated) /\ Watching /\ Order /\ Delivered /\ Bookmarked
ProcInv == ProcPart /\ FileTypeOK /\ (readEnd = "error" => readFailed) /\ sent = <<>> /\ bookmark.inode = 0

LEMMA ByKind ==
  IInv <=> IF kind = "file" THEN FileInv ELSE ProcInv
<1>1. CASE kind = "file"
  <2>1. IInv => FileInv
    BY <1>1 DEF IInv, FileInv, FilePart, InodeTypes, ReaderTypes, LifeTypes, EndIsReported, TypeOK, FileTypeOK,
       Control, FileControl, OneSession
  <2>2. FileInv => IInv
    BY <1>1, FileTailerAssumption DEF IInv, FileInv, FilePart, InodeTypes, ReaderTypes, LifeTypes, EndIsReported, TypeOK, FileTypeOK,
       Control, FileControl, OneSession, NoFile, FileLabels
  <2> QED
    BY <1>1, <2>1, <2>2
<1>2. CASE kind # "file"
  <2>1. IInv => ProcInv
    BY <1>2 DEF IInv, ProcInv, ProcPart, EndIsReported, TypeOK, Control, OneSession, NoFile
  <2>2. ProcInv => IInv
    BY <1>2 DEF IInv, ProcInv, ProcPart, EndIsReported, TypeOK, Control, OneSession, NoFile,
       FileControl, Watching, Order, Delivered, Bookmarked
  <2> QED
    BY <1>2, <2>1, <2>2
<1> QED
  BY <1>1, <1>2

LEMMA BaseInitially ==
  ASSUME BaseInit
  PROVE  /\ BaseTypeOK /\ errNext = "done" /\ stopper = "running"
         /\ ~ctxDone
<1>1. ctxDone = FALSE /\ ctxDone \in BOOLEAN
  BY Zenon DEF BaseInit
<1>2. follow \in BOOLEAN
  <2>1. CASE kind = "stdin"
    BY <2>1, Zenon DEF BaseInit
  <2>2. CASE kind # "stdin"
    BY <2>2, Zenon DEF BaseInit
  <2> QED
    BY <2>1, <2>2
<1>3. errChan \in 0..ErrCap
  BY TailerAssumption DEF BaseInit
<1>4. kind \in Kinds /\ stopper = "running" /\ status \in Statuses /\ errNext = "done"
  BY DEF BaseInit, Statuses
<1> QED
  BY <1>1, <1>2, <1>3, <1>4, Zenon DEF BaseTypeOK

LEMMA ProcInitially ==
  ASSUME ProcInit
  PROVE  ProcTypeOK /\ ~repeated /\ pos = 0 /\ emitted = 0
<1>1. repeated \in BOOLEAN /\ ~repeated
  BY Zenon DEF ProcInit
<1>2. /\ proc \in {"none", "running", "success", "failure"}
      /\ logLen \in 0..MaxLines /\ pos \in 0..MaxLines /\ delay \in BaseDelay..MaxDelay
      /\ exits \in 0..MaxExits /\ emitted \in 0..MaxLines
      /\ pos = 0 /\ emitted = 0
  BY ProcessTailerAssumption DEF ProcInit
<1> QED
  BY <1>1, <1>2, Zenon DEF ProcTypeOK

LEMMA FileInitially ==
  ASSUME FileInit
  PROVE  FileTypeOK /\ readEnd = "none" /\ sent = <<>> /\ bookmark.inode = 0
<1>1. /\ following \in BOOLEAN /\ crashed \in BOOLEAN /\ disturbed \in BOOLEAN /\ readFailed \in BOOLEAN
  BY Zenon DEF FileInit
<1>2. /\ files \in Seq(Seq(Piece)) /\ Len(files) = 1 /\ buf \in Seq(Piece) /\ hand \in Seq(Piece)
      /\ events \in Seq({"write", "rename"}) /\ sent \in Seq(Nat) /\ delivered \in SUBSET Nat /\ inFlight \in SUBSET Nat
  <2>1. << <<>> >> \in Seq(Seq(Piece)) /\ Len(<< <<>> >>) = 1
    OBVIOUS
  <2>2. <<>> \in Seq(Piece) /\ <<>> \in Seq(Nat) /\ <<>> \in Seq({"write", "rename"})
    OBVIOUS
  <2> QED
    BY <2>1, <2>2, Zenon DEF FileInit
<1>3. /\ path \in 0..Len(files) /\ watch \in 0..Len(files) /\ handle \in 0..Len(files)
      /\ pieces \in 0..MaxPieces /\ fdpos \in Nat /\ lastOffset \in Nat /\ startOffset \in Nat
      /\ retry \in 0..ReopenMaxRetry /\ sessions \in 0..MaxSessions /\ upsets \in 0..MaxUpsets
      /\ readEnd = "none" /\ sent = <<>>
  BY <1>2, FileTailerAssumption DEF FileInit
<1>4. bookmark \in [offset : Nat, inode : 0..Len(files)] /\ bookmark.inode = 0
  BY <1>2 DEF FileInit, NoBookmark
<1> QED
  BY <1>1, <1>2, <1>3, <1>4 DEF FileTypeOK

LEMMA InvariantInit ==
  ASSUME Init
  PROVE  IInv
<1>0. /\ BaseTypeOK /\ errNext = "done" /\ stopper = "running" /\ ~ctxDone
      /\ ProcTypeOK /\ ~repeated /\ pos = 0 /\ emitted = 0
      /\ FileTypeOK /\ readEnd = "none" /\ sent = <<>> /\ bookmark.inode = 0
  BY BaseInitially, ProcInitially, FileInitially, Zenon DEF Init
<1>1. CASE kind = "file"
  <2>1. << <<>> >> \in Seq(Seq(Piece)) /\ Len(<< <<>> >>) = 1 /\ <<>> \in Seq(Piece)
    OBVIOUS
  <2>2. FilePart
    <3>1. InodeTypes
      BY <2>1, FileTailerAssumption DEF Init, FileInit, InodeTypes, NoBookmark
    <3>2. ReaderTypes
      BY <1>1, <2>1 DEF Init, FileInit, ReaderTypes
    <3>3. LifeTypes
      <4>1. pc = "off" /\ readEnd = "none"
        BY <1>1 DEF Init, FileInit
      <4> QED
        BY <1>0, <4>1 DEF FileTypeOK, LifeTypes, FileLabels, AtWork
    <3> QED
      BY <3>1, <3>2, <3>3 DEF FilePart
  <2>3. ProcTypeOK /\ (~follow => ~repeated)
    BY <1>0
  <2>4. Watching /\ Delivered
    BY <1>1 DEF Init, FileInit, Watching, Delivered
  <2>5. Order
    <3>1. PICK f : f = files
      OBVIOUS
    <3>2. Len(f) = 1 /\ f[1] = <<>>
      BY <3>1 DEF Init, FileInit
    <3>3. Numbered(f, 0)
      <4>1. \A k \in 1..Len(f) : k = 1 /\ f[k] = <<>>
        BY <3>2
      <4>2. \A k \in 1..Len(f) : Increasing(f[k]) /\ Len(f[k]) = 0
        BY <4>1, NoIds
      <4>3. \A j, k \in 1..Len(f) : ~(j < k)
        BY <4>1
      <4> QED
        BY <4>2, <4>3 DEF Numbered
    <3>4. Taken = {} /\ hand = <<>> /\ buf = <<>> /\ sent = <<>> /\ handle = 0 /\ pieces = 0 /\ pc = "off"
      BY <1>1, NoIds DEF Init, FileInit, Taken
    <3> QED
      BY <3>1, <3>3, <3>4, NoIds DEF Order, Ahead, InTurn, Fresh, Increasing
  <2>6. Bookmarked
    <3>1. handle = 0 /\ events = <<>> /\ pc = "off" /\ bookmark.inode = 0 /\ delivered = {} /\ errNext = "done"
      BY <1>1 DEF Init, BaseInit, FileInit, NoBookmark
    <3> QED
      BY <3>1 DEF Bookmarked, Mark, Steady, Reading, AtWork, Saved, AtRest, Running, Behind
  <2> QED
    BY <1>1, <2>2, <2>3, <2>4, <2>5, <2>6, ByKind DEF FileInv
<1>2. CASE kind # "file"
  <2>1. ProcPart
    <3>1. pc = "start"
      BY <1>2 DEF Init
    <3> QED
      BY <1>0, <1>2, <3>1 DEF ProcPart, ProcLabels, OneSession
  <2> QED
    BY <1>0, <1>2, <2>1, ByKind DEF ProcInv
<1> QED
  BY <1>1, <1>2

LEMMA InvariantNext ==
  ASSUME IInv, [Next]_vars
  PROVE  IInv'
<1>1. (IInv <=> IF kind = "file" THEN FileInv ELSE ProcInv)'
  BY ByKind, PTL
<1>2. CASE UNCHANGED vars
  <2>1. UNCHANGED <<baseVars, fileVars, procVars>>
    BY <1>2 DEF vars
  <2>2. EndIsReported' /\ Control' /\ FileControl' /\ OneSession' /\ NoFile'
    <3>1. TypeOK'
      <4>1. TypeOK
        BY DEF IInv, EndIsReported
      <4>2. BaseTypeOK' /\ ProcTypeOK' /\ UNCHANGED <<kind, pc, errNext>>
        BY <2>1, <4>1 DEF baseVars, procVars, TypeOK, BaseTypeOK, ProcTypeOK
      <4>3. FileTypeOK'
        BY <2>1, <4>1 DEF fileVars, TypeOK, FileTypeOK
      <4> QED
        BY <4>1, <4>2, <4>3 DEF TypeOK
    <3>2. EndIsReported'
      BY <2>1, <3>1 DEF IInv, baseVars, fileVars, procVars, EndIsReported
    <3> QED
      BY <2>1, <3>2 DEF IInv, baseVars, fileVars, procVars, Control, FileControl, AtWork, OneSession, NoFile
  <2>3. Watching' /\ Delivered'
    BY <2>1 DEF IInv, baseVars, fileVars, Watching, Delivered
  <2>4. Order'
    BY <2>1 DEF IInv, baseVars, fileVars, Order, Taken, InTurn, Fresh
  <2>5. Bookmarked'
    BY <2>1 DEF IInv, baseVars, fileVars, Bookmarked, Mark, Steady, Reading, AtWork, Saved, AtRest, Running, Uncounted
  <2> QED
    BY <2>2, <2>3, <2>4, <2>5 DEF IInv
<1>3. CASE Next /\ kind = "file"
  <2>1. FileInv /\ kind' = "file" /\ follow' = follow /\ UNCHANGED procVars
    BY <1>3, ByKind, SameSource DEF Next, Dispatch
  <2>2. ProcTypeOK' /\ (~follow' => ~repeated')
    BY <2>1 DEF FileInv, ProcTypeOK, procVars
  <2>3. CASE FileNext
    <3>1. FilePart' /\ Watching' /\ Order' /\ Delivered' /\ Bookmarked'
      BY <1>3, <2>1, <2>3, FileTypes, FileWatching, FileOrder, FileDelivered, FileBookmarked, Zenon DEF FileInv
    <3> QED
      BY <1>1, <2>1, <2>2, <3>1 DEF FileInv
  <2>4. CASE UNCHANGED fileVars /\ (sendErr \/ StopCancel \/ StopReport \/ ConsumeErr)
    <3>1. FilePart' /\ Watching' /\ Order'
      BY <1>3, <2>1, <2>4, BaseTypes, BaseWatching, BaseOrder, Zenon DEF FileInv
    <3>2. Delivered'
      <4>1. Delivered /\ UNCHANGED <<delivered, pieces>>
        BY <2>1, <2>4 DEF FileInv, fileVars
      <4> QED
        BY <1>3, <2>1, <4>1 DEF Delivered
    <3>3. Bookmarked'
      <4>1. disturbed' = disturbed
        BY <2>4 DEF fileVars
      <4>2. CASE disturbed
        BY <4>1, <4>2 DEF Bookmarked
      <4>3. CASE ~disturbed
        <5>1. Mark
          BY <1>3, <2>1, <4>3 DEF FileInv, Bookmarked
        <5>2. Mark'
          BY <1>3, <2>1, <2>4, <5>1, BaseMark, Zenon DEF FileInv
        <5> QED
          BY <5>2 DEF Bookmarked
      <4> QED
        BY <4>2, <4>3
    <3> QED
      BY <1>1, <2>1, <2>2, <3>1, <3>2, <3>3 DEF FileInv
  <2> QED
    BY <1>3, <2>3, <2>4 DEF Next, Dispatch
<1>4. CASE Next /\ kind # "file"
  <2>1. ProcInv /\ kind' # "file" /\ UNCHANGED fileVars
    BY <1>4, ByKind, SameSource DEF Next, Dispatch
  <2>2. ProcPart'
    <3>1. CASE ProcNext
      BY <1>4, <2>1, <3>1, ProcKeeps DEF ProcInv
    <3>2. CASE UNCHANGED procVars /\ (sendErr \/ StopCancel \/ StopReport \/ ConsumeErr)
      BY <1>4, <2>1, <3>2, ProcErrors, ProcStops, Zenon DEF ProcInv
    <3> QED
      BY <1>4, <3>1, <3>2 DEF Next, Dispatch
  <2>3. FileTypeOK' /\ (readEnd = "error" => readFailed)' /\ sent' = <<>> /\ bookmark'.inode = 0
    BY <2>1 DEF ProcInv, FileTypeOK, fileVars
  <2> QED
    BY <1>1, <2>1, <2>2, <2>3 DEF ProcInv
<1> QED
  BY <1>2, <1>3, <1>4

THEOREM Invariant == Spec => []IInv
<1>1. Init => IInv
  BY InvariantInit
<1>2. IInv /\ [Next]_vars => IInv'
  BY InvariantNext
<1> QED
  BY <1>1, <1>2, PTL DEF Spec

\* Whatever its source, a tailer that follows it and was not stopped does not end
\* without a report, but for the three silent ends of file_tailer.go,
\* journalctl_tailer.go and stdin_tailer.go that EndIsReported names.
THEOREM EndReported == Spec => []EndIsReported
<1>1. IInv => EndIsReported
  BY DEF IInv
<1> QED
  BY <1>1, Invariant, PTL

\* Without follow, docker_tailer.go and kubernetes_tailer.go, and with them the
\* other tailers of processes, print no line of the log a second time.
THEOREM ReadOnce == Spec => []OneShotOnce
<1>1. IInv => OneShotOnce
  BY DEF IInv, OneSession, OneShotOnce
<1> QED
  BY <1>1, Invariant, PTL

\* In one run file_tailer.go sends what the application wrote at most once and in
\* the order of writing, through any truncations, rotations and partial lines.
THEOREM InOrder == Spec => []SentInOrder
<1>1. ASSUME IInv PROVE SentInOrder
  <2>1. sent \in Seq(Nat)
    BY <1>1 DEF IInv, EndIsReported, TypeOK, FileTypeOK
  <2>2. DOMAIN sent = 1..Len(sent)
    BY <2>1
  <2>3. CASE kind = "file"
    BY <1>1, <2>2, <2>3 DEF IInv, Order, InTurn, SentInOrder
  <2>4. CASE kind # "file"
    <3>1. sent = <<>> /\ Len(sent) = 0
      BY <1>1, <2>4 DEF IInv, NoFile
    <3> QED
      BY <2>2, <3>1 DEF SentInOrder
  <2> QED
    BY <2>3, <2>4
<1> QED
  BY <1>1, Invariant, PTL

\* The bookmark that cmd/tail.go saves divides a file that was neither truncated
\* nor rotated under a tailer into what was sent and what was not, also when the
\* program ends in the middle of a line, and after any number of runs.
THEOREM BookmarkHolds == Spec => []BookmarkExact
<1>1. ASSUME IInv PROVE BookmarkExact
  <2>1. SUFFICES ASSUME pc = "off", bookmark.inode # 0, ~disturbed,
                        NEW i \in DOMAIN files[bookmark.inode]
                 PROVE  LET id == files[bookmark.inode][i].id
                        IN  IF i <= bookmark.offset
                            THEN id \in delivered
                            ELSE id \in delivered => crashed \/ id \in inFlight
    BY DEF BookmarkExact
  <2>2. kind = "file" /\ Mark
    BY <1>1, <2>1 DEF IInv, NoFile, Bookmarked
  <2>3. PICK f, off : f = files[bookmark.inode] /\ off = bookmark.offset
    OBVIOUS
  <2>4. f \in Seq(Piece) /\ off \in Nat
    <3>1. FilePart
      BY <1>1, <2>2, ByKind DEF FileInv
    <3>2. bookmark.inode \in 1..Len(files) /\ bookmark.offset \in Nat
      BY <2>1, <3>1, OffsetTypes
    <3> QED
      BY <2>3, <3>1, <3>2 DEF FilePart, InodeTypes
  <2>5. i \in 1..Len(f)
    BY <2>1, <2>3, <2>4
  <2>6. Before(f, off, delivered) /\ (~crashed => Behind(f, off, delivered, inFlight))
    BY <2>1, <2>2, <2>3 DEF Mark, Saved, AtRest
  <2> QED
    BY <2>3, <2>4, <2>5, <2>6 DEF Before, Behind
<1> QED
  BY <1>1, Invariant, PTL

=============================================================================
