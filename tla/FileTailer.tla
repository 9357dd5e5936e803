----------------------------- MODULE FileTailer -----------------------------
(***************************************************************************)
(* internal/tailer/file_tailer.go, and the bookmark cmd/tail.go keeps of   *)
(* its position from one run of the program to the next.                   *)
(*                                                                         *)
(* The application that owns the log appends to it, truncates it in place  *)
(* and renames it away (rotation), at any moment.  A file is the sequence  *)
(* of the pieces that were appended to it, a piece being text without a    *)
(* newline or a newline.  Offsets count pieces.                            *)
(***************************************************************************)
EXTENDS Tailer

CONSTANTS MaxPieces,        \* bound on the appends explored
          MaxUpsets,        \* bound on the rotations, truncations and watcher
                            \* errors explored
          MaxSessions,      \* bound on the runs of the program explored
          ReopenMaxRetry    \* reopenMaxRetry

ASSUME FileTailerAssumption ==
    /\ MaxPieces \in Nat
    /\ MaxUpsets \in Nat
    /\ MaxSessions \in Nat \ {0}
    /\ ReopenMaxRetry \in Nat \ {0}

VARIABLES
    files,      \* contents of every file ever created, by inode
    path,       \* inode at the path of the source, 0 when there is none
    pieces,     \* number of pieces written so far: their identities
    watch,      \* inode the fsnotify watcher watches, 0 when none
    events,     \* events the watcher holds
    handle,     \* inode of the open file
    fdpos,      \* position of the file descriptor
    buf,        \* pieces bufio.Reader holds
    hand,       \* the pieces of the line ReadString returned last
    lastOffset, \* ft.lastOffset
    startOffset,\* ft.startOffset
    readEnd,    \* how the last ReadString ended: "none" found a newline
    following,  \* readLines was called by followFile, not by run
    retry,      \* attempts of reopenFile
    bookmark,   \* the saved bookmark: its offset and its inode, 0 when none
    sessions,   \* runs of the program so far
    sent,       \* history: pieces sent in this run, in order
    delivered,  \* history: pieces sent in any run
    crashed,    \* history: a run ended without saving its bookmark
    inFlight,   \* history: pieces sent but not counted when a run ended
    upsets,     \* history: number of upsets so far
    disturbed,  \* history: the file was truncated, or rotated during a run
    readFailed  \* history: reading failed with an error other than EOF

appVars == <<files, path, pieces>>
readerVars == <<handle, fdpos, buf, hand, readEnd, following>>
sessionVars == <<startOffset, bookmark, sessions, crashed, inFlight>>
sentVars == <<sent, delivered>>
upsetVars == <<upsets, disturbed>>

fileVars == <<files, path, pieces, watch, events, handle, fdpos, buf, hand,
              readEnd, following, lastOffset, startOffset, retry, bookmark,
              sessions, sent, delivered, crashed, inFlight, upsets,
              disturbed, readFailed>>

PieceKinds == {"text", "newline"}
Piece == [id : Nat, kind : PieceKinds]

PieceIds(ps) == {ps[i].id : i \in DOMAIN ps}

NoBookmark == [offset |-> 0, inode |-> 0]

FileLabels == {"off", "open", "read", "send", "count", "addWatch", "select",
               "reopen", "rewatch", "sendErr", "done"}

FileTypeOK ==
    /\ files \in Seq(Seq(Piece))
    /\ path \in 0..Len(files)
    /\ pieces \in 0..MaxPieces
    /\ watch \in 0..Len(files)
    /\ events \in Seq({"write", "rename"})
    /\ handle \in 0..Len(files)
    /\ fdpos \in Nat
    /\ buf \in Seq(Piece)
    /\ hand \in Seq(Piece)
    /\ readEnd \in {"none", "eof", "error"}
    /\ following \in BOOLEAN
    /\ lastOffset \in Nat
    /\ startOffset \in Nat
    /\ retry \in 0..ReopenMaxRetry
    /\ bookmark \in [offset : Nat, inode : 0..Len(files)]
    /\ sessions \in 0..MaxSessions
    /\ sent \in Seq(Nat)
    /\ delivered \in SUBSET Nat
    /\ crashed \in BOOLEAN
    /\ inFlight \in SUBSET Nat
    /\ upsets \in 0..MaxUpsets
    /\ disturbed \in BOOLEAN
    /\ readFailed \in BOOLEAN

FileInit ==
    /\ files = << <<>> >>
    /\ path = 1
    /\ pieces = 0
    /\ watch = 0
    /\ events = <<>>
    /\ handle = 0
    /\ fdpos = 0
    /\ buf = <<>>
    /\ hand = <<>>
    /\ readEnd = "none"
    /\ following = FALSE
    /\ lastOffset = 0
    /\ startOffset = 0
    /\ retry = 0
    /\ bookmark = NoBookmark
    /\ sessions = 0
    /\ sent = <<>>
    /\ delivered = {}
    /\ crashed = FALSE
    /\ inFlight = {}
    /\ upsets = 0
    /\ disturbed = FALSE
    /\ readFailed = FALSE

-----------------------------------------------------------------------------
(* The application, and inotify as the tailer uses it.  Equal events in a  *)
(* row are one event, and a rename ends the watch.                         *)

Upset == upsets < MaxUpsets /\ upsets' = upsets + 1

Notify(inode, event) ==
    events' = IF watch = inode /\ (events = <<>> \/ events[Len(events)] # event)
              THEN Append(events, event) ELSE events

\* The application holds the newest file open, renamed or not.
AppWrite ==
    /\ pieces < MaxPieces
    /\ \E k \in PieceKinds :
          files' = [files EXCEPT ![Len(files)] =
                       Append(@, [id |-> pieces + 1, kind |-> k])]
    /\ pieces' = pieces + 1
    /\ Notify(Len(files), "write")
    /\ UNCHANGED <<path, watch, readerVars, lastOffset, retry, sessionVars, sentVars, upsetVars, readFailed, baseVars>>

AppTruncate ==
    /\ path # 0
    /\ Upset
    /\ files[path] # <<>>
    /\ files' = [files EXCEPT ![path] = <<>>]
    /\ disturbed' = TRUE
    /\ Notify(path, "write")
    /\ UNCHANGED <<path, pieces, watch, readerVars, lastOffset, retry,
                   sessionVars, sentVars, readFailed, baseVars>>

AppRename ==
    /\ path # 0
    /\ Upset
    /\ disturbed' = (disturbed \/ pc # "off")
    /\ path' = 0
    /\ Notify(path, "rename")
    /\ watch' = IF watch = path THEN 0 ELSE watch
    /\ UNCHANGED <<files, pieces, readerVars, lastOffset, retry, sessionVars, sentVars, readFailed, baseVars>>

AppCreate ==
    /\ path = 0
    /\ files' = Append(files, <<>>)
    /\ path' = Len(files) + 1
    /\ UNCHANGED <<pieces, watch, events, readerVars, lastOffset, retry,
                   sessionVars, sentVars, upsetVars, readFailed, baseVars>>

Application == AppWrite \/ AppTruncate \/ AppRename \/ AppCreate

-----------------------------------------------------------------------------
(* runTail: a run of the program starts, with or without --resume, and     *)
(* ends by saving its bookmark or by a crash.                              *)

\* The file at the path is the bookmarked one, or it is read from the start.
ResumeOffset == IF path # 0 /\ path = bookmark.inode THEN bookmark.offset ELSE 0

\* The program is started with --bookmark and, once there is one, --resume.
StartSession ==
    /\ pc = "off"
    /\ sessions < MaxSessions
    /\ sessions' = sessions + 1
    /\ startOffset' = ResumeOffset
    /\ lastOffset' = startOffset'
    /\ status' = "starting"
    /\ GoTo("open")
    /\ UNCHANGED <<kind, follow, ctxDone, stopper, errChan, appVars, watch, events,
                   readerVars, retry, bookmark, sentVars, crashed,
                   inFlight, upsetVars, readFailed>>

\* The process is gone, and with it all that it kept in memory.
ProcessEnds ==
    /\ GoTo("off")
    /\ ctxDone' = FALSE /\ stopper' = "running" /\ status' = "starting" /\ errChan' = 0
    /\ watch' = 0 /\ events' = <<>>
    /\ handle' = 0 /\ fdpos' = 0 /\ buf' = <<>> /\ hand' = <<>> /\ readEnd' = "none" /\ following' = FALSE
    /\ lastOffset' = 0 /\ startOffset' = 0 /\ retry' = 0
    /\ sent' = <<>> /\ readFailed' = FALSE
    /\ UNCHANGED <<kind, follow, appVars, sessions, delivered, upsetVars>>

\* runPipeline has returned and StopAll with it.  The goroutine may still run:
\* LastOffset is read wherever it is, and the inode is that of the path now.
SaveBookmark ==
    /\ pc # "off"
    /\ stopper = "stopped"
    /\ bookmark' = [offset |-> lastOffset, inode |-> path]
    /\ inFlight' = inFlight \cup (IF pc = "count" THEN PieceIds(hand) ELSE {})
    /\ ProcessEnds
    /\ UNCHANGED crashed

Crash ==
    /\ pc # "off"
    /\ crashed' = TRUE
    /\ ProcessEnds
    /\ UNCHANGED <<bookmark, inFlight>>

-----------------------------------------------------------------------------
(* The goroutine: run and readLines.                                       *)

\* What a step of the goroutine leaves alone unless it says otherwise.
NotTailer == UNCHANGED <<kind, follow, ctxDone, stopper, errChan, appVars,
                         sessionVars, disturbed>>

Open ==
    /\ pc = "open"
    /\ IF path = 0
       THEN /\ ReportFailed
            /\ SendErrThen("done")
            /\ UNCHANGED <<handle, fdpos>>
       ELSE /\ ReportHealthy
            /\ GoTo("read")
            /\ handle' = path
            /\ fdpos' = startOffset
    /\ following' = FALSE
    /\ UNCHANGED <<watch, events, buf, hand, readEnd, lastOffset, retry,
                   sentVars, readFailed, upsets>>
    /\ NotTailer

\* The index of the first of ps that ends a line, 0 if there is none.
LineEnd(ps) ==
    IF \E i \in DOMAIN ps : ps[i].kind = "newline"
    THEN CHOOSE i \in DOMAIN ps :
            /\ ps[i].kind = "newline"
            /\ \A j \in 1..(i - 1) : ps[j].kind = "text"
    ELSE 0

\* What a read of the file descriptor would return.
Unread == SubSeq(files[handle], fdpos + 1, Len(files[handle]))

\* ReadString finds a newline in the buffer.
ReadLine ==
    /\ pc = "read"
    /\ ~ctxDone
    /\ LineEnd(buf) # 0
    /\ hand' = SubSeq(buf, 1, LineEnd(buf))
    /\ buf' = SubSeq(buf, LineEnd(buf) + 1, Len(buf))
    /\ readEnd' = "none"
    /\ GoTo("send")
    /\ UNCHANGED <<status, watch, events, handle, fdpos, following, lastOffset,
                   retry, sentVars, readFailed, upsets>>
    /\ NotTailer

\* It finds none, and the file has more.
FillBuffer ==
    /\ pc = "read"
    /\ ~ctxDone
    /\ LineEnd(buf) = 0
    /\ Unread # <<>>
    /\ buf' = buf \o Unread
    /\ fdpos' = Len(files[handle])
    /\ UNCHANGED <<pc, errNext, status, watch, events, handle, hand, readEnd,
                   following, lastOffset, retry, sentVars, readFailed, upsets>>
    /\ NotTailer

\* Where readLines' caller goes on: run sets up the watcher, followFile reports
\* the source healthy, and a read error ends the tailer without a word.
ReadReturns(end) ==
    \/ end = "error" /\ GoTo("done") /\ UNCHANGED status
    \/ end = "eof" /\ following /\ GoTo("select") /\ ReportHealthy
    \/ /\ end = "eof" /\ ~following
       /\ GoTo(IF follow THEN "addWatch" ELSE "done") /\ UNCHANGED status

\* It finds none before the end of the file, or before the read fails: what it
\* has, if anything, is a line all the same, and the last one of this call.
ReadEnds(end) ==
    /\ pc = "read"
    /\ ~ctxDone
    /\ LineEnd(buf) = 0
    /\ end = "eof" => Unread = <<>>
    /\ readEnd' = end
    /\ readFailed' = (readFailed \/ end = "error")
    /\ hand' = buf
    /\ buf' = <<>>
    /\ IF buf # <<>> THEN GoTo("send") /\ UNCHANGED status ELSE ReadReturns(end)
    /\ UNCHANGED <<watch, events, handle, fdpos, following, lastOffset, retry, sentVars, upsets>>
    /\ NotTailer

Ids(ps) == [i \in DOMAIN ps |-> ps[i].id]

\* A line with text is sent, an empty one is only counted.
Send ==
    /\ pc = "send"
    /\ hand[1].kind = "text"
    /\ sent' = sent \o Ids(hand)
    /\ delivered' = delivered \cup PieceIds(hand)
    /\ GoTo("count")
    /\ UNCHANGED <<kind, follow, ctxDone, stopper, errChan, status, appVars,
                   sessionVars, watch, events, readerVars, lastOffset, retry, upsetVars, readFailed>>

SkipBlank ==
    /\ pc = "send"
    /\ hand[1].kind = "newline"
    /\ delivered' = delivered \cup {hand[1].id}
    /\ GoTo("count")
    /\ UNCHANGED <<kind, follow, ctxDone, stopper, errChan, status, appVars,
                   sessionVars, watch, events, readerVars, lastOffset, retry, sent, upsetVars, readFailed>>

\* Mutant: only what is sent is counted, not the newlines in between.
CountedNoBlanks == IF hand[1].kind = "newline" THEN 0 ELSE Len(hand)

Counted == Len(hand)

\* addOffset, after the send: the line is in the channel before it counts.
Count ==
    /\ pc = "count"
    /\ lastOffset' = lastOffset + Counted
    /\ IF readEnd = "none" THEN GoTo("read") /\ UNCHANGED status
                           ELSE ReadReturns(readEnd)
    /\ UNCHANGED <<watch, events, readerVars, retry, sentVars, readFailed, upsets>>
    /\ NotTailer

\* The selects on the context.
Cancelled ==
    /\ pc \in {"read", "send", "select"}
    /\ ctxDone
    /\ pc = "send" => hand[1].kind = "text"
    /\ GoTo("done")
    /\ UNCHANGED <<status, watch, events, readerVars, lastOffset, retry,
                   sentVars, readFailed, upsets>>
    /\ NotTailer

-----------------------------------------------------------------------------
(* The goroutine: followFile.                                              *)

\* Mutant: nobody reports that the file cannot be watched or reopened.
GiveUpSilent == GoTo("done") /\ UNCHANGED status

GiveUp == ReportFailed /\ SendErrThen("done")

\* The watcher is created and the path added: whatever file is there now.
WatchPath(label) ==
    IF path = 0
    THEN GiveUp /\ UNCHANGED watch
    ELSE /\ watch' = path
         /\ GoTo("select")
         /\ IF label = "rewatch" THEN ReportHealthy ELSE UNCHANGED status

AddWatch(label) ==
    /\ pc = label
    /\ WatchPath(label)
    /\ following' = TRUE
    /\ UNCHANGED <<events, handle, fdpos, buf, hand, readEnd, lastOffset, retry,
                   sentVars, readFailed, upsets>>
    /\ NotTailer

\* Mutant: a file that has not grown is taken for a truncated one.
TruncatedOffByOne == Len(files[handle]) <= fdpos

Truncated == Len(files[handle]) < fdpos

\* A write event: handleTruncation, then readLines.
HandleWrite ==
    /\ pc = "select"
    /\ events # <<>>
    /\ Head(events) = "write"
    /\ events' = Tail(events)
    /\ IF Truncated
       THEN fdpos' = 0 /\ buf' = <<>> /\ lastOffset' = 0
       ELSE UNCHANGED <<fdpos, buf, lastOffset>>
    /\ GoTo("read")
    /\ UNCHANGED <<status, watch, handle, hand, readEnd, following, retry,
                   sentVars, readFailed, upsets>>
    /\ NotTailer

\* handleTruncation cannot stat or seek the file.
HandleWriteFails ==
    /\ pc = "select"
    /\ events # <<>>
    /\ Head(events) = "write"
    /\ events' = Tail(events)
    /\ ReportDegraded
    /\ SendErrThen("done")
    /\ UNCHANGED <<watch, readerVars, lastOffset, retry, sentVars,
                   readFailed, upsets>>
    /\ NotTailer

HandleRename ==
    /\ pc = "select"
    /\ events # <<>>
    /\ Head(events) = "rename"
    /\ events' = Tail(events)
    /\ ReportDegraded
    /\ retry' = 0
    /\ GoTo("reopen")
    /\ UNCHANGED <<watch, readerVars, lastOffset, sentVars, readFailed, upsets>>
    /\ NotTailer

\* reopenFile waits, then opens the path; the new file is read from its start,
\* and only at its next write event.
Reopen ==
    /\ pc = "reopen"
    /\ \/ /\ ctxDone
          /\ GiveUp
          /\ UNCHANGED <<handle, fdpos, buf, retry>>
       \/ /\ path # 0
          /\ handle' = path
          /\ fdpos' = 0
          /\ buf' = <<>>
          /\ GoTo("rewatch")
          /\ UNCHANGED <<status, retry>>
       \/ /\ path = 0
          /\ retry' = retry + 1
          /\ IF retry' = ReopenMaxRetry THEN GiveUp
                                        ELSE UNCHANGED <<pc, errNext, status>>
          /\ UNCHANGED <<handle, fdpos, buf>>
    /\ UNCHANGED <<watch, events, hand, readEnd, following, lastOffset,
                   sentVars, readFailed, upsets>>
    /\ NotTailer

\* case watchErr := <-watcher.Errors
WatchError ==
    /\ pc = "select"
    /\ Upset
    /\ ReportDegraded
    /\ SendErrThen("select")
    /\ UNCHANGED <<watch, events, readerVars, lastOffset, retry, sentVars,
                   readFailed>>
    /\ NotTailer

-----------------------------------------------------------------------------
(* The steps the goroutine is bound to take.                               *)
FileGoroutine ==
    \/ Open
    \/ ReadLine \/ FillBuffer \/ ReadEnds("eof")
    \/ Send \/ SkipBlank \/ Count \/ Cancelled
    \/ AddWatch("addWatch") \/ AddWatch("rewatch")
    \/ HandleWrite \/ HandleRename \/ Reopen

FileNext ==
    \/ Application
    \/ StartSession
    \/ SaveBookmark
    \/ Crash
    \/ FileGoroutine
    \/ ReadEnds("error")
    \/ HandleWriteFails
    \/ WatchError

-----------------------------------------------------------------------------
(* Properties.                                                             *)

\* Within one run the tailer sends every piece at most once and in the order in
\* which the application wrote it, whatever partial lines, truncations and
\* rotations it meets on the way.
SentInOrder ==
    \A i, j \in DOMAIN sent : i < j => sent[i] < sent[j]

\* A bookmark is exact for a file that was neither truncated nor rotated under
\* a running tailer: what lies before its offset was sent (by this run or an
\* earlier one), and what lies behind it was not, but for the line that was on
\* its way when the run ended.  After a crash only the first half holds.
BookmarkExact ==
    (pc = "off" /\ bookmark.inode # 0 /\ ~disturbed) =>
        \A i \in DOMAIN files[bookmark.inode] :
            LET id == files[bookmark.inode][i].id
            IN  IF i <= bookmark.offset
                THEN id \in delivered
                ELSE id \in delivered =>
                        crashed \/ id \in inFlight

=============================================================================
