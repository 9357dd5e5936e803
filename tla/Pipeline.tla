------------------------------ MODULE Pipeline ------------------------------
(***************************************************************************)
(* The path of a line from its source to the output manager, and the       *)
(* shutdown of that path: the tailers (internal/tailer), runPipeline       *)
(* (cmd/pipeline.go), the signal handler, TailerManager.StopAll and the    *)
(* bookmark saved on exit (cmd/tail.go, cmd/tailer_manager.go).            *)
(*                                                                         *)
(* The tailers, the pipeline, the signal handler, main and the flusher of  *)
(* the aggregator are goroutines.  The aggregator is an instance of        *)
(* Aggregator.  The n-th line of source s is <<s, n>>.                     *)
(***************************************************************************)
EXTENDS Naturals, Sequences

CONSTANTS Sources,      \* the configured sources
          MaxLines,     \* bound on the lines of a source
          Passing,      \* the lines that pass ByLevel and the regex filter
          KeyOf,        \* entryKey of a line
          LogCap,       \* capacity of logChan
          ErrCap,       \* capacity of errChan
          Modes,        \* the values of --aggregate explored
          Window, OutputCap, MaxTime

Lines == Sources \X (1..MaxLines)

ASSUME PipelineAssumption ==
    /\ MaxLines \in Nat
    /\ Passing \subseteq Lines
    /\ LogCap \in Nat \ {0}
    /\ ErrCap \in Nat \ {0}
    /\ Modes \subseteq BOOLEAN
    /\ KeyOf \in [Lines -> {KeyOf[l] : l \in Lines}]
    /\ Window \in Nat \ {0}
    /\ OutputCap \in Nat \ {0}
    /\ MaxTime \in Nat

VARIABLES
    aggregate,  \* --aggregate: agg is not nil
    logChan,    \* logChan
    errChan,    \* number of errors in errChan
    tailer,     \* where each tailer goroutine is
    read,       \* lines each tailer has taken from its source
    offset,     \* ft.lastOffset, in lines
    ctxDone,    \* ctx of runTail, from which the tailers' contexts derive
    stopped,    \* tm.stopped is closed
    pipe,       \* where runPipeline is
    saved,      \* the bookmark: the offset of each source, once saved
    written,    \* history: lines handed to the writer by process, in order
    filtered,   \* history: lines that did not pass the filters
    sent,       \* history: lines sent to logChan
    inTime,     \* history: the lines sent before tm.stopped was closed
    entries, output, done, flusher, hand, now, accepted, returned, discarded

aggVars == <<entries, output, done, flusher, hand, now, accepted, returned,
             discarded>>
chanVars == <<logChan, errChan>>
tailVars == <<tailer, read, offset, sent, inTime>>
mainVars == <<aggregate, ctxDone, stopped>>
pipeVars == <<pipe, saved, written, filtered>>

vars == <<chanVars, tailVars, mainVars, pipeVars, aggVars>>

Agg == INSTANCE Aggregator WITH Lines <- Lines

Unsaved == [s \in Sources |-> 0]

SeqLines(q) == {q[i] : i \in 1..Len(q)}

TypeOK ==
    /\ aggregate \in Modes
    /\ logChan \in Seq(Lines)
    /\ Len(logChan) <= LogCap
    /\ errChan \in 0..ErrCap
    /\ tailer \in [Sources -> {"reading", "sending", "sent", "failing", "exited"}]
    /\ read \in [Sources -> 0..MaxLines]
    /\ offset \in [Sources -> 0..MaxLines]
    /\ ctxDone \in BOOLEAN
    /\ stopped \in BOOLEAN
    /\ pipe \in {"running", "flushed", "draining", "sweeping", "returned", "exit"}
    /\ saved \in [Sources -> 0..MaxLines]
    /\ written \in Seq(Lines)
    /\ filtered \in SUBSET Lines
    /\ sent \in SUBSET Lines
    /\ inTime \in SUBSET Lines
    /\ Agg!TypeOK

Init ==
    /\ aggregate \in Modes
    /\ logChan = <<>>
    /\ errChan = 0
    /\ tailer = [s \in Sources |-> "reading"]
    /\ read = Unsaved
    /\ offset = Unsaved
    /\ ctxDone = FALSE
    /\ stopped = FALSE
    /\ pipe = "running"
    /\ saved = Unsaved
    /\ written = <<>>
    /\ filtered = {}
    /\ sent = {}
    /\ inTime = {}
    /\ Agg!Init

-----------------------------------------------------------------------------
(* A tailer goroutine.                                                     *)

\* The process has not exited.
Running == pipe # "exit"

At(s, here, there) ==
    /\ Running
    /\ tailer[s] = here
    /\ tailer' = [tailer EXCEPT ![s] = there]

\* The context is checked, then the next line is read.
ReadLine(s) ==
    /\ At(s, "reading", "sending")
    /\ ~ctxDone
    /\ read[s] < MaxLines
    /\ read' = [read EXCEPT ![s] = @ + 1]
    /\ UNCHANGED <<offset, sent, inTime, chanVars, mainVars, pipeVars, aggVars>>

\* Mutant: a channel one line too large.
LogRoomOffByOne == Len(logChan) <= LogCap

LogRoom == Len(logChan) < LogCap

\* case out <- ll: possible after the context is cancelled too, for select
\* takes any branch that is ready.
SendLine(s) ==
    /\ At(s, "sending", "sent")
    /\ LogRoom
    /\ logChan' = Append(logChan, <<s, read[s]>>)
    /\ sent' = sent \cup {<<s, read[s]>>}
    /\ inTime' = IF stopped THEN inTime ELSE inTime \cup {<<s, read[s]>>}
    /\ UNCHANGED <<errChan, read, offset, mainVars, pipeVars, aggVars>>

\* ft.addOffset(rawLen), after the send.
AddOffset(s) ==
    /\ At(s, "sent", "reading")
    /\ offset' = [offset EXCEPT ![s] = @ + 1]
    /\ UNCHANGED <<read, sent, inTime, chanVars, mainVars, pipeVars, aggVars>>

\* case <-ctx.Done(), between two lines or while a send is blocked.
TailerQuit(s) ==
    /\ ctxDone
    /\ \E here \in {"reading", "sending", "failing"} : At(s, here, "exited")
    /\ UNCHANGED <<read, offset, sent, inTime, chanVars, mainVars, pipeVars,
                   aggVars>>

\* The source ends: the end of the input without --follow, or a read error,
\* which is not reported.
TailerEnds(s) ==
    /\ At(s, "reading", "exited")
    /\ UNCHANGED <<read, offset, sent, inTime, chanVars, mainVars, pipeVars,
                   aggVars>>

\* The source fails: open, watch or child process error.
TailerFails(s) ==
    /\ At(s, "reading", "failing")
    /\ UNCHANGED <<read, offset, sent, inTime, chanVars, mainVars, pipeVars,
                   aggVars>>

\* sendErr, after which the goroutine returns, or goes on if it was an error of
\* the file watcher.
SendErr(s) ==
    /\ \E there \in {"exited", "reading"} : At(s, "failing", there)
    /\ errChan < ErrCap
    /\ errChan' = errChan + 1
    /\ UNCHANGED <<logChan, read, offset, sent, inTime, mainVars, pipeVars,
                   aggVars>>

Tailer(s) ==
    ReadLine(s) \/ SendLine(s) \/ AddOffset(s) \/ TailerQuit(s) \/ SendErr(s)

-----------------------------------------------------------------------------
(* The signal handler: cancel, then StopAll.                               *)

Signal ==
    /\ Running
    /\ ~ctxDone
    /\ ctxDone' = TRUE
    /\ UNCHANGED <<aggregate, stopped, chanVars, tailVars, pipeVars, aggVars>>

\* Mutant: tm.stopped is never closed.
StopAllForgets == FALSE

\* Every tailer's Stop cancels a context derived from ctx, and none waits for
\* its goroutine; then tm.stopped is closed.
StopAll ==
    /\ Running
    /\ ctxDone
    /\ ~stopped
    /\ stopped' = TRUE
    /\ UNCHANGED <<aggregate, ctxDone, chanVars, tailVars, pipeVars, aggVars>>

-----------------------------------------------------------------------------
(* runPipeline.                                                            *)

\* process: filter, then aggregate or write.
Process(line) ==
    \/ /\ line \notin Passing
       /\ filtered' = filtered \cup {line}
       /\ UNCHANGED <<written, aggVars>>
    \/ /\ line \in Passing
       /\ aggregate
       /\ Agg!Process(line)
       /\ UNCHANGED <<written, filtered>>
    \/ /\ line \in Passing
       /\ ~aggregate
       /\ written' = Append(written, line)
       /\ UNCHANGED <<filtered, aggVars>>

\* Mutants: the newest line is taken; the line taken stays in the channel.
ReceivedNewest == logChan[Len(logChan)]
RemainingAll == logChan

Received == Head(logChan)
Remaining == Tail(logChan)

\* case raw := <-logChan, in the three selects.
ReceiveLine ==
    /\ pipe \in {"running", "draining", "sweeping"}
    /\ logChan # <<>>
    /\ logChan' = Remaining
    /\ Process(Received)
    /\ UNCHANGED <<errChan, pipe, saved, tailVars, mainVars>>

\* case err := <-errChan: the error is logged.
ReceiveErr ==
    /\ pipe \in {"running", "draining", "sweeping"}
    /\ errChan > 0
    /\ errChan' = errChan - 1
    /\ UNCHANGED <<logChan, tailVars, mainVars, pipeVars, aggVars>>

\* case expired := <-aggChan, while running.
ReceiveExpired ==
    /\ pipe = "running"
    /\ Agg!Receive
    /\ UNCHANGED <<chanVars, tailVars, mainVars, pipeVars>>

\* case <-ctx.Done(): flushAgg writes what the aggregator holds ...
StartDrain ==
    /\ pipe = "running"
    /\ ctxDone
    /\ pipe' = "flushed"
    /\ IF aggregate THEN Agg!Flush ELSE UNCHANGED aggVars
    /\ UNCHANGED <<saved, written, filtered, chanVars, tailVars, mainVars>>

\* ... and stops it.
StopAggregator ==
    /\ pipe = "flushed"
    /\ pipe' = "draining"
    /\ IF aggregate THEN Agg!Stop ELSE UNCHANGED aggVars
    /\ UNCHANGED <<saved, written, filtered, chanVars, tailVars, mainVars>>

\* case <-stopped, while draining: the final sweep starts.
StartSweep ==
    /\ pipe = "draining"
    /\ stopped
    /\ pipe' = "sweeping"
    /\ UNCHANGED <<saved, written, filtered, chanVars, tailVars, mainVars,
                   aggVars>>

\* Mutant: the sweep looks at the errors only.
SweptErrors == errChan = 0

Swept == logChan = <<>> /\ errChan = 0

\* default of the sweep: both channels are empty, runPipeline returns.
EndSweep ==
    /\ pipe = "sweeping"
    /\ Swept
    /\ pipe' = "returned"
    /\ UNCHANGED <<saved, written, filtered, chanVars, tailVars, mainVars,
                   aggVars>>

\* main, after runPipeline: the second StopAll finds tm.stopped closed, and the
\* bookmark, if one was asked for, is saved when there is a single source.
SaveBookmark ==
    /\ pipe = "returned"
    /\ pipe' = "exit"
    /\ saved' = IF \E s \in Sources : Sources = {s} THEN offset ELSE saved
    /\ UNCHANGED <<written, filtered, chanVars, tailVars, mainVars, aggVars>>

RunPipeline ==
    \/ ReceiveLine
    \/ ReceiveErr
    \/ ReceiveExpired
    \/ StartDrain
    \/ StopAggregator
    \/ StartSweep
    \/ EndSweep
    \/ SaveBookmark

-----------------------------------------------------------------------------
(* The aggregator's goroutine and its clock.                               *)

AggregatorFlusher ==
    /\ Running
    /\ aggregate
    /\ Agg!FlushLoop
    /\ UNCHANGED <<chanVars, tailVars, mainVars, pipeVars>>

AggregatorClock ==
    /\ Running
    /\ aggregate
    /\ Agg!Advance
    /\ UNCHANGED <<chanVars, tailVars, mainVars, pipeVars>>

Next ==
    \/ \E s \in Sources : Tailer(s) \/ TailerEnds(s) \/ TailerFails(s)
    \/ Signal
    \/ StopAll
    \/ RunPipeline
    \/ AggregatorFlusher
    \/ AggregatorClock

Spec == Init /\ [][Next]_vars

\* Goroutines are scheduled.  select chooses at random among the ready
\* branches, so none that stays ready is passed over for ever: weak fairness
\* of StartDrain, StartSweep and TailerQuit on their own.  No signal need ever
\* come, and no source need end or fail.
FairSpec ==
    /\ Spec
    /\ \A s \in Sources : WF_vars(Tailer(s))
    /\ \A s \in Sources : WF_vars(TailerQuit(s))
    /\ WF_vars(StopAll)
    /\ WF_vars(RunPipeline)
    /\ WF_vars(StartDrain)
    /\ WF_vars(StartSweep)

-----------------------------------------------------------------------------
(* Properties.                                                             *)

\* Lines that reached the end of the pipeline: written or filtered out.
Finished == SeqLines(written) \cup returned \cup filtered

\* What the aggregator still holds.
Held == Agg!LinesIn(Agg!Stored) \cup Agg!LinesIn(hand) \cup Agg!Channelled

\* A line a tailer has sent is in the channel, with the aggregator, or done
\* with; it is in one of these places only, and it is written at most once.
SentAccounted ==
    /\ sent = SeqLines(logChan) \cup Held \cup Finished \cup discarded
    /\ SeqLines(logChan) \cap (Held \cup Finished \cup discarded) = {}
    /\ Held \cap (Finished \cup discarded) = {}
    /\ \A i, j \in 1..Len(written) : i # j => written[i] # written[j]

\* Without the aggregator the lines of a source are written in the order in
\* which the source has them, however the tailers interleave.
SourceOrder ==
    LET flow == written \o logChan
    IN  \A i, j \in 1..Len(flow) :
            i < j /\ flow[i][1] = flow[j][1] => flow[i][2] < flow[j][2]

\* Without the aggregator, every line sent before tm.stopped was closed is
\* written or filtered when runPipeline returns.
DrainedInTime ==
    pipe \in {"returned", "exit"} /\ ~aggregate => inTime \subseteq Finished

\* "so lines already emitted by tailers are not lost on shutdown", with the
\* aggregator too.
NotLostOnShutdown ==
    pipe \in {"returned", "exit"} => inTime \subseteq Finished

\* After a signal the program ends: no tailer, channel or StopAll can keep
\* runPipeline from returning.
SignalEnds == ctxDone ~> pipe = "exit"

=============================================================================
