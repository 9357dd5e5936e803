--------------------------- MODULE OutputManager ---------------------------
(***************************************************************************)
(* cmd/output_manager.go: the hot-swappable output of the log pipeline.    *)
(*                                                                         *)
(* Four goroutines meet here.  The pipeline calls Write, which enqueues a  *)
(* line or drops it; the configuration watcher calls Swap, which blocks    *)
(* until its request is queued or the manager is cancelled; main calls     *)
(* Close once the pipeline has returned; and the writer goroutine          *)
(* (writerLoop) takes events off the queue, writing a line to the current  *)
(* writer or replacing the writer.                                         *)
(*                                                                         *)
(* Writers are numbered in the order in which they are installed.          *)
(***************************************************************************)
EXTENDS Naturals, Sequences

CONSTANTS Lines,      \* the log lines the pipeline may write
          Swap,       \* a hot-reload request in the queue
          QueueCap,   \* outputQueueBuffer
          MaxEvents   \* bound on the calls of Write and Swap explored

ASSUME OutputManagerAssumption ==
    /\ Swap \notin Lines
    /\ QueueCap \in Nat \ {0}
    /\ MaxEvents \in Nat

VARIABLES
    queue,      \* om.queue
    writer,     \* om.writer
    closed,     \* writers whose Close has been called
    dropped,    \* om.dropped
    ctxDone,    \* om.ctx is cancelled
    loop,       \* where the writer goroutine is
    draining,   \* the writer goroutine is in drainQueue
    hand,       \* the event the writer goroutine took last
    target,     \* the writer it works on: w of writeOne, old of performSwap
    pipeline,   \* "running" until runPipeline returns
    swapper,    \* "blocked" while the watcher is inside Swap
    closer,     \* progress of main inside Close
    enqueued,   \* history: every event ever put in the queue
    handled     \* history: every event taken and done with, and its writer

vars == <<queue, writer, closed, dropped, ctxDone, loop, draining, hand,
          target, pipeline, swapper, closer, enqueued, handled>>

Event == Lines \cup {Swap}

\* What happened to an event: the writer a line was handed to, or the writer
\* in place after a swap request was served.
Outcome == [ev : Event, writer : Nat]

TypeOK ==
    /\ queue \in Seq(Event)
    /\ Len(queue) <= QueueCap
    /\ writer \in Nat
    /\ closed \in SUBSET Nat
    /\ dropped \in Nat
    /\ ctxDone \in BOOLEAN
    /\ loop \in {"select", "write", "swap", "closeOld", "exited"}
    /\ draining \in BOOLEAN
    /\ hand \in Event
    /\ target \in Nat
    /\ pipeline \in {"running", "returned"}
    /\ swapper \in {"idle", "blocked"}
    /\ closer \in {"open", "waiting", "closed"}
    /\ enqueued \in Seq(Event)
    /\ handled \in Seq(Outcome)

Init ==
    /\ queue = <<>>
    /\ writer = 0
    /\ closed = {}
    /\ dropped = 0
    /\ ctxDone = FALSE
    /\ loop = "select"
    /\ draining = FALSE
    /\ hand = Swap
    /\ target = 0
    /\ pipeline = "running"
    /\ swapper = "idle"
    /\ closer = "open"
    /\ enqueued = <<>>
    /\ handled = <<>>

-----------------------------------------------------------------------------
(* The pipeline goroutine.                                                 *)

\* Mutants: a channel one event too large; a swap request that overtakes the
\* lines queued before it.
HasRoomOffByOne == Len(queue) <= QueueCap
EnqueueSwapFirst(ev) ==
    /\ queue' = IF ev = Swap THEN <<ev>> \o queue ELSE Append(queue, ev)
    /\ enqueued' = Append(enqueued, ev)

HasRoom == Len(queue) < QueueCap

Enqueue(ev) ==
    /\ queue' = Append(queue, ev)
    /\ enqueued' = Append(enqueued, ev)

\* Write never blocks: with the queue full the line is dropped and counted.
Write(line) ==
    /\ pipeline = "running"
    /\ Len(enqueued) + dropped < MaxEvents
    /\ \/ /\ HasRoom
          /\ Enqueue(line)
          /\ UNCHANGED dropped
       \/ /\ ~HasRoom
          /\ dropped' = dropped + 1
          /\ UNCHANGED <<queue, enqueued>>
    /\ UNCHANGED <<writer, closed, ctxDone, loop, draining, hand, target,
                   pipeline, swapper, closer, handled>>

PipelineReturn ==
    /\ pipeline = "running"
    /\ pipeline' = "returned"
    /\ UNCHANGED <<queue, writer, closed, dropped, ctxDone, loop, draining,
                   hand, target, swapper, closer, enqueued, handled>>

-----------------------------------------------------------------------------
(* The configuration watcher, inside Swap: a select between the queue and  *)
(* om.ctx.Done(), either branch of which may be taken when both are ready. *)

SwapCall ==
    /\ swapper = "idle"
    /\ Len(enqueued) + dropped < MaxEvents
    /\ swapper' = "blocked"
    /\ UNCHANGED <<queue, writer, closed, dropped, ctxDone, loop, draining,
                   hand, target, pipeline, closer, enqueued, handled>>

\* Mutants: the swap is performed by the caller, while the writer goroutine
\* may be writing; Swap does not watch om.ctx.
SwapEnqueueInPlace ==
    /\ swapper = "blocked"
    /\ writer' = writer + 1
    /\ closed' = closed \cup {writer}
    /\ swapper' = "idle"
    /\ UNCHANGED <<queue, dropped, ctxDone, loop, draining, hand, target,
                   pipeline, closer, enqueued, handled>>
SwapGiveUpNever == FALSE

SwapEnqueue ==
    /\ swapper = "blocked"
    /\ HasRoom
    /\ Enqueue(Swap)
    /\ swapper' = "idle"
    /\ UNCHANGED <<writer, closed, dropped, ctxDone, loop, draining, hand,
                   target, pipeline, closer, handled>>

SwapGiveUp ==
    /\ swapper = "blocked"
    /\ ctxDone
    /\ swapper' = "idle"
    /\ UNCHANGED <<queue, writer, closed, dropped, ctxDone, loop, draining,
                   hand, target, pipeline, closer, enqueued, handled>>

-----------------------------------------------------------------------------
(* The writer goroutine.                                                   *)

\* case ev := <-om.queue, in writerLoop and in drainQueue.  writeOne reads
\* om.writer before it writes.
TakeEvent ==
    /\ loop = "select"
    /\ queue # <<>>
    /\ hand' = Head(queue)
    /\ queue' = Tail(queue)
    /\ target' = writer
    /\ loop' = IF Head(queue) = Swap THEN "swap" ELSE "write"
    /\ UNCHANGED <<writer, closed, dropped, ctxDone, draining, pipeline,
                   swapper, closer, enqueued, handled>>

Done(w) == handled' = Append(handled, [ev |-> hand, writer |-> w])

\* w.Write(line) returns; an error is only logged.
WriteOne ==
    /\ loop = "write"
    /\ loop' = "select"
    /\ Done(target)
    /\ UNCHANGED <<queue, writer, closed, dropped, ctxDone, draining, hand,
                   target, pipeline, swapper, closer, enqueued>>

\* performSwap: createWriter failed, the old writer stays.
SwapFails ==
    /\ loop = "swap"
    /\ loop' = "select"
    /\ Done(writer)
    /\ UNCHANGED <<queue, writer, closed, dropped, ctxDone, draining, hand,
                   target, pipeline, swapper, closer, enqueued>>

\* performSwap: the new writer replaces the old one ...
SwapInstall ==
    /\ loop = "swap"
    /\ target' = writer
    /\ writer' = writer + 1
    /\ loop' = "closeOld"
    /\ UNCHANGED <<queue, closed, dropped, ctxDone, draining, hand, pipeline,
                   swapper, closer, enqueued, handled>>

\* ... and then the old one is closed.
SwapCloseOld ==
    /\ loop = "closeOld"
    /\ closed' = closed \cup {target}
    /\ loop' = "select"
    /\ Done(writer)
    /\ UNCHANGED <<queue, writer, dropped, ctxDone, draining, hand, target,
                   pipeline, swapper, closer, enqueued>>

ShutdownSeen == ctxDone

\* case <-om.ctx.Done(): drainQueue starts.
StartDrain ==
    /\ loop = "select"
    /\ ShutdownSeen
    /\ ~draining
    /\ draining' = TRUE
    /\ UNCHANGED <<queue, writer, closed, dropped, ctxDone, loop, hand, target,
                   pipeline, swapper, closer, enqueued, handled>>

\* Mutant: the loop returns without draining.
DrainedAtOnce == TRUE

Drained == queue = <<>>

\* drainQueue's default branch: the loop returns and om.done is closed.
DrainDone ==
    /\ loop = "select"
    /\ draining
    /\ Drained
    /\ loop' = "exited"
    /\ UNCHANGED <<queue, writer, closed, dropped, ctxDone, draining, hand,
                   target, pipeline, swapper, closer, enqueued, handled>>

-----------------------------------------------------------------------------
(* main, in the deferred Close: runPipeline has returned by then.          *)

CloseCancel ==
    /\ closer = "open"
    /\ pipeline = "returned"
    /\ ctxDone' = TRUE
    /\ closer' = "waiting"
    /\ UNCHANGED <<queue, writer, closed, dropped, loop, draining, hand, target,
                   pipeline, swapper, enqueued, handled>>

CloseWriter ==
    /\ closer = "waiting"
    /\ loop = "exited"
    /\ closed' = closed \cup {writer}
    /\ closer' = "closed"
    /\ UNCHANGED <<queue, writer, dropped, ctxDone, loop, draining, hand,
                   target, pipeline, swapper, enqueued, handled>>

-----------------------------------------------------------------------------
WriterLoop ==
    \/ TakeEvent
    \/ WriteOne
    \/ SwapFails
    \/ SwapInstall
    \/ SwapCloseOld
    \/ StartDrain
    \/ DrainDone

SwapReturns == SwapEnqueue \/ SwapGiveUp

Closing == CloseCancel \/ CloseWriter

Next ==
    \/ \E line \in Lines : Write(line)
    \/ PipelineReturn
    \/ SwapCall
    \/ SwapReturns
    \/ WriterLoop
    \/ Closing

Spec == Init /\ [][Next]_vars

\* The goroutines inside the manager are scheduled; a write ends because the
\* writers bound their own calls; the deferred Close runs.  Nothing forces the
\* pipeline to return or the watcher to ask for a swap.
FairSpec == Spec /\ WF_vars(WriterLoop) /\ WF_vars(SwapReturns) /\ WF_vars(Closing)

-----------------------------------------------------------------------------
(* Properties.                                                             *)

\* Events taken off the queue so far.
Taken == Len(handled) + (IF loop \in {"write", "swap", "closeOld"} THEN 1 ELSE 0)

\* Every line Write accepted and every queued swap is handled exactly once, in
\* the order in which it was accepted: handled, in hand and queue are the
\* history of the queue, cut in three.
HandledInOrder ==
    /\ Len(enqueued) = Taken + Len(queue)
    /\ \A i \in 1..Len(queue) : queue[i] = enqueued[Taken + i]
    /\ \A i \in 1..Len(handled) : handled[i].ev = enqueued[i]
    /\ Taken > Len(handled) => hand = enqueued[Taken]

\* The writer in place when the i-th event is taken.
WriterBefore(i) == IF i = 1 THEN 0 ELSE handled[i - 1].writer

\* A swap splits the stream of lines: a line goes to the writer left by the
\* swaps queued before it, never to one installed by a later swap.
SwapSplitsStream ==
    \A i \in 1..Len(handled) :
        IF handled[i].ev = Swap
        THEN handled[i].writer \in {WriterBefore(i), WriterBefore(i) + 1}
        ELSE handled[i].writer = WriterBefore(i)

\* "no line is ever written to a writer that is being closed"
NoWriteToClosed == loop = "write" => target \notin closed

\* When Close returns no accepted line is left in the queue, and every writer
\* that was ever installed has been closed, and so has flushed.
CloseDrains ==
    closer = "closed" =>
        /\ \A i \in 1..Len(queue) : queue[i] = Swap
        /\ closed = 0..writer

\* "a swap (and the closing of the old writer) only happens after every queued
\* line has been written": when a writer is closed, a line that is not written
\* yet was accepted behind a swap that is not finished yet, and the writer in
\* place is closed by Close alone.
ClosedAfterItsLines ==
    [][closed' # closed =>
         /\ \A i \in (Len(handled) + 1)..Len(enqueued) :
               enqueued[i] # Swap =>
                 \E j \in (Len(handled) + 1)..(i - 1) : enqueued[j] = Swap
         /\ writer \in closed' => closer' = "closed"]_vars

\* The manager implements the stream of OutputStream: the queue, the event in
\* hand, the swap in two halves and the shutdown are invisible in it.  It takes
\* the writer in place to be the one the last finished event left.
Stream == INSTANCE OutputStream
            WITH accepted  <- enqueued,
                 delivered <- handled,
                 current   <- WriterBefore(Len(handled) + 1),
                 refused   <- dropped,
                 ended     <- closer = "closed"

\* Every accepted line is written, once, in order and by the writer the swaps
\* before it left, before Close returns; only lines that are counted are refused.
ImplementsStream == Stream!FairStreamSpec

\* The calls that wait return.  Close does, because the writer goroutine drains
\* and exits; Swap never blocks the configuration watcher for ever, not even when
\* it meets a full queue or a manager that is shutting down.
CallsReturn ==
    /\ closer = "waiting" ~> closer = "closed"
    /\ swapper = "blocked" ~> swapper = "idle"

=============================================================================
