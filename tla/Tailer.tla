------------------------------- MODULE Tailer -------------------------------
(***************************************************************************)
(* internal/tailer: what every tailer shares.  A tailer is one goroutine   *)
(* that reads a source, sends its lines and reports the health of the      *)
(* source; Stop, called from another goroutine, cancels its context and    *)
(* marks the source as stopped, and does not wait for the goroutine.       *)
(***************************************************************************)
EXTENDS Naturals, Sequences

CONSTANTS ErrCap    \* errBufSize

ASSUME TailerAssumption == ErrCap \in Nat \ {0}

VARIABLES
    kind,       \* the source type createTailer dispatches on
    follow,     \* the source's Follow
    pc,         \* where the goroutine is; "off" when no process runs
    errNext,    \* where it goes once sendErr returns
    ctxDone,    \* its context is cancelled
    stopper,    \* progress of the goroutine that calls Stop
    status,     \* the status of the source in the health monitor
    errChan     \* number of errors waiting in errChan

baseVars == <<kind, follow, pc, errNext, ctxDone, stopper, status, errChan>>

Kinds == {"file", "docker", "kubernetes", "journalctl", "stdin"}

Statuses == {"starting", "healthy", "degraded", "failed", "stopped"}

BaseTypeOK ==
    /\ kind \in Kinds
    /\ follow \in BOOLEAN
    /\ ctxDone \in BOOLEAN
    /\ stopper \in {"running", "cancelled", "stopped"}
    /\ status \in Statuses
    /\ errChan \in 0..ErrCap

\* createTailer: the constructor registers the source with the monitor, and
\* StdinTailer has no Follow to speak of.
BaseInit ==
    /\ kind \in Kinds
    /\ follow \in (IF kind = "stdin" THEN {TRUE} ELSE BOOLEAN)
    /\ errNext = "done"
    /\ ctxDone = FALSE
    /\ stopper = "running"
    /\ status = "starting"
    /\ errChan = 0

-----------------------------------------------------------------------------
(* Steps of the goroutine.                                                 *)

ReportHealthy  == status' = "healthy"
ReportDegraded == status' = "degraded"
ReportFailed   == status' = "failed"

GoTo(label) == pc' = label /\ UNCHANGED errNext

\* sendErr is about to be called; the goroutine continues at label after it.
SendErrThen(label) == pc' = "sendErr" /\ errNext' = label

\* Mutant: sendErr without its select on the context.
SendErrBlocking ==
    /\ pc = "sendErr"
    /\ errChan < ErrCap
    /\ errChan' = errChan + 1
    /\ pc' = errNext
    /\ UNCHANGED <<kind, follow, errNext, ctxDone, stopper, status>>

sendErr ==
    /\ pc = "sendErr"
    /\ \/ errChan < ErrCap /\ errChan' = errChan + 1
       \/ ctxDone /\ UNCHANGED errChan
    /\ pc' = errNext
    /\ UNCHANGED <<kind, follow, errNext, ctxDone, stopper, status>>

-----------------------------------------------------------------------------
(* The rest of the process.                                                *)

\* Stop: cancel ...
StopCancel ==
    /\ stopper = "running"
    /\ pc # "off"
    /\ stopper' = "cancelled"
    /\ ctxDone' = TRUE
    /\ UNCHANGED <<kind, follow, pc, errNext, status, errChan>>

\* ... and ReportStopped, which the goroutine's own reports may follow.
StopReport ==
    /\ stopper = "cancelled"
    /\ stopper' = "stopped"
    /\ status' = "stopped"
    /\ UNCHANGED <<kind, follow, pc, errNext, ctxDone, errChan>>

\* runPipeline takes an error off errChan: until it has returned, which it
\* does only after the tailers were told to stop.
ConsumeErr ==
    /\ errChan > 0
    /\ errChan' = errChan - 1
    /\ UNCHANGED <<kind, follow, pc, errNext, ctxDone, stopper, status>>

=============================================================================
