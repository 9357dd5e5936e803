--------------------------- MODULE ProcessTailer ---------------------------
(***************************************************************************)
(* internal/tailer: the tailers that read the output of another process.   *)
(* docker logs, kubectl logs and journalctl are started by the tailer and  *)
(* killed when its context is cancelled; stdin is simply there.            *)
(*                                                                         *)
(* The log of the source is its lines 1..logLen.  A process that is        *)
(* started prints it from line 1, and with -f goes on.                     *)
(***************************************************************************)
EXTENDS Tailer

CONSTANTS MaxLines,     \* bound on the length of the log
          MaxExits,     \* bound on the exits of the process by itself
          BaseDelay,    \* reconnectBaseDelay
          MaxDelay      \* reconnectMaxDelay

ASSUME ProcessTailerAssumption ==
    /\ MaxLines \in Nat
    /\ MaxExits \in Nat
    /\ BaseDelay \in Nat \ {0}
    /\ MaxDelay \in Nat /\ BaseDelay <= MaxDelay

VARIABLES
    proc,       \* the process: its exit status once it has exited
    logLen,     \* length of the log
    pos,        \* lines of this process that have been scanned
    delay,      \* the next back-off of runWithReconnect
    exits,      \* history: exits of the process by itself
    emitted,    \* history: number of different lines sent
    repeated    \* history: some line has been sent again

procVars == <<proc, logLen, pos, delay, exits, emitted, repeated>>

ProcLabels == {"start", "scan", "send", "wait", "exited", "backoff",
               "errBlocked", "sendErr", "done"}

ProcTypeOK ==
    /\ proc \in {"none", "running", "success", "failure"}
    /\ logLen \in 0..MaxLines
    /\ pos \in 0..MaxLines
    /\ delay \in BaseDelay..MaxDelay
    /\ exits \in 0..MaxExits
    /\ emitted \in 0..MaxLines
    /\ repeated \in BOOLEAN

ProcInit ==
    /\ proc = IF kind = "stdin" THEN "running" ELSE "none"
    /\ logLen = 0
    /\ pos = 0
    /\ delay = BaseDelay
    /\ exits = 0
    /\ emitted = 0
    /\ repeated = FALSE

Exited == proc \in {"success", "failure"}

-----------------------------------------------------------------------------
(* The source and its process.                                             *)

NewLine ==
    /\ logLen < MaxLines
    /\ logLen' = logLen + 1
    /\ UNCHANGED <<proc, pos, delay, exits, emitted, repeated, baseVars>>

\* The container stops, the pod is deleted, stdin is closed, the command fails.
ProcessExits ==
    /\ proc = "running"
    /\ exits < MaxExits
    /\ exits' = exits + 1
    /\ proc' \in {"success", "failure"}
    /\ UNCHANGED <<logLen, pos, delay, emitted, repeated, baseVars>>

\* exec.CommandContext kills the process once the context is cancelled.
KillProcess ==
    /\ proc = "running"
    /\ ctxDone
    /\ kind # "stdin"
    /\ proc' = "failure"
    /\ UNCHANGED <<logLen, pos, delay, exits, emitted, repeated, baseVars>>

-----------------------------------------------------------------------------
(* The steps of run.                                                       *)

NotGoroutine == UNCHANGED <<kind, follow, ctxDone, stopper, errChan, logLen, exits>>

StartProcess ==
    /\ pc = "start"
    /\ ~ctxDone
    /\ proc' = "running"
    /\ pos' = 0
    /\ ReportHealthy
    /\ GoTo("scan")
    /\ UNCHANGED <<delay, emitted, repeated>>
    /\ NotGoroutine

\* There is no such command, no pipe, or the context is already cancelled.
StartFails ==
    /\ pc = "start"
    /\ ReportFailed
    /\ SendErrThen("done")
    /\ UNCHANGED <<proc, pos, delay, emitted, repeated>>
    /\ NotGoroutine

\* scanner.Scan returns a line; empty ones are left out of the log.
ScanLine ==
    /\ pc = "scan"
    /\ proc # "none"
    /\ pos < logLen
    /\ pos' = pos + 1
    /\ GoTo(IF ctxDone THEN "done" ELSE "send")
    /\ UNCHANGED <<status, proc, delay, emitted, repeated>>
    /\ NotGoroutine

SendLine ==
    /\ pc = "send"
    /\ emitted' = IF pos > emitted THEN pos ELSE emitted
    /\ repeated' = (repeated \/ pos <= emitted)
    /\ GoTo("scan")
    /\ UNCHANGED <<status, proc, pos, delay>>
    /\ NotGoroutine

SendCancelled ==
    /\ pc = "send"
    /\ ctxDone
    /\ GoTo("done")
    /\ UNCHANGED <<status, proc, pos, delay, emitted, repeated>>
    /\ NotGoroutine

\* The pipe is closed: the process has exited, and may have left the log unread.
ScanEnds(label) ==
    /\ pc = "scan"
    /\ Exited
    /\ GoTo(label)
    /\ UNCHANGED <<status, proc, pos, delay, emitted, repeated>>
    /\ NotGoroutine

\* A line longer than maxLineSize, or a read error: the scan is over, and nobody
\* reads the pipe of a process that may go on for ever.
ScanFails(send) ==
    /\ pc = "scan"
    /\ pos < logLen
    /\ IF ctxDone THEN GoTo("wait") /\ UNCHANGED status
                  ELSE ReportDegraded /\ send
    /\ UNCHANGED <<proc, pos, delay, emitted, repeated>>
    /\ NotGoroutine

\* stdin does not ask why its scan has ended.
ScanStops ==
    /\ pc = "scan"
    /\ pos < logLen
    /\ GoTo("done")
    /\ UNCHANGED <<status, proc, pos, delay, emitted, repeated>>
    /\ NotGoroutine

\* journalctl sends its last errors without watching the context.
SendErrBlocked(label) == pc' = "errBlocked" /\ errNext' = label

ErrBlocked ==
    /\ pc = "errBlocked"
    /\ errChan < ErrCap
    /\ errChan' = errChan + 1
    /\ pc' = errNext
    /\ UNCHANGED <<kind, follow, errNext, ctxDone, stopper, status, procVars>>

\* cmd.Wait returns once the process has exited.
WaitReturns == pc = "wait" /\ Exited

WaitQuiet(label) ==
    /\ WaitReturns
    /\ GoTo(label)
    /\ UNCHANGED <<status, proc, pos, delay, emitted, repeated>>
    /\ NotGoroutine

WaitReports(report, send) ==
    /\ WaitReturns
    /\ report
    /\ send
    /\ UNCHANGED <<proc, pos, delay, emitted, repeated>>
    /\ NotGoroutine

Unexpected == proc = "failure" /\ ~ctxDone

-----------------------------------------------------------------------------
(* docker logs and kubectl logs: one session, and the loop around it.      *)

ScanSteps == StartProcess \/ StartFails \/ ScanLine \/ SendLine \/ SendCancelled

\* Mutant: the end of a one-shot read is an exit to reconnect from.
LogsSessionAlwaysReconnects ==
    \/ ScanSteps
    \/ ScanEnds("wait")
    \/ ScanFails(SendErrThen("wait"))
    \/ WaitQuiet("exited")

\* Without follow a finished process is the end, with follow a reason to
\* reconnect; only the first reports a failure itself.
LogsSession ==
    \/ ScanSteps
    \/ ScanEnds("wait")
    \/ ScanFails(SendErrThen("wait"))
    \/ follow /\ WaitQuiet("exited")
    \/ ~follow /\ ~Unexpected /\ WaitQuiet("done")
    \/ ~follow /\ Unexpected /\ WaitReports(ReportDegraded, SendErrThen("done"))

DockerRun == kind = "docker" /\ LogsSession

KubernetesRun == kind = "kubernetes" /\ LogsSession

NextDelay == IF 2 * delay > MaxDelay THEN MaxDelay ELSE 2 * delay

\* Mutant: one reconnect, then never again.
ReconnectOnce ==
    /\ \/ pc = "exited" /\ GoTo("backoff") /\ ReportDegraded /\ UNCHANGED delay
       \/ pc = "backoff" /\ delay = BaseDelay /\ GoTo("start") /\ delay' = NextDelay
                         /\ UNCHANGED status
    /\ UNCHANGED <<proc, pos, emitted, repeated>>
    /\ NotGoroutine

\* runWithReconnect after a session: the exit is reported, and after a back-off
\* the log is read again, from its first line.
Reconnect ==
    /\ \/ pc \in {"exited", "backoff"} /\ ctxDone /\ GoTo("done") /\ UNCHANGED <<status, delay>>
       \/ pc = "exited" /\ ~ctxDone /\ ReportDegraded /\ SendErrThen("backoff") /\ UNCHANGED delay
       \/ pc = "backoff" /\ GoTo("start") /\ delay' = NextDelay /\ UNCHANGED status
    /\ UNCHANGED <<proc, pos, emitted, repeated>>
    /\ NotGoroutine

DockerReconnect == kind = "docker" /\ Reconnect

KubernetesReconnect == kind = "kubernetes" /\ Reconnect

-----------------------------------------------------------------------------
(* journalctl: one session, no reconnect.                                  *)

JournalctlRun ==
    /\ kind = "journalctl"
    /\ \/ ScanSteps
       \/ ScanEnds("wait")
       \/ ScanFails(SendErrBlocked("wait"))
       \/ ~Unexpected /\ WaitQuiet("done")
       \/ Unexpected /\ WaitReports(ReportFailed, SendErrBlocked("done"))
       \/ ErrBlocked

-----------------------------------------------------------------------------
(* stdin: no process to start or to wait for, no error to report.          *)

StdinRun ==
    /\ kind = "stdin"
    /\ \/ /\ pc = "start"
          /\ ReportHealthy
          /\ GoTo("scan")
          /\ UNCHANGED <<proc, pos, delay, emitted, repeated>>
          /\ NotGoroutine
       \/ ScanLine \/ SendLine \/ SendCancelled
       \/ ScanEnds("done") \/ ScanStops

-----------------------------------------------------------------------------
ProcGoroutine ==
    \/ DockerRun \/ DockerReconnect
    \/ KubernetesRun \/ KubernetesReconnect
    \/ JournalctlRun
    \/ StdinRun

ProcNext == NewLine \/ ProcessExits \/ KillProcess \/ ProcGoroutine

-----------------------------------------------------------------------------
(* Properties.                                                             *)

\* A source that is read once is sent once: without follow the end of the
\* process never makes a tailer print the log again.
OneShotOnce == ~follow => ~repeated

\* A container that is followed is read to the end again after each exit.  As
\* long as it is not stopped, the tailer keeps catching up with the log, unless
\* it says that it has failed, or is left waiting for a process whose output it
\* gave up reading.
FollowCatchesUp ==
    (kind \in {"docker", "kubernetes"} /\ follow) =>
        []<>(\/ emitted = logLen
             \/ ctxDone
             \/ status = "failed"
             \/ pc = "wait" /\ proc = "running" /\ status = "degraded")

=============================================================================
