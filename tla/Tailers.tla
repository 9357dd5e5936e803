------------------------------ MODULE Tailers ------------------------------
(***************************************************************************)
(* cmd/tail.go createTailer: a source is read by the tailer of its type.   *)
(* The tailers share the goroutine's life (Tailer), the channel of errors  *)
(* and the health monitor; FileTailer and ProcessTailer are what they do   *)
(* in between.                                                             *)
(***************************************************************************)
EXTENDS FileTailer, ProcessTailer

vars == <<baseVars, fileVars, procVars>>

TypeOK ==
    /\ BaseTypeOK
    /\ FileTypeOK
    /\ ProcTypeOK
    /\ pc \in (IF kind = "file" THEN FileLabels ELSE ProcLabels)
    /\ errNext \in {"done", "select", "wait", "backoff"}

\* The first run of the program; a file source is opened when it starts.
Init ==
    /\ BaseInit
    /\ pc = IF kind = "file" THEN "off" ELSE "start"
    /\ FileInit
    /\ ProcInit

\* createTailer's switch.
Dispatch ==
    \/ kind = "file" /\ FileNext /\ UNCHANGED procVars
    \/ kind # "file" /\ ProcNext /\ UNCHANGED fileVars

Goroutine ==
    \/ kind = "file" /\ FileGoroutine /\ UNCHANGED procVars
    \/ kind # "file" /\ ProcGoroutine /\ UNCHANGED fileVars
    \/ sendErr /\ UNCHANGED <<fileVars, procVars>>

Next ==
    \/ Dispatch
    \/ (sendErr \/ StopCancel \/ StopReport \/ ConsumeErr) /\ UNCHANGED <<fileVars, procVars>>

Spec == Init /\ [][Next]_vars

\* The goroutine is scheduled, Stop runs to its end, and a process is killed;
\* the pipeline takes errors until the tailers are told to stop, and nothing is
\* assumed of it after that.
FairSpec ==
    /\ Spec
    /\ WF_vars(Goroutine)
    /\ WF_vars(StopReport /\ UNCHANGED <<fileVars, procVars>>)
    /\ WF_vars(KillProcess /\ UNCHANGED fileVars)
    /\ WF_vars(~ctxDone /\ ConsumeErr /\ UNCHANGED <<fileVars, procVars>>)

-----------------------------------------------------------------------------
(* Properties.                                                             *)

\* A tailer that follows its source and was not stopped does not end without
\* the source being shown as degraded or failed.  Three ends are silent: a file
\* that cannot be read any more, journalctl exiting as if all were well, and
\* stdin, closed or with a line that is too long.  It holds together with the
\* types, of which the bound on the reconnect delay is one (TypeOK).
EndIsReported ==
    /\ TypeOK
    /\ (pc = "done" /\ follow /\ ~ctxDone) =>
          \/ status \in {"degraded", "failed"}
          \/ kind = "file" /\ readFailed
          \/ kind = "journalctl" /\ proc = "success"
          \/ kind = "stdin"

\* Stop ends the goroutine, also when nobody takes errors any more.  Two can be
\* left behind: journalctl inside a plain send of an error, and stdin inside a
\* read that no context interrupts.
StopEnds ==
    ctxDone ~> \/ pc \in {"done", "off"}
               \/ kind = "journalctl" /\ pc = "errBlocked" /\ errChan = ErrCap
               \/ kind = "stdin" /\ pc = "scan" /\ proc = "running" /\ pos = logLen

=============================================================================
