------------------------------ MODULE Writers ------------------------------
(***************************************************************************)
(* The writers of an output together: cmd/writers.go opens them in order,  *)
(* and internal/output/multi_writer.go passes every line to one after the  *)
(* other and closes them all.  Here these are the console (or standard     *)
(* output as JSON), the file and the webhook.                              *)
(*                                                                         *)
(* One goroutine, the worker of the output manager, calls Write for one    *)
(* line after the other and then Close.                                    *)
(***************************************************************************)
EXTENDS FileWriter, WebhookWriter

CONSTANTS Lines,        \* lines: the length when formatted, and the level
          Configs,      \* configurations of the file and the webhook output
          OldSizes      \* sizes of the file an earlier run has left

\* A formatted line is not empty: it ends in a newline.
ASSUME WritersAssumption ==
    /\ Lines \subseteq [len : Nat \ {0}, level : STRING]
    /\ Configs \subseteq [maxSize : Nat, maxAge : Nat, compress : BOOLEAN, batchSize : Int,
                         minLevel : STRING]
    /\ OldSizes \subseteq Nat
    /\ 1..MaxWrites \subseteq Items

VARIABLES
    cfg,        \* the configuration the writers are made from
    caller,     \* where the caller is
    line,       \* the line it is passing on
    count       \* number of lines so far: their identities

callerVars == <<caller, line, count>>
writersVars == <<fileVars, webhookVars, cfg, callerVars>>

NoLine == [len |-> 0, level |-> ""]

WritersTypeOK ==
    /\ FileTypeOK
    /\ WebhookTypeOK
    /\ cfg \in Configs
    /\ caller \in {"file", "webhook", "failed", "idle", "fileWrite", "webhookWrite",
                   "flush", "post", "webhookClose", "wait", "final", "closed"}
    /\ line \in Lines \cup {NoLine}
    /\ count \in 0..MaxWrites

WritersInit ==
    /\ cfg \in Configs
    /\ \E bytes \in OldSizes : FileInit(bytes, cfg)
    /\ WebhookInit
    /\ caller = "file"
    /\ line = NoLine
    /\ count = 0

Go(from, to) ==
    /\ caller = from
    /\ caller' = to

\* The line is forgotten when the call returns.
Stay ==
    /\ line' = IF caller' = "idle" THEN NoLine ELSE line
    /\ UNCHANGED <<cfg, count>>

-----------------------------------------------------------------------------
(* createWriter: one writer after the other; the first that cannot be made *)
(* ends it, and the writers made before are not closed.                    *)

OpenFile ==
    /\ Go("file", "webhook")
    /\ NewFileWriter
    /\ Stay /\ UNCHANGED webhookVars

OpenFileFails ==
    /\ Go("file", "failed")
    /\ Stay /\ UNCHANGED <<fileVars, webhookVars>>

OpenWebhook ==
    /\ Go("webhook", "idle")
    /\ NewWebhookWriter(cfg.batchSize)
    /\ Stay /\ UNCHANGED fileVars

OpenWebhookFails ==
    /\ Go("webhook", "failed")
    /\ ~Acceptable(cfg.batchSize)
    /\ Stay /\ UNCHANGED <<fileVars, webhookVars>>

createWriter == OpenFile \/ OpenFileFails \/ OpenWebhook \/ OpenWebhookFails

-----------------------------------------------------------------------------
(* MultiWriter.Write.                                                      *)

\* The console writer, or the JSON writer, comes first: it keeps no state, and its
\* output may fail.
PrimaryWrite(l) ==
    /\ count < MaxWrites
    /\ caller = "idle"
    /\ caller' \in {"fileWrite", "idle"}
    /\ line' = IF caller' = "idle" THEN NoLine ELSE l
    /\ count' = count + 1
    /\ UNCHANGED <<fileVars, webhookVars, cfg>>

\* The first error ends the call.  The webhook writer returns at once for a line
\* below its level.
FileWrite ==
    /\ caller = "fileWrite"
    /\ \E ok \in BOOLEAN :
          /\ Write(count, line.len, ok)
          /\ caller' = IF ok /\ Level(line.level) >= Level(cfg.minLevel)
                       THEN "webhookWrite" ELSE "idle"
    /\ Stay /\ UNCHANGED webhookVars

WebhookWrite ==
    /\ caller = "webhookWrite"
    /\ Accept(count)
    /\ caller' = IF Fills THEN "flush" ELSE "idle"
    /\ Stay /\ UNCHANGED fileVars

\* The caller that fills the buffer calls flush, which takes the lock again: the
\* ticker may have been faster.
WebhookFlush ==
    /\ Go("flush", IF buffer = <<>> THEN "idle" ELSE "post")
    /\ Take("caller")
    /\ Stay /\ UNCHANGED <<fileVars, batchSize, cancelled, loop, accepted, received, dropped>>

\* flush returns to Write, with or without an error.
WebhookPosted ==
    /\ Go("post", "idle")
    /\ \E ok \in BOOLEAN : Post("caller", ok)
    /\ Stay /\ UNCHANGED <<fileVars, loop>>

MultiWrite ==
    \/ \E l \in Lines : PrimaryWrite(l)
    \/ FileWrite \/ WebhookWrite \/ WebhookFlush \/ WebhookPosted

-----------------------------------------------------------------------------
(* MultiWriter.Close: every writer is closed, whatever the others return.  *)

\* Mutant: an error ends Close.  The file is closed already after a rotation
\* that failed.
AfterFileCloseFirst == IF handle = "closed" THEN "closed" ELSE "webhookClose"

AfterFileClose == "webhookClose"

FileClose ==
    /\ Go("idle", AfterFileClose)
    /\ CloseFile
    /\ Stay /\ UNCHANGED webhookVars

\* WebhookWriter.Close: cancel, wait for the loop, post what is left.
WebhookCancel ==
    /\ Go("webhookClose", "wait")
    /\ cancelled' = TRUE
    /\ Stay /\ UNCHANGED <<fileVars, batchSize, buffer, loop, inFlight, accepted, received, dropped>>

FinalFlush ==
    /\ Go("wait", IF buffer = <<>> THEN "closed" ELSE "final")
    /\ loop = "done"
    /\ Take("caller")
    /\ Stay /\ UNCHANGED <<fileVars, batchSize, cancelled, loop, accepted, received, dropped>>

FinalPosted ==
    /\ Go("final", "closed")
    /\ \E ok \in BOOLEAN : Post("caller", ok)
    /\ Stay /\ UNCHANGED <<fileVars, loop>>

MultiClose == FileClose \/ WebhookCancel \/ FinalFlush \/ FinalPosted

-----------------------------------------------------------------------------
Caller == createWriter \/ MultiWrite \/ MultiClose
Loop == flushLoop /\ UNCHANGED <<fileVars, cfg, callerVars>>
Disk == (Tick \/ compressFile \/ cleanupOldFiles) /\ UNCHANGED <<webhookVars, cfg, callerVars>>

WritersNext == Caller \/ Loop \/ Disk

WritersSpec == WritersInit /\ [][WritersNext]_writersVars

\* A call of Write or Close runs on, since requests have timeouts; whether there
\* is another line is up to the pipeline.  The loop runs: its ticker fires, it
\* sees that the context is done.
Working == (createWriter \/ MultiWrite \/ MultiClose) /\ caller # "idle"
Fairness == WF_writersVars(Working) /\ WF_writersVars(Loop)
FairWriters == WritersSpec /\ Fairness

-----------------------------------------------------------------------------
(* Properties.                                                             *)

\* Lines of files that were rotated in one second, under one name.
SameSecond == UNION {UNION Elements(rotatedAt[t]) : t \in {u \in Times : Len(rotatedAt[u]) > 1}}

\* A line that Write has written can be read back for as long as maxAge asks
\* for, through rotation, compression (failed or not) and the removal of old
\* files - unless two rotations fall into one second and share a name.
FileKeepsLines ==
    \A id \in DOMAIN wrote \ SameSecond :
        (maxAge = 0 \/ now - wrote[id] <= maxAge) =>
            \E n \in DOMAIN disk : id \in disk[n].lines /\ disk[n].whole

\* fw.size follows the size of the file, so that the file never holds more than
\* maxSize - unless it is one line that is longer, or was longer at the start.
FileBounded ==
    /\ handle = "open" => size = disk[path].bytes
    /\ (path \in DOMAIN disk /\ maxSize > 0) =>
          \/ disk[path].bytes <= maxSize
          \/ Cardinality(disk[path].lines) <= 1 /\ \E l \in Lines : disk[path].bytes <= l.len
          \/ disk[path].lines = {} /\ disk[path].bytes \in OldSizes

\* A line that the webhook has accepted is in one place: it waits, is being
\* posted, has reached the endpoint once or was dropped with its batch.  It is
\* never posted again, and a closed writer holds none.  Every line accepted is
\* in the file too, which comes first.  The buffer and a batch
\* on its way never exceed the batch size (WritersTypeOK).
PostedAtMostOnce ==
    /\ WritersTypeOK
    /\ \A id \in accepted :
          LET waits == Cardinality({i \in DOMAIN buffer : buffer[i] = id})
              posting == Cardinality({p \in Posters : id \in Elements(inFlight[p])})
          IN  /\ received[id] <= 1
              /\ waits + posting + (IF received[id] = 1 \/ id \in dropped THEN 1 ELSE 0) = 1
    /\ accepted \subseteq DOMAIN wrote
    /\ caller = "closed" => buffer = <<>> /\ \A p \in Posters : inFlight[p] = <<>>

\* Close returns, with every writer closed - the file writer too if one of its
\* rotations has failed, and the webhook writer if that makes the file's Close
\* return an error.
CloseEnds == caller \in {"webhookClose", "closed"} ~> caller = "closed" /\ handle = "closed" /\ loop = "done"

\* A line that the webhook has accepted does not wait for the next one: the
\* ticker, the batch that fills up or Close takes it away.
BufferedGoesOut == \A id \in Items : id \in accepted ~> received[id] > 0 \/ id \in dropped

=============================================================================
