--------------------------- MODULE WebhookWriter ---------------------------
(***************************************************************************)
(* internal/output/webhook_writer.go: the writer that collects lines and   *)
(* posts them in batches.                                                  *)
(*                                                                         *)
(* The caller of Write posts the batch it has filled, and then closes the  *)
(* writer; the goroutine flushLoop posts what has gathered when its ticker *)
(* fires.  A batch is taken out of the buffer under the lock and posted    *)
(* without it; what is not posted is not kept.                             *)
(***************************************************************************)
EXTENDS Integers, Sequences, FiniteSets

CONSTANTS DefaultBatchSize,     \* defaultWebhookBatchSize
          MaxBatchSize,         \* maxWebhookBatchSize
          Items                 \* identities of the lines explored

ASSUME WebhookAssumption ==
    /\ MaxBatchSize \in Nat
    /\ DefaultBatchSize \in 1..MaxBatchSize
    /\ Items \subseteq Nat

VARIABLES
    batchSize,  \* ww.batchSize; 0 before the writer exists
    buffer,     \* ww.buffer
    cancelled,  \* ww.ctx is done
    loop,       \* where flushLoop is
    inFlight,   \* the batch that the caller and the loop are posting
    accepted,   \* history: lines Write has put into the buffer
    received,   \* history: how often the endpoint has got each line
    dropped     \* history: lines of batches whose request failed

webhookVars == <<batchSize, buffer, cancelled, loop, inFlight, accepted, received, dropped>>

Posters == {"caller", "loop"}
LogLevels == [debug |-> 0, info |-> 1, warn |-> 2, error |-> 3, fatal |-> 4]
Elements(s) == {s[i] : i \in DOMAIN s}

WebhookTypeOK ==
    /\ batchSize \in 0..MaxBatchSize
    /\ buffer \in Seq(Items) /\ Len(buffer) <= batchSize
    /\ cancelled \in BOOLEAN
    /\ loop \in {"none", "select", "post", "done"}
    /\ inFlight \in [Posters -> Seq(Items)]
    /\ \A p \in Posters : Len(inFlight[p]) <= batchSize
    /\ accepted \in SUBSET Items
    /\ received \in [Items -> Nat]
    /\ dropped \in SUBSET Items

WebhookInit ==
    /\ batchSize = 0
    /\ buffer = <<>>
    /\ cancelled = FALSE
    /\ loop = "none"
    /\ inFlight = [p \in Posters |-> <<>>]
    /\ accepted = {}
    /\ received = [id \in Items |-> 0]
    /\ dropped = {}

-----------------------------------------------------------------------------
\* NewWebhookWriter refuses a batch size above the maximum; one that is not
\* given, or makes no sense, is the default.
Acceptable(requested) == requested <= MaxBatchSize

NewWebhookWriter(requested) ==
    /\ Acceptable(requested)
    /\ batchSize' = IF requested <= 0 THEN DefaultBatchSize ELSE requested
    /\ loop' = "select"
    /\ UNCHANGED <<buffer, cancelled, inFlight, accepted, received, dropped>>

\* flush and finalFlush: the buffer becomes the batch of poster p.
Take(p) ==
    /\ inFlight' = [inFlight EXCEPT ![p] = buffer]
    /\ buffer' = <<>>

\* LogLevels[...] of a level that is not known is 0.
Level(l) == IF l \in DOMAIN LogLevels THEN LogLevels[l] ELSE 0

Fills == Len(buffer) + 1 >= batchSize

\* Write: the line goes into the buffer, under the lock.
Accept(id) ==
    /\ accepted' = accepted \cup {id}
    /\ buffer' = Append(buffer, id)
    /\ UNCHANGED <<batchSize, cancelled, loop, inFlight, received, dropped>>

\* Mutant: a batch that could not be posted is put back.
ForgetKeeps(p, ok) ==
    /\ buffer' = IF ok THEN buffer ELSE inFlight[p] \o buffer
    /\ inFlight' = [inFlight EXCEPT ![p] = <<>>]

\* The batch is gone, whether it was posted or not.
Forget(p, ok) ==
    /\ inFlight' = [inFlight EXCEPT ![p] = <<>>]
    /\ UNCHANGED buffer

\* sendWithContext returns.  A request that succeeds has reached the endpoint;
\* one that fails, or is cancelled, may have reached it too.
Post(p, ok) ==
    \E reached \in BOOLEAN :
        /\ ok => reached
        /\ received' = IF reached
                       THEN [id \in Items |-> received[id] + Cardinality({i \in DOMAIN inFlight[p] : inFlight[p][i] = id})]
                       ELSE received
        /\ dropped' = IF ok THEN dropped ELSE dropped \cup Elements(inFlight[p])
        /\ Forget(p, ok)
        /\ UNCHANGED <<batchSize, cancelled, accepted>>

-----------------------------------------------------------------------------
(* flushLoop.                                                              *)

\* Mutant: the ticker posts full batches only.
LoopFlushFull ==
    /\ loop = "select"
    /\ Len(buffer) >= batchSize
    /\ ~cancelled
    /\ Take("loop")
    /\ loop' = "post"
    /\ UNCHANGED <<batchSize, cancelled, accepted, received, dropped>>

\* The ticker fires.
LoopFlush ==
    /\ loop = "select"
    /\ buffer # <<>>
    /\ ~cancelled
    /\ Take("loop")
    /\ loop' = "post"
    /\ UNCHANGED <<batchSize, cancelled, accepted, received, dropped>>

LoopPosted ==
    /\ loop = "post"
    /\ loop' = "select"
    /\ \E ok \in BOOLEAN : Post("loop", ok)

\* The context is done and the ticker has fired, and select takes the ticker:
\* the request fails at once.
LoopFlushLate ==
    /\ loop = "select"
    /\ buffer # <<>>
    /\ cancelled
    /\ buffer' = <<>>
    /\ dropped' = dropped \cup Elements(buffer)
    /\ UNCHANGED <<batchSize, cancelled, loop, inFlight, accepted, received>>

LoopExits ==
    /\ loop = "select"
    /\ cancelled
    /\ loop' = "done"
    /\ UNCHANGED <<batchSize, buffer, cancelled, inFlight, accepted, received, dropped>>

flushLoop == LoopFlush \/ LoopFlushLate \/ LoopPosted \/ LoopExits

=============================================================================
