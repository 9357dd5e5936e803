-------------------------- MODULE OpenSearchWriter --------------------------
(***************************************************************************)
(* internal/output/opensearch_writer.go: documents are buffered, sent in   *)
(* bulks, retried, and kept in a bounded retry queue when a bulk fails.    *)
(*                                                                         *)
(* Two goroutines flush: the output goroutine, inside Write when the       *)
(* buffer reaches the bulk size and inside Close, and flushLoop, on a      *)
(* ticker.  Only the buffer and the retry queue are under ow.mu; bulks are *)
(* sent outside it, so the two flushes overlap.  The server is external:   *)
(* it indexes any part of a bulk, and its answer may be lost.              *)
(***************************************************************************)
EXTENDS Naturals, Sequences, FiniteSets

CONSTANTS MaxDocs,      \* bound on the documents written
          BulkSize,     \* ow.bulkSize
          MaxPending,   \* maxPendingDocs
          MaxRetries    \* ow.maxRetries

ASSUME OpenSearchAssumption ==
    /\ MaxDocs \in Nat
    /\ BulkSize \in Nat \ {0}
    /\ MaxPending \in Nat \ {0}
    /\ MaxRetries \in Nat \ {0}

Docs == 1..MaxDocs

Flushers == {"output", "loop"}

VARIABLES
    count,      \* documents written so far: they are 1..count
    buffer,     \* ow.buffer
    pending,    \* ow.pending
    flush,      \* each goroutine's progress in flush, finalFlush and sendBulk
    cancelled,  \* ow.ctx is cancelled
    closer,     \* progress of Close
    dropped,    \* ow.pendingDropped
    indexed,    \* history: the documents the server holds
    acked,      \* history: the documents a bulk response reported as stored
    discarded   \* history: the documents counted in pendingDropped

vars == <<count, buffer, pending, flush, cancelled, closer, dropped, indexed,
          acked, discarded>>

\* cur is the bulk being sent, batch what is to be sent after it.
Progress == [pc : {"idle", "take", "pending", "batch", "requeue", "final", "exited"},
             cur : Seq(Docs), batch : Seq(Docs), tries : 0..MaxRetries]

Idle == [pc |-> "idle", cur |-> <<>>, batch |-> <<>>, tries |-> 0]

SeqDocs(q) == {q[i] : i \in 1..Len(q)}

TypeOK ==
    /\ count \in 0..MaxDocs
    /\ buffer \in Seq(Docs)
    /\ Len(buffer) <= BulkSize
    /\ pending \in Seq(Docs)
    /\ Len(pending) <= MaxPending
    /\ flush \in [Flushers -> Progress]
    /\ cancelled \in BOOLEAN
    /\ closer \in {"open", "waiting", "final", "closed"}
    /\ dropped \in Nat
    /\ indexed \in SUBSET Docs
    /\ acked \in SUBSET Docs
    /\ discarded \in SUBSET Docs

Init ==
    /\ count = 0
    /\ buffer = <<>>
    /\ pending = <<>>
    /\ flush = [f \in Flushers |-> Idle]
    /\ cancelled = FALSE
    /\ closer = "open"
    /\ dropped = 0
    /\ indexed = {}
    /\ acked = {}
    /\ discarded = {}

-----------------------------------------------------------------------------
\* Write, up to the unlock; a full buffer makes the same call flush.
Write ==
    /\ closer = "open"
    /\ flush["output"].pc = "idle"
    /\ count < MaxDocs
    /\ count' = count + 1
    /\ buffer' = Append(buffer, count + 1)
    /\ flush' = [flush EXCEPT !["output"].pc =
                    IF Len(buffer) + 1 >= BulkSize THEN "take" ELSE "idle"]
    /\ UNCHANGED <<pending, cancelled, closer, dropped, indexed, acked, discarded>>

\* flushLoop: case <-ticker.C.
Tick ==
    /\ flush["loop"].pc = "idle"
    /\ flush' = [flush EXCEPT !["loop"].pc = "take"]
    /\ UNCHANGED <<count, buffer, pending, cancelled, closer, dropped, indexed,
                   acked, discarded>>

\* Mutant: the loop does not watch ow.ctx.
LoopExitNever == FALSE

\* flushLoop: case <-ow.ctx.Done().
LoopExit ==
    /\ cancelled
    /\ flush["loop"].pc = "idle"
    /\ flush' = [flush EXCEPT !["loop"].pc = "exited"]
    /\ UNCHANGED <<count, buffer, pending, cancelled, closer, dropped, indexed,
                   acked, discarded>>

\* Mutant: the retry queue is read and not cleared.
PendingKept == pending

PendingTaken == <<>>

\* flush, under ow.mu: the retry queue and the buffer are taken, and the retry
\* queue goes first.  With both empty an empty bulk is sent.
Take(f) ==
    /\ flush[f].pc = "take"
    /\ flush' = [flush EXCEPT ![f] =
          IF pending # <<>>
          THEN [pc |-> "pending", cur |-> pending, batch |-> buffer, tries |-> 0]
          ELSE [pc |-> "batch", cur |-> buffer, batch |-> <<>>, tries |-> 0]]
    /\ pending' = PendingTaken
    /\ buffer' = <<>>
    /\ UNCHANGED <<count, cancelled, closer, dropped, indexed, acked, discarded>>

-----------------------------------------------------------------------------
(* sendBulkWithContext, and what flush and finalFlush do with its result.  *)

\* Everything in cur is delivered.
Delivered(f) ==
    /\ flush' = [flush EXCEPT ![f] =
          IF @.pc = "pending" /\ @.batch # <<>>
          THEN [pc |-> "batch", cur |-> @.batch, batch |-> <<>>, tries |-> 0]
          ELSE Idle]
    /\ closer' = IF flush[f].pc = "final" THEN "closed" ELSE closer
    /\ UNCHANGED <<dropped, discarded>>

\* Mutant: a loss that is not counted.
LoseSilently(docs) == UNCHANGED <<dropped, discarded>>

Lose(docs) ==
    /\ dropped' = dropped + Len(docs)
    /\ discarded' = discarded \cup SeqDocs(docs)

\* docs are undelivered: flush re-queues them, finalFlush counts them as lost.
GiveUp(f, docs) ==
    IF flush[f].pc = "final"
    THEN /\ flush' = [flush EXCEPT ![f] = Idle]
         /\ closer' = "closed"
         /\ Lose(docs)
    ELSE /\ flush' = [flush EXCEPT ![f].pc = "requeue", ![f].cur = docs, ![f].tries = 0]
         /\ UNCHANGED <<closer, dropped, discarded>>

\* doRequest: the loop over the items of the response collects the documents
\* whose item has an error status.
Failed(docs, ok) ==
    LET failed[i \in 0..Len(docs)] ==
            IF i = 0 THEN <<>>
            ELSE IF docs[i] \in ok THEN failed[i - 1]
            ELSE Append(failed[i - 1], docs[i])
    IN  failed[Len(docs)]

\* After an attempt that left failed undelivered: the next one, or the end.
NextTry(f, failed) ==
    IF flush[f].tries + 1 < MaxRetries
    THEN /\ flush' = [flush EXCEPT ![f].cur = failed, ![f].tries = @ + 1]
         /\ UNCHANGED <<closer, dropped, discarded>>
    ELSE GiveUp(f, failed)

\* doRequest: the server indexes ok, a part of the bulk, and answers.
AttemptAnswered(f) ==
    /\ flush[f].pc \in {"pending", "batch", "final"}
    /\ \E ok \in SUBSET SeqDocs(flush[f].cur) :
         /\ indexed' = indexed \cup ok
         /\ acked' = acked \cup ok
         /\ LET failed == Failed(flush[f].cur, ok)
            IN  IF failed = <<>> THEN Delivered(f) ELSE NextTry(f, failed)
    /\ UNCHANGED <<count, buffer, pending, cancelled>>

\* doRequest: no usable answer, though the server may have indexed ok.
AttemptLost(f) ==
    /\ flush[f].pc \in {"pending", "batch", "final"}
    /\ \E ok \in SUBSET SeqDocs(flush[f].cur) : indexed' = indexed \cup ok
    /\ NextTry(f, flush[f].cur)
    /\ UNCHANGED <<count, buffer, pending, cancelled, acked>>

\* case <-ctx.Done(), in the wait before a retry: ow.ctx for flush, the
\* shutdown timeout for finalFlush.
AttemptCancelled(f) ==
    /\ flush[f].pc \in {"pending", "batch", "final"}
    /\ flush[f].tries > 0
    /\ flush[f].pc = "final" \/ cancelled
    /\ GiveUp(f, flush[f].cur)
    /\ UNCHANGED <<count, buffer, pending, cancelled, indexed, acked>>

\* enqueuePending: how many of the oldest documents n documents are over the cap.
Excess(n) == IF n > MaxPending THEN n - MaxPending ELSE 0

\* enqueuePending, under ow.mu: the failed bulk, then the batch behind it.
Requeue(f) ==
    LET all == pending \o flush[f].cur
        ex  == Excess(Len(all))
    IN  /\ flush[f].pc = "requeue"
        /\ pending' = SubSeq(all, ex + 1, Len(all))
        /\ Lose(SubSeq(all, 1, ex))
        /\ flush' = [flush EXCEPT ![f] =
              IF @.batch = <<>> THEN Idle
              ELSE [pc |-> "requeue", cur |-> @.batch, batch |-> <<>>, tries |-> 0]]
        /\ UNCHANGED <<count, buffer, cancelled, closer, indexed, acked>>

-----------------------------------------------------------------------------
(* Close.                                                                  *)

CloseCancel ==
    /\ closer = "open"
    /\ flush["output"].pc = "idle"
    /\ cancelled' = TRUE
    /\ closer' = "waiting"
    /\ UNCHANGED <<count, buffer, pending, flush, dropped, indexed, acked, discarded>>

LoopGone == flush["loop"].pc = "exited"

\* finalFlush, once flushLoop has returned.
FinalFlush ==
    /\ closer = "waiting"
    /\ LoopGone
    /\ LET docs == pending \o buffer
       IN  IF docs = <<>>
           THEN closer' = "closed" /\ UNCHANGED flush
           ELSE /\ closer' = "final"
                /\ flush' = [flush EXCEPT !["output"] =
                      [pc |-> "final", cur |-> docs, batch |-> <<>>, tries |-> 0]]
    /\ pending' = <<>>
    /\ buffer' = <<>>
    /\ UNCHANGED <<count, cancelled, dropped, indexed, acked, discarded>>

-----------------------------------------------------------------------------
Send(f) == Take(f) \/ AttemptAnswered(f) \/ AttemptLost(f) \/ AttemptCancelled(f) \/ Requeue(f)

Next ==
    \/ Write
    \/ Tick
    \/ LoopExit
    \/ \E f \in Flushers : Send(f)
    \/ CloseCancel
    \/ FinalFlush

Spec == Init /\ [][Next]_vars

\* A request ends (the client has a timeout) and goroutines are scheduled;
\* flushLoop's select sees a cancelled context among its ready branches, which
\* it does not pass over for ever: strong fairness, for a tick may come first.
FairSpec ==
    /\ Spec
    /\ \A f \in Flushers : WF_vars(Send(f))
    /\ SF_vars(LoopExit)
    /\ WF_vars(FinalFlush)

-----------------------------------------------------------------------------
(* Properties.                                                             *)

InFlight == UNION {SeqDocs(flush[f].cur) \cup SeqDocs(flush[f].batch) : f \in Flushers}

Kept == SeqDocs(buffer) \cup SeqDocs(pending) \cup InFlight

\* A document that was written and is not known to be stored is still held by
\* the writer or has been counted as dropped, and each drop is counted once:
\* "a bounded, counted loss - it is reported, never silent".  A closed writer
\* holds nothing, not even in a flush of flushLoop that Close overtook; buffer
\* and retry queue stay within their bounds (TypeOK).
NoSilentLoss ==
    /\ TypeOK
    /\ Docs \cap 1..count \subseteq Kept \cup acked \cup discarded
    /\ dropped = Cardinality(discarded)
    /\ closer = "closed" => Kept = {}

\* No document is held twice, and one the server has acknowledged is not held or
\* dropped any more, though the flushes of the two goroutines overlap and bulks
\* fail in part: none is indexed twice without a lost answer.
HeldOnce ==
    LET held == <<buffer, pending, flush["output"].cur, flush["output"].batch,
                  flush["loop"].cur, flush["loop"].batch>>
    IN  /\ \A i, j \in 1..6 : i # j => SeqDocs(held[i]) \cap SeqDocs(held[j]) = {}
        /\ \A i \in 1..6 : Cardinality(SeqDocs(held[i])) = Len(held[i])
        /\ acked \cap (Kept \cup discarded) = {}

\* Close returns: the retries are bounded and flushLoop stops.
CloseReturns == closer = "waiting" ~> closer = "closed"

=============================================================================
