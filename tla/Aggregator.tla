----------------------------- MODULE Aggregator -----------------------------
(***************************************************************************)
(* internal/aggregator/aggregator.go: equal lines seen within one window   *)
(* become one line with a count.                                           *)
(*                                                                         *)
(* The pipeline goroutine calls Process, Flush and Stop and receives from  *)
(* Expired(); the aggregator's own goroutine (flushLoop) collects expired  *)
(* entries on a ticker and sends them on the output channel.  An entry is  *)
(* modelled by the set of lines it stands for (the code keeps the first    *)
(* line and the count), so that a lost or doubled line is visible.         *)
(***************************************************************************)
EXTENDS Naturals, Sequences

CONSTANTS Lines,      \* the lines that pass the filters
          KeyOf,      \* entryKey: source, level and message of a line
          Window,     \* a.window
          OutputCap,  \* capacity of a.output
          MaxTime     \* bound on the clock

Keys == {KeyOf[l] : l \in Lines}

ASSUME AggregatorAssumption ==
    /\ KeyOf \in [Lines -> Keys]
    /\ Window \in Nat \ {0}
    /\ OutputCap \in Nat \ {0}
    /\ MaxTime \in Nat

VARIABLES
    entries,    \* a.entries, a partial function on keys
    output,     \* a.output
    done,       \* a.done is closed
    flusher,    \* where the flushLoop goroutine is
    hand,       \* the batch it wants to send
    now,        \* a.nowFunc()
    accepted,   \* history: the lines given to Process
    returned,   \* history: the lines given back to the pipeline
    discarded   \* history: the lines of a batch flushLoop quit with

vars == <<entries, output, done, flusher, hand, now, accepted, returned, discarded>>

Entry == [lines : SUBSET Lines, firstSeen : Nat, lastSeen : Nat]

Batch == SUBSET Entry

\* The lines a batch of entries stands for.
LinesIn(batch) == UNION {e.lines : e \in batch}

Stored == {entries[k] : k \in DOMAIN entries}

TypeOK ==
    /\ DOMAIN entries \subseteq Keys
    /\ \A k \in DOMAIN entries : entries[k] \in Entry
    /\ output \in Seq(Batch)
    /\ Len(output) <= OutputCap
    /\ done \in BOOLEAN
    /\ flusher \in {"select", "send", "exited"}
    /\ hand \in Batch
    /\ now \in Nat
    /\ accepted \in SUBSET Lines
    /\ returned \in SUBSET Lines
    /\ discarded \in SUBSET Lines

Init ==
    /\ entries = [k \in {} |-> {}]
    /\ output = <<>>
    /\ done = FALSE
    /\ flusher = "select"
    /\ hand = {}
    /\ now = 0
    /\ accepted = {}
    /\ returned = {}
    /\ discarded = {}

-----------------------------------------------------------------------------
\* Mutant: an entry expires when its age reaches the window after its last
\* line, so that it can grow for ever.
ExpiredSliding == {k \in DOMAIN entries : now > entries[k].lastSeen + Window}

\* collectExpiredLocked: the entries older than the window.
ExpiredKeys == {k \in DOMAIN entries : now > entries[k].firstSeen + Window}

\* emitEntryLocked: entries leave the map as aggregated lines.
Emit(ks) == {entries[k] : k \in ks}
Without(ks) == [k \in DOMAIN entries \ ks |-> entries[k]]

\* The entry of key k once line has been counted in the entries es.
Counted(es, k, line) ==
    IF k \in DOMAIN es
    THEN [es[k] EXCEPT !.lines = @ \cup {line}, !.lastSeen = now]
    ELSE [lines |-> {line}, firstSeen |-> now, lastSeen |-> now]

\* The lines of the expired entries.
Collected == LinesIn(Emit(ExpiredKeys))

\* Process runs under a.mu.  The entry of the line's key, if it is still there
\* after the expired ones are collected, is within the window, so the branch
\* of the code that emits it again is never taken.
Process(line) ==
    LET rest == Without(ExpiredKeys)
        k    == KeyOf[line]
    IN  /\ line \notin accepted
        /\ accepted' = accepted \cup {line}
        /\ returned' = returned \cup Collected
        /\ entries' = [x \in DOMAIN rest \cup {k} |->
                          IF x = k THEN Counted(rest, k, line) ELSE rest[x]]
        /\ UNCHANGED <<output, done, flusher, hand, now, discarded>>

\* Flush: every entry is emitted, expired or not.
Flush ==
    /\ returned' = returned \cup LinesIn(Stored)
    /\ entries' = Without(DOMAIN entries)
    /\ UNCHANGED <<output, done, flusher, hand, now, accepted, discarded>>

\* Stop closes a.done once.
Stop ==
    /\ done' = TRUE
    /\ UNCHANGED <<entries, output, flusher, hand, now, accepted, returned, discarded>>

\* The pipeline receives a batch from Expired().
Receive ==
    /\ output # <<>>
    /\ returned' = returned \cup LinesIn(Head(output))
    /\ output' = Tail(output)
    /\ UNCHANGED <<entries, done, flusher, hand, now, accepted, discarded>>

-----------------------------------------------------------------------------
(* The flushLoop goroutine.                                                *)

\* Mutants: the collected entries stay in the map; no tick collects any.
UncollectedAll == entries
TickNeverDue == FALSE

Uncollected == Without(ExpiredKeys)
TickDue == ExpiredKeys # {}

\* case <-ticker.C, under a.mu.  A tick that finds nothing changes nothing.
Tick ==
    /\ flusher = "select"
    /\ TickDue
    /\ hand' = Emit(ExpiredKeys)
    /\ entries' = Uncollected
    /\ flusher' = "send"
    /\ UNCHANGED <<output, done, now, accepted, returned, discarded>>

OutputRoom == Len(output) < OutputCap

Send ==
    /\ flusher = "send"
    /\ OutputRoom
    /\ output' = Append(output, hand)
    /\ hand' = {}
    /\ flusher' = "select"
    /\ UNCHANGED <<entries, done, now, accepted, returned, discarded>>

\* case <-a.done, at either select: a batch in hand is given up.
Quit ==
    /\ done
    /\ flusher \in {"select", "send"}
    /\ flusher' = "exited"
    /\ discarded' = discarded \cup LinesIn(hand)
    /\ hand' = {}
    /\ UNCHANGED <<entries, output, done, now, accepted, returned>>

Advance ==
    /\ now < MaxTime
    /\ now' = now + 1
    /\ UNCHANGED <<entries, output, done, flusher, hand, accepted, returned, discarded>>

FlushLoop == Tick \/ Send \/ Quit

Next ==
    \/ \E line \in Lines : Process(line)
    \/ Flush
    \/ Stop
    \/ Receive
    \/ FlushLoop
    \/ Advance

Spec == Init /\ [][Next]_vars

\* The clock runs, the goroutine is scheduled and the pipeline keeps receiving.
FairSpec == Spec /\ WF_vars(FlushLoop) /\ WF_vars(Receive) /\ WF_vars(Advance)

-----------------------------------------------------------------------------
(* Properties.                                                             *)

Channelled == UNION {LinesIn(output[i]) : i \in 1..Len(output)}

\* A line that the aggregator accepted is counted in an entry, on its way in the
\* flusher or in the channel, or back with the pipeline.  Only a flusher that was
\* stopped with a batch in hand gives lines up.
NoLineLost ==
    /\ accepted = LinesIn(Stored) \cup LinesIn(hand) \cup Channelled
                    \cup returned \cup discarded
    /\ discarded # {} => done

\* The stages a line can be in exclude each other, whichever of Process, Flush
\* and the ticker collected its entry.
NoLineTwice ==
    /\ LinesIn(Stored) \cap (LinesIn(hand) \cup Channelled \cup returned \cup discarded) = {}
    /\ LinesIn(hand) \cap (Channelled \cup returned \cup discarded) = {}
    /\ Channelled \cap (returned \cup discarded) = {}
    /\ returned \cap discarded = {}
    /\ \A i, j \in 1..Len(output) : i # j => LinesIn(output[i]) \cap LinesIn(output[j]) = {}

\* Every line is counted exactly once in what comes out: none is lost and none is
\* counted twice, while Process, Flush and the ticker's goroutine all collect.
\* The channel of expired entries stays within its capacity (TypeOK).
CountedOnce == TypeOK /\ NoLineLost /\ NoLineTwice

\* What "(xN in last D)" says: the lines of an entry are equal in source,
\* level and message, and D is at most the window.
GroupIsOneWindow ==
    \A e \in Stored \cup hand \cup UNION {output[i] : i \in 1..Len(output)} :
        /\ e.lines # {}
        /\ e.firstSeen <= e.lastSeen
        /\ e.lastSeen <= e.firstSeen + Window
        /\ \A l, m \in e.lines : KeyOf[l] = KeyOf[m]

\* An entry older than the window does not wait for another line: the ticker
\* hands it to the pipeline, unless the aggregator is stopped.
ExpiredReachPipeline ==
    \A l \in Lines :
        (\E k \in ExpiredKeys : l \in entries[k].lines) ~> (l \in returned \/ done)

=============================================================================
