----------------------------- MODULE HotReload -----------------------------
(***************************************************************************)
(* Hot reload of the sources: the configuration watcher                    *)
(* (internal/configwatch), the sources table it polls, and the             *)
(* TailerManager (cmd/tailer_manager.go) it reconciles, with the shutdown  *)
(* that may overtake them.                                                 *)
(*                                                                         *)
(* The table is edited by the API, row by row, and by an import, which is  *)
(* one transaction of many statements, of this process or another; the     *)
(* watcher is one goroutine; the signal handler cancels and calls StopAll; *)
(* each tailer is a goroutine, here an instance of a source.               *)
(*                                                                         *)
(* PostgreSQL is external: now() is the time at which the transaction      *)
(* began, a row that a transaction has written is locked until it ends,    *)
(* and after a failed statement it can only be rolled back.                *)
(***************************************************************************)
EXTENDS Integers, Sequences, FiniteSets, SourceConfig

CONSTANTS Names,      \* source names
          Configs,    \* source configurations
          InitRows,   \* the sources at startup: name -> configuration
          Files,      \* configuration files to import: their sources, likewise
          Faults,     \* the events explored: "delete", "loadFail", "early", "import"
          MaxEdits    \* bound on the edits of the table

PartialFun(D, R) == UNION {[S -> R] : S \in SUBSET D}

ASSUME HotReloadAssumption ==
    /\ Configs \subseteq Source
    /\ InitRows \in PartialFun(Names, Configs) /\ IsFiniteSet(DOMAIN InitRows)
    /\ \A n \in DOMAIN InitRows : createTailer(InitRows[n])
    /\ Files \subseteq PartialFun(Names, Configs)
    /\ Faults \subseteq {"delete", "loadFail", "early", "import"}
    /\ MaxEdits \in Nat

VARIABLES
    rows,       \* the sources table: name -> [cfg, updated_at, by]
    edits,      \* the clock of the database: one tick per edit
    outputRow,  \* the outputs table has the row of the file's output
    importer,   \* where the import is
    file,       \* the sources it imports
    importAt,   \* when its transaction began
    staged,     \* the rows it has written and not committed
    watermark,  \* w.watermark[ChangeSources], or Unset
    watcher,    \* where the watcher goroutine is
    target,     \* newMap of Reconcile
    current,    \* currentConfigs of Reconcile
    left,       \* names Reconcile has still to look at
    tailers,    \* tm.tailers: name -> instance
    sources,    \* tm.sources: name -> configuration
    inst,       \* every tailer ever created
    ctxDone,    \* ctx of runTail is cancelled
    stopper,    \* progress of StopAll
    stopping,   \* the instances StopAll is about to stop
    missed      \* history: an edit the watermark does not show, and no reload since

importVars == <<outputRow, importer, file, importAt, staged>>
dbVars == <<rows, edits, importVars>>
planVars == <<target, current, left>>
mgrVars == <<tailers, sources, inst>>
stopVars == <<ctxDone, stopper, stopping>>
vars == <<dbVars, watermark, watcher, planVars, mgrVars, stopVars, missed>>

\* No watermark: the query of initWatermarks failed.
Unset == -1

Nothing == [n \in {} |-> 0]

Instance == [name : Names, state : {"created", "running", "exited"}, cancelled : BOOLEAN]

TypeOK ==
    /\ rows \in PartialFun(Names, [cfg : Configs, updatedAt : 0..MaxEdits, by : {"api", "import"}])
    /\ edits \in 0..MaxEdits
    /\ outputRow \in BOOLEAN
    /\ importer \in {"none", "next", "create", "update", "failed", "ended"}
    /\ file \in PartialFun(Names, Configs)
    /\ importAt \in 0..MaxEdits
    /\ staged \in PartialFun(Names, Configs)
    /\ watermark \in Unset..MaxEdits
    /\ watcher \in {"init", "idle", "load", "reconcile", "apply", "start", "stopped"}
    /\ target \in PartialFun(Names, Configs)
    /\ current \in PartialFun(Names, Configs)
    /\ left \subseteq Names
    /\ sources \in PartialFun(Names, Configs)
    /\ DOMAIN tailers = DOMAIN sources
    /\ inst \in Seq(Instance)
    /\ \A n \in DOMAIN tailers : tailers[n] \in 1..Len(inst) /\ inst[tailers[n]].name = n
    /\ ctxDone \in BOOLEAN
    /\ stopper \in {"idle", "stopping", "stopped"}
    /\ stopping \subseteq 1..Len(inst)
    /\ missed \in BOOLEAN

\* f without, or with, one more element in its domain.
Drop(f, n) == [x \in DOMAIN f \ {n} |-> f[x]]
Set(f, n, v) == [x \in DOMAIN f \cup {n} |-> IF x = n THEN v ELSE f[x]]

\* runTail has loaded the sources and started a tailer for each.
Init ==
    /\ rows = [n \in DOMAIN InitRows |-> [cfg |-> InitRows[n], updatedAt |-> 0, by |-> "api"]]
    /\ edits = 0
    /\ outputRow \in BOOLEAN
    /\ importer = "none"
    /\ file = Nothing
    /\ importAt = 0
    /\ staged = Nothing
    /\ watermark = Unset
    /\ watcher = "init"
    /\ target = Nothing
    /\ current = Nothing
    /\ left = {}
    /\ sources = InitRows
    /\ tailers \in {f \in [DOMAIN InitRows -> 1..Cardinality(DOMAIN InitRows)] :
                       \A i \in 1..Cardinality(DOMAIN InitRows) :
                          \E n \in DOMAIN f : \A m \in DOMAIN f : f[m] = i <=> m = n}
    /\ inst = [i \in 1..Cardinality(DOMAIN InitRows) |->
                 [name |-> CHOOSE n \in DOMAIN InitRows : tailers[n] = i,
                  state |-> "running", cancelled |-> FALSE]]
    /\ ctxDone = FALSE
    /\ stopper = "idle"
    /\ stopping = {}
    /\ missed = FALSE

-----------------------------------------------------------------------------
(* The API.  Creating or updating a row sets its updated_at; deleting a    *)
(* row leaves no trace.  A row that the import has written is locked.      *)

Clock ==
    /\ edits < MaxEdits
    /\ watcher # "init" \/ "early" \in Faults
    /\ edits' = edits + 1

Edited(newRows) ==
    /\ Clock
    /\ rows' = newRows
    /\ UNCHANGED <<importVars, watermark, watcher, planVars, mgrVars, stopVars>>

ByAPI(c) == [cfg |-> c, updatedAt |-> edits + 1, by |-> "api"]

handleCreateSource(n, c) ==
    /\ n \notin DOMAIN rows \cup DOMAIN staged
    /\ CreateAccepts(c)
    /\ Edited(Set(rows, n, ByAPI(c)))
    /\ missed' = (missed \/ watcher = "init")

\* The request may also rename the source.
handleUpdateSource(n, new, c) ==
    /\ n \in DOMAIN rows \ DOMAIN staged
    /\ new = n \/ new \notin DOMAIN rows \cup DOMAIN staged
    /\ UpdateAccepts(c)
    /\ Edited(Set(Drop(rows, n), new, ByAPI(c)))
    /\ missed' = (missed \/ watcher = "init")

handleDeleteSource(n) ==
    /\ "delete" \in Faults
    /\ n \in DOMAIN rows \ DOMAIN staged
    /\ Edited(Drop(rows, n))
    /\ missed' = TRUE

-----------------------------------------------------------------------------
(* ImportToStore: LoadConfig or ParseYAMLBytes has accepted the file.      *)

Importing(from, to) ==
    /\ importer = from
    /\ importer' = to
    /\ UNCHANGED <<watermark, watcher, planVars, mgrVars, stopVars>>

\* The file is read and validated, and WithTx begins.
ImportBegins(f) ==
    /\ "import" \in Faults
    /\ \A n \in DOMAIN f : ValidateConfig(f[n])
    /\ Importing("none", "next")
    /\ file' = f
    /\ Clock
    /\ importAt' = edits + 1
    /\ UNCHANGED <<rows, outputRow, staged, missed>>

\* The sources are imported one by one; which is next does not matter.
Pending == DOMAIN file \ DOMAIN staged
NextImported == CHOOSE n \in Pending : TRUE

\* upsertSource looks for the row ...
UpsertLooks ==
    /\ Pending # {}
    /\ Importing("next", IF NextImported \in DOMAIN rows THEN "update" ELSE "create")
    /\ UNCHANGED <<rows, edits, outputRow, file, importAt, staged, missed>>

\* ... and creates or updates it.  A row that has come or gone in between makes
\* that fail.
UpsertWrites(op) ==
    /\ Importing(op, IF (NextImported \in DOMAIN rows) = (op = "update") THEN "next" ELSE "failed")
    /\ staged' = IF importer' = "next" THEN Set(staged, NextImported, file[NextImported])
                 ELSE staged
    /\ UNCHANGED <<rows, edits, outputRow, file, importAt, missed>>

\* upsertOutput: an INSERT that conflicts ends the transaction, and the query
\* that looks for the row to update fails.
UpsertOutputFails ==
    /\ Pending = {}
    /\ outputRow
    /\ Importing("next", "failed")
    /\ UNCHANGED <<rows, edits, outputRow, file, importAt, staged, missed>>

\* The output is inserted, the rules and settings are written likewise, and the
\* transaction commits; updated_at is the time at which it began.  The watcher does
\* not see that if it has seen a later edit.
ImportCommits ==
    /\ Pending = {}
    /\ ~outputRow
    /\ Importing("next", "ended")
    /\ rows' = [n \in DOMAIN rows \cup DOMAIN staged |->
                   IF n \in DOMAIN staged
                   THEN [cfg |-> staged[n], updatedAt |-> importAt, by |-> "import"] ELSE rows[n]]
    /\ outputRow' = TRUE
    /\ staged' = Nothing
    /\ missed' = (missed \/ watcher = "init" \/ importAt <= watermark)
    /\ UNCHANGED <<edits, file, importAt>>

\* A statement fails, or its 30 seconds are over: the transaction is rolled back.
ImportRollsBack ==
    /\ importer \in {"next", "create", "update", "failed"}
    /\ Importing(importer, "ended")
    /\ staged' = Nothing
    /\ UNCHANGED <<rows, edits, outputRow, file, importAt, missed>>

Import ==
    \/ \E f \in Files : ImportBegins(f)
    \/ UpsertLooks \/ UpsertWrites("create") \/ UpsertWrites("update")
    \/ UpsertOutputFails \/ ImportCommits \/ ImportRollsBack

\* SELECT COALESCE(MAX(updated_at), ...)
MaxUpdatedAt ==
    LET stamps == {0} \cup {rows[n].updatedAt : n \in DOMAIN rows}
    IN  CHOOSE t \in stamps : \A u \in stamps : u <= t

-----------------------------------------------------------------------------
(* The watcher.                                                            *)

InitWatermarks ==
    /\ watcher = "init"
    /\ watermark' = MaxUpdatedAt
    /\ watcher' = "idle"
    /\ UNCHANGED <<missed, dbVars, planVars, mgrVars, stopVars>>

\* The query fails: no watermark is set ...
InitFails ==
    /\ watcher = "init"
    /\ "loadFail" \in Faults
    /\ watcher' = "idle"
    /\ UNCHANGED <<watermark, missed, dbVars, planVars, mgrVars, stopVars>>

\* ... and the first poll sets it without calling the listener.
FirstPoll ==
    /\ watcher = "idle"
    /\ ~ctxDone
    /\ watermark = Unset
    /\ watermark' = MaxUpdatedAt
    /\ missed' = TRUE
    /\ UNCHANGED <<watcher, dbVars, planVars, mgrVars, stopVars>>

\* Mutant: a change right after the last one is not newer.
NewerByTwo(ts) == ts > watermark + 1

\* ts.After(prev)
Newer(ts) == ts > watermark

\* poll: the watermark moves before the listener runs.  A poll that finds
\* nothing new, or whose query fails, changes nothing.
Poll ==
    /\ watcher = "idle"
    /\ ~ctxDone
    /\ watermark # Unset
    /\ Newer(MaxUpdatedAt)
    /\ watermark' = MaxUpdatedAt
    /\ watcher' = "load"
    /\ UNCHANGED <<missed, dbVars, planVars, mgrVars, stopVars>>

\* LoadFromStore, in the listener.
LoadFromStore ==
    /\ watcher = "load"
    /\ ~ctxDone
    /\ target' = [n \in DOMAIN rows |-> rows[n].cfg]
    /\ watcher' = "reconcile"
    /\ missed' = FALSE
    /\ UNCHANGED <<watermark, current, left, dbVars, mgrVars, stopVars>>

\* The query fails: the listener logs the error and returns.
LoadFails ==
    /\ watcher = "load"
    /\ ctxDone \/ "loadFail" \in Faults
    /\ watcher' = "idle"
    /\ missed' = TRUE
    /\ UNCHANGED <<watermark, dbVars, planVars, mgrVars, stopVars>>

WatcherStops ==
    /\ watcher = "idle"
    /\ ctxDone
    /\ watcher' = "stopped"
    /\ UNCHANGED <<watermark, missed, dbVars, planVars, mgrVars, stopVars>>

-----------------------------------------------------------------------------
(* TailerManager.Reconcile, in the watcher goroutine.                      *)

\* The snapshot under tm.mu.
Reconcile ==
    /\ watcher = "reconcile"
    /\ current' = sources
    /\ left' = DOMAIN sources \cup DOMAIN target
    /\ watcher' = "apply"
    /\ UNCHANGED <<watermark, target, missed, dbVars, mgrVars, stopVars>>

\* Mutant: Stop is forgotten.
CancelNothing(is) == inst

\* Stop of a tailer cancels its context; before Start there is none to cancel.
Cancel(is) ==
    [i \in DOMAIN inst |->
        IF i \in is /\ inst[i].state # "created"
        THEN [inst[i] EXCEPT !.cancelled = TRUE] ELSE inst[i]]

\* Remove: out of the maps, then stopped.
Remove(n) ==
    /\ tailers' = Drop(tailers, n)
    /\ sources' = Drop(sources, n)
    /\ inst' = IF n \in DOMAIN tailers THEN Cancel({tailers[n]}) ELSE inst

\* A source that is no longer configured.
RemoveGone(n) ==
    /\ watcher = "apply"
    /\ n \in left \ DOMAIN target
    /\ Remove(n)
    /\ left' = left \ {n}
    /\ UNCHANGED <<watermark, watcher, target, current, missed, dbVars, stopVars>>

Removed == left \subseteq DOMAIN target

\* A source whose configuration is the same stays.
KeepSame(n) ==
    /\ watcher = "apply" /\ Removed
    /\ n \in left \cap DOMAIN current
    /\ current[n] = target[n]
    /\ left' = left \ {n}
    /\ UNCHANGED <<watermark, watcher, target, current, missed, dbVars, mgrVars,
                   stopVars>>

\* A source that changed is removed first, to be added again.
RemoveChanged(n) ==
    /\ watcher = "apply" /\ Removed
    /\ n \in left \cap DOMAIN current
    /\ current[n] # target[n]
    /\ Remove(n)
    /\ current' = Drop(current, n)
    /\ UNCHANGED <<watermark, watcher, target, left, missed, dbVars, stopVars>>

\* Add, up to the unlock: the tailer is in the maps and not started.
AddCreate(n) ==
    /\ watcher = "apply" /\ Removed
    /\ n \in left \ DOMAIN current
    /\ createTailer(target[n])
    /\ inst' = Append(inst, [name |-> n, state |-> "created", cancelled |-> FALSE])
    /\ tailers' = Set(tailers, n, Len(inst) + 1)
    /\ sources' = Set(sources, n, target[n])
    /\ left' = left \ {n}
    /\ watcher' = "start"
    /\ UNCHANGED <<watermark, target, current, missed, dbVars, stopVars>>

\* Add, when createTailer fails: an error is logged.
AddFails(n) ==
    /\ watcher = "apply" /\ Removed
    /\ n \in left \ DOMAIN current
    /\ ~createTailer(target[n])
    /\ left' = left \ {n}
    /\ UNCHANGED <<watermark, watcher, target, current, missed, dbVars, mgrVars,
                   stopVars>>

\* t.Start: the goroutine of the tailer made last.
AddStart ==
    /\ watcher = "start"
    /\ inst' = [inst EXCEPT ![Len(inst)].state = "running"]
    /\ watcher' = "apply"
    /\ UNCHANGED <<watermark, tailers, sources, missed, dbVars, planVars,
                   stopVars>>

ReconcileDone ==
    /\ watcher = "apply"
    /\ left = {}
    /\ watcher' = "idle"
    /\ UNCHANGED <<watermark, missed, dbVars, planVars, mgrVars, stopVars>>

-----------------------------------------------------------------------------
(* Shutdown and the tailer goroutines.                                     *)

Signal ==
    /\ ~ctxDone
    /\ ctxDone' = TRUE
    /\ UNCHANGED <<watermark, watcher, stopper, stopping, missed, dbVars,
                   planVars, mgrVars>>

\* Mutant: only one of the two maps is emptied.
SourcesKept == sources

SourcesCleared == Nothing

\* StopAll, under tm.mu: the maps are emptied.
StopAll ==
    /\ ctxDone
    /\ stopper = "idle"
    /\ stopping' = {tailers[n] : n \in DOMAIN tailers}
    /\ tailers' = Nothing
    /\ sources' = SourcesCleared
    /\ stopper' = "stopping"
    /\ UNCHANGED <<watermark, watcher, inst, ctxDone, missed, dbVars, planVars>>

\* StopAll, after the unlock: each tailer is stopped.
StopEach ==
    /\ stopper = "stopping"
    /\ inst' = Cancel(stopping)
    /\ stopper' = "stopped"
    /\ UNCHANGED <<watermark, watcher, tailers, sources, ctxDone, stopping,
                   missed, dbVars, planVars>>

\* Mutant: the tailer's context does not derive from ctx.
DoneAlone(i) == inst[i].cancelled

CtxDone(i) == inst[i].cancelled \/ ctxDone

\* A tailer goroutine sees its context, derived from ctx, cancelled.
TailerExits(i) ==
    /\ inst[i].state = "running"
    /\ CtxDone(i)
    /\ inst' = [inst EXCEPT ![i].state = "exited"]
    /\ UNCHANGED <<watermark, watcher, tailers, sources, missed, dbVars,
                   planVars, stopVars>>

-----------------------------------------------------------------------------
Watcher ==
    \/ InitWatermarks \/ InitFails \/ FirstPoll \/ Poll \/ LoadFromStore \/ WatcherStops
    \/ LoadFails
    \/ Reconcile \/ AddStart \/ ReconcileDone
    \/ \E n \in Names : \/ RemoveGone(n) \/ KeepSame(n) \/ RemoveChanged(n)
                        \/ AddCreate(n) \/ AddFails(n)

API ==
    \E n \in Names :
        \/ handleDeleteSource(n)
        \/ \E c \in Configs : \/ handleCreateSource(n, c)
                               \/ \E new \in Names : handleUpdateSource(n, new, c)

Exits == \E i \in 1..Len(inst) : TailerExits(i)

Next == API \/ Import \/ Watcher \/ Signal \/ StopAll \/ StopEach \/ Exits

Spec == Init /\ [][Next]_vars

\* Goroutines are scheduled and the ticker keeps firing.  Edits, the import and
\* the signal are the environment's.
FairSpec ==
    /\ Spec
    /\ WF_vars(Watcher)
    /\ WF_vars(StopAll) /\ WF_vars(StopEach)
    /\ WF_vars(Exits)

-----------------------------------------------------------------------------
(* Properties.                                                             *)

\* Until shutdown the manager controls exactly the tailers that run: one that
\* is started and not cancelled is the one in the map under its name, so no
\* source is read by two tailers that nobody stops, and none is beyond Remove.
OneManagedTailer ==
    \A i \in 1..Len(inst) :
        inst[i].state = "running" /\ ~inst[i].cancelled /\ ~ctxDone =>
            inst[i].name \in DOMAIN tailers /\ tailers[inst[i].name] = i

\* The tailers are the configured ones.
Applied ==
    LET good == {n \in DOMAIN rows : createTailer(rows[n].cfg)}
    IN  /\ sources = [n \in good |-> rows[n].cfg]
        /\ \A n \in good : inst[tailers[n]].state = "running" /\ ~inst[tailers[n]].cancelled

\* A source that was imported is one that createTailer accepts: the file is checked
\* for all that a tailer asks for, except that its names are proper.
ImportedCreatable ==
    \A n \in DOMAIN rows :
        LET c == rows[n].cfg
        IN  rows[n].by = "import" =>
               createTailer(c) \/ "bad" \in {c.container, c.unit, c.pod, c.namespace}

\* Once the table is left alone the running tailers are the ones it describes,
\* unless the last edits are of the kinds the watermark does not show; a reload
\* makes up for all the earlier ones.
HotReloadApplied == <>[](Applied \/ ctxDone \/ missed)

\* "Sources, outputs, and alert rules hot-reload without restart"
HotReloadWithoutRestart == <>[](Applied \/ ctxDone)

\* Shutdown ends every tailer, the ones a Reconcile in progress adds behind
\* StopAll included.
ShutdownEndsTailers ==
    ctxDone ~> [](\A i \in 1..Len(inst) : inst[i].state = "exited")

=============================================================================
