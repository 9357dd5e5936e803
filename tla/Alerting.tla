------------------------------ MODULE Alerting ------------------------------
(***************************************************************************)
(* The alert engine with what drives it: the health monitor                *)
(* (internal/health), whose callback runs the engine in the goroutine of   *)
(* the reporter, and the rules in the database, which the API edits        *)
(* (internal/api/handlers_alert_rules.go) and the configuration watcher    *)
(* loads again when it sees that they have changed (cmd/tail.go and        *)
(* cmd/alerts.go).                                                         *)
(***************************************************************************)
EXTENDS AlertEngine

CONSTANTS Requests,     \* bodies of requests to create or update a rule
          InitialRows,  \* the table of rules at start-up
          MaxEdits,     \* bound on the edits of the table
          Statuses,     \* the statuses reported
          MaxReports,   \* bound on the reports of health
          MaxInputs     \* bound on lines, reports, edits and ticks together

\* A row of the alert_rules table, or the body of a request.
Row == [rule : Rule, enabled : BOOLEAN]

ASSUME AlertingAssumption ==
    /\ Requests \subseteq Row
    /\ \E D \in SUBSET Names : InitialRows \in [D -> Row]
    /\ MaxEdits \in Nat
    /\ MaxReports \in Nat
    /\ MaxInputs \in Nat

VARIABLES
    status,     \* the status of each source in the health monitor
    reports,    \* number of reports so far
    rows,       \* the alert_rules table: a row per rule that exists
    edits,      \* number of edits so far
    dirty,      \* the watcher's next poll will find a newer updated_at
    watcher,    \* where the watcher is
    loading,    \* the rules it has read
    missed      \* history: since the last poll that found a change, a row was
                \* deleted or the rules could not be read

tableVars == <<rows, edits, dirty, missed>>
watcherVars == <<watcher, loading>>
healthVars == <<status, reports>>

vars == <<engineVars, tableVars, watcherVars, healthVars>>

\* The enabled rules of a table, as the engine takes them.
Enabled(table) ==
    LET on == {n \in DOMAIN table : table[n].enabled}
    IN  [n \in on |-> table[n].rule]

TypeOK ==
    /\ EngineTypeOK
    /\ status \in [Sources -> Statuses \cup {"starting"}]
    /\ reports \in 0..MaxReports
    /\ DOMAIN rows \in SUBSET Names
    /\ \A n \in DOMAIN rows : rows[n] \in Row
    /\ edits \in 0..MaxEdits
    /\ dirty \in BOOLEAN
    /\ watcher \in {"idle", "load", "apply"}
    /\ IsRuleSet(loading)
    /\ missed \in BOOLEAN

Init ==
    /\ EngineInit(Enabled(InitialRows))
    /\ status = [s \in Sources |-> "starting"]
    /\ reports = 0
    /\ rows = InitialRows
    /\ edits = 0
    /\ dirty = FALSE
    /\ watcher = "idle"
    /\ loading = <<>>
    /\ missed = FALSE

-----------------------------------------------------------------------------
(* Monitor.UpdateStatus: the status changes under the lock, the callback   *)
(* runs after it is released, and only for a change.                       *)

UpdateStatus(t, source, new) ==
    /\ pc[t] = "idle"
    /\ reports < MaxReports
    /\ reports' = reports + 1
    /\ status' = [status EXCEPT ![source] = new]
    /\ IF status[source] # new
       THEN /\ pc' = [pc EXCEPT ![t] = "callback"]
            /\ subject' = [subject EXCEPT ![t] = [kind |-> "health", source |-> source]]
       ELSE UNCHANGED <<pc, subject>>
    /\ UNCHANGED <<now, ruleSets, windows, stats, queue, offered, lastFire, recent,
                   held, todo, event, closer, fires, dropped, tableVars,
                   watcherVars>>

-----------------------------------------------------------------------------
(* The API.                                                                *)

\* validateAlertRuleRequest: the durations parse, a level that is given exists.
\* The expression is not compiled, and a level may be left out.
ValidRequest(req) == req.rule.level \in DOMAIN LogLevels \cup {""}

Edit(newRows) ==
    /\ edits < MaxEdits
    /\ edits' = edits + 1
    /\ rows' = newRows
    /\ UNCHANGED <<engineVars, watcherVars, healthVars>>

\* A table without the row n, and with row n in place.
Without(table, n) == [m \in DOMAIN table \ {n} |-> table[m]]
With(table, n, row) == [m \in DOMAIN table \cup {n} |-> IF m = n THEN row ELSE table[m]]

handleCreateAlertRule(n, req) ==
    /\ n \notin DOMAIN rows
    /\ ValidRequest(req)
    /\ Edit(With(rows, n, req))
    /\ dirty' = TRUE
    /\ UNCHANGED missed

\* The request may also rename the rule.
handleUpdateAlertRule(n, new, req) ==
    /\ n \in DOMAIN rows
    /\ new = n \/ new \notin DOMAIN rows
    /\ ValidRequest(req)
    /\ Edit(With(Without(rows, n), new, req))
    /\ dirty' = TRUE
    /\ UNCHANGED missed

\* The newest updated_at does not grow when a row goes away.
handleDeleteAlertRule(n) ==
    /\ n \in DOMAIN rows
    /\ Edit(Without(rows, n))
    /\ missed' = TRUE
    /\ UNCHANGED dirty

-----------------------------------------------------------------------------
(* The configuration watcher: the change is noted before the rules are     *)
(* read, and the rules are read before they are installed.                 *)

Poll ==
    /\ watcher = "idle"
    /\ dirty
    /\ dirty' = FALSE
    /\ missed' = FALSE
    /\ watcher' = "load"
    /\ UNCHANGED <<engineVars, healthVars, rows, edits, loading>>

reloadAlertRulesFromDB ==
    /\ watcher = "load"
    /\ \/ loading' = Enabled(rows) /\ watcher' = "apply" /\ UNCHANGED missed
       \/ watcher' = "idle" /\ missed' = TRUE /\ UNCHANGED loading
    /\ UNCHANGED <<engineVars, healthVars, rows, edits, dirty>>

\* Mutant: what changed until the rules are installed counts as seen.
ApplyMarksSeen ==
    /\ watcher = "apply"
    /\ ReloadRules(loading)
    /\ watcher' = "idle"
    /\ loading' = <<>>
    /\ dirty' = FALSE
    /\ UNCHANGED <<healthVars, rows, edits, missed>>

\* A set of rules one of which does not compile is refused.
Apply ==
    /\ watcher = "apply"
    /\ ReloadRules(loading)
    /\ watcher' = "idle"
    /\ loading' = <<>>
    /\ UNCHANGED <<healthVars, tableVars>>

-----------------------------------------------------------------------------
API ==
    \/ \E n \in Names, req \in Requests :
          \/ handleCreateAlertRule(n, req)
          \/ \E new \in Names : handleUpdateAlertRule(n, new, req)
    \/ \E n \in Names : handleDeleteAlertRule(n)

Watcher == Poll \/ reloadAlertRulesFromDB \/ Apply

Health == \E t \in Reporters, source \in Sources, new \in Statuses : UpdateStatus(t, source, new)

Input ==
    /\ offered + reports + edits + now < MaxInputs
    /\ \/ EngineInput /\ UNCHANGED <<tableVars, watcherVars, healthVars>>
       \/ Health
       \/ API

Next ==
    \/ Input
    \/ EngineNext /\ UNCHANGED <<tableVars, watcherVars, healthVars>>
    \/ Watcher

Spec == Init /\ [][Next]_vars

-----------------------------------------------------------------------------
(* Properties.                                                             *)

\* Whichever goroutines fire them and however the rules are reloaded, two
\* events of one rule are at least the rule's cooldown apart.
CooldownRespected ==
    \A i, j \in DOMAIN fires :
        (i < j /\ fires[i].rule = fires[j].rule /\ fires[i].cooldown > 0 /\ fires[j].cooldown > 0)
            => fires[j].at - fires[i].at >= fires[j].cooldown

\* An error line counts towards at most one event of a rule, and the errors an
\* evaluator holds within its window never reach its threshold unnoticed.
BurstsExact ==
    /\ \A i, j \in DOMAIN fires :
          (i # j /\ fires[i].rule = fires[j].rule) => fires[i].errors \cap fires[j].errors = {}
    /\ \A g \in DOMAIN ruleSets : \A n \in DOMAIN ruleSets[g] :
          LET r == ruleSets[g][n]
          IN  r.type = "error_rate" /\ r.threshold > 0 =>
                 Cardinality(InWindow(r, windows[g][n])) < r.threshold

\* The three accounts of what was fired agree when nobody is firing: the count
\* of a rule that every reload kept, the list of recent events, and the history.
\* The queue and the list stay within their bounds (TypeOK).
BooksAgree ==
    /\ TypeOK
    /\ (\A t \in Threads : pc[t] \in {"idle", "eval", "callback", "exited"}) =>
          /\ \A n \in DOMAIN ruleSets[1] \ dropped :
                stats[n] = Cardinality({i \in DOMAIN fires : fires[i].rule = n})
          /\ Len(recent) = IF Len(fires) < MaxRecent THEN Len(fires) ELSE MaxRecent

\* An edit of the rules is never lost between the API, the watcher and the
\* engine: with the watcher at rest and nothing left to see, the engine runs
\* the enabled rules of the table, if these compile and the change was not one
\* the watcher cannot see.
RulesConverge ==
    (watcher = "idle" /\ ~dirty /\ ~missed /\ \A n \in DOMAIN Enabled(rows) : Compiles(rows[n].rule))
        => ruleSets[Current] = Enabled(rows)

=============================================================================
