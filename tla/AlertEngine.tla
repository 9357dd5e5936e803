---------------------------- MODULE AlertEngine ----------------------------
(***************************************************************************)
(* internal/alert/engine.go and ratelimit.go: the alert engine.            *)
(*                                                                         *)
(* The processing goroutine evaluates queued lines against the rules; the  *)
(* goroutines that report a change of a source's health evaluate it        *)
(* themselves, inside the callback of the health monitor.  Both fire       *)
(* events through one rate limiter, while the configuration watcher        *)
(* replaces the rules and main closes the engine.                          *)
(*                                                                         *)
(* Rules are named by numbers, in the order in which they are evaluated.   *)
(***************************************************************************)
EXTENDS Integers, Sequences, FiniteSets

CONSTANTS Names,        \* names a rule can have
          Sources,      \* the sources of lines and of health reports
          Lines,        \* the lines the pipeline may pass on
          Reporters,    \* goroutines that report the health of a source
          QueueCap,     \* processQueueSize
          MaxRecent,    \* maxRecentEvents
          MaxLines,     \* bound on the lines explored
          MaxTime       \* bound on the clock

ASSUME AlertEngineAssumption ==
    /\ Names \in SUBSET Nat
    /\ Lines \subseteq [kind : {"line"}, source : Sources, level : STRING, matches : BOOLEAN]
    /\ "loop" \notin Reporters
    /\ QueueCap \in Nat \ {0}
    /\ MaxRecent \in Nat \ {0}
    /\ MaxLines \in Nat
    /\ MaxTime \in Nat

VARIABLES
    now,        \* the clock
    ruleSets,   \* every set of compiled rules installed so far: e.evaluators is
                \* the last one, a goroutine may still hold an older one
    windows,    \* the timestamps of the error_rate evaluators, per set and rule
    stats,      \* e.ruleStats: FireCount by name
    queue,      \* e.processCh
    offered,    \* number of lines ProcessLine was called with: their identities
    lastFire,   \* rateLimiter.lastFire, for the rules that have fired
    recent,     \* e.recent: the rules of the events
    pc,         \* where each goroutine is
    held,       \* the set of rules each goroutine works with
    todo,       \* the rules each goroutine has still to evaluate
    subject,    \* the line, or change of health, each goroutine evaluates
    event,      \* the event each goroutine is firing
    closer,     \* progress of main inside Close
    fires,      \* history: events the rate limiter let through
    dropped     \* history: names that a reload has removed

engineVars == <<now, ruleSets, windows, stats, queue, offered, lastFire, recent,
                pc, held, todo, subject, event, closer, fires, dropped>>

Threads == {"loop"} \cup Reporters

LogLevels == [debug |-> 0, info |-> 1, warn |-> 2, error |-> 3, fatal |-> 4]

Rule == [type : {"pattern", "level", "error_rate", "health_change"},
         pattern : {"valid", "invalid"}, level : DOMAIN LogLevels \cup {""},
         source : Sources \cup {""}, threshold : Nat, window : Nat, cooldown : Nat]

\* A set of rules by name.
IsRuleSet(rs) == DOMAIN rs \in SUBSET Names /\ \A n \in DOMAIN rs : rs[n] \in Rule

NoEvent == [rule |-> 0, cooldown |-> 0, errors |-> {}]
NoSubject == [source |-> "none"]

EngineTypeOK ==
    /\ now \in 0..MaxTime
    /\ \A g \in DOMAIN ruleSets : IsRuleSet(ruleSets[g])
    /\ DOMAIN windows = DOMAIN ruleSets
    /\ \A g \in DOMAIN windows : \A n \in Names :
          windows[g][n] \subseteq [id : 1..MaxLines, at : 0..MaxTime]
    /\ stats \in [Names -> Nat]
    /\ Len(queue) <= QueueCap
    /\ offered \in 0..MaxLines
    /\ lastFire \in [Names -> -1..MaxTime]
    /\ Len(recent) <= MaxRecent
    /\ pc \in [Threads -> {"idle", "callback", "eval", "fire", "record", "remember", "notify", "exited"}]
    /\ held \in [Threads -> Nat]
    /\ todo \in [Threads -> SUBSET Names]
    /\ closer \in {"open", "waiting", "closed"}
    /\ dropped \in SUBSET Names

\* NewEngine, with rules that compile.
EngineInit(rs) ==
    /\ now = 0
    /\ ruleSets = <<rs>>
    /\ windows = << [n \in Names |-> {}] >>
    /\ stats = [n \in Names |-> 0]
    /\ queue = <<>>
    /\ offered = 0
    /\ lastFire = [n \in Names |-> -1]
    /\ recent = <<>>
    /\ pc = [t \in Threads |-> "idle"]
    /\ held = [t \in Threads |-> 0]
    /\ todo = [t \in Threads |-> {}]
    /\ subject = [t \in Threads |-> NoSubject]
    /\ event = [t \in Threads |-> NoEvent]
    /\ closer = "open"
    /\ fires = <<>>
    /\ dropped = {}

Tick ==
    /\ now < MaxTime
    /\ now' = now + 1
    /\ UNCHANGED <<ruleSets, windows, stats, queue, offered, lastFire, recent, pc,
                   held, todo, subject, event, closer, fires, dropped>>

-----------------------------------------------------------------------------
(* The pipeline: ProcessLine never blocks.                                 *)

Numbered(line, id) ==
    [kind |-> "line", source |-> line.source, level |-> line.level,
     matches |-> line.matches, id |-> id]

ProcessLine(line) ==
    /\ closer = "open"
    /\ offered < MaxLines
    /\ offered' = offered + 1
    /\ queue' = IF Len(queue) < QueueCap
                THEN Append(queue, Numbered(line, offered + 1)) ELSE queue
    /\ UNCHANGED <<now, ruleSets, windows, stats, lastFire, recent, pc, held, todo,
                   subject, event, closer, fires, dropped>>

-----------------------------------------------------------------------------
(* Evaluation: a goroutine takes the current set of rules and goes through *)
(* it, firing on the way.                                                  *)

Current == Len(ruleSets)

\* The checks of evaluate before an evaluator looks at its own state: those of
\* patternEvaluator, levelEvaluator and errorRateEvaluator, and the filter of
\* ProcessHealthChange.
Applies(r, about) ==
    /\ r.source \in {"", about.source}
    /\ CASE r.type = "health_change" -> about.kind = "health"
         [] r.type = "pattern" -> about.kind = "line" /\ about.matches
         [] r.type = "level" ->
               /\ about.kind = "line"
               /\ about.level \in DOMAIN LogLevels
               /\ LogLevels[about.level] >= LogLevels[r.level]
         [] r.type = "error_rate" ->
               /\ about.kind = "line"
               /\ about.level \in DOMAIN LogLevels
               /\ LogLevels[about.level] >= LogLevels["error"]

\* e.evaluators is read under the lock and kept; of its rules, those that apply are
\* evaluated in order.
Snapshot(t, about) ==
    /\ held' = [held EXCEPT ![t] = Current]
    /\ todo' = [todo EXCEPT ![t] = {n \in DOMAIN ruleSets[Current] :
                                        Applies(ruleSets[Current][n], about)}]
    /\ subject' = [subject EXCEPT ![t] = about]
    /\ pc' = [pc EXCEPT ![t] = "eval"]

\* processLoop: for line := range e.processCh
TakeLine ==
    /\ pc["loop"] = "idle"
    /\ queue # <<>>
    /\ Snapshot("loop", Head(queue))
    /\ queue' = Tail(queue)
    /\ UNCHANGED <<now, ruleSets, windows, stats, offered, lastFire, recent, event,
                   closer, fires, dropped>>

\* The channel is closed and empty.
LoopExits ==
    /\ pc["loop"] = "idle"
    /\ queue = <<>>
    /\ closer # "open"
    /\ pc' = [pc EXCEPT !["loop"] = "exited"]
    /\ UNCHANGED <<now, ruleSets, windows, stats, queue, offered, lastFire, recent,
                   held, todo, subject, event, closer, fires, dropped>>

\* ProcessHealthChange, called by the health monitor in the reporter's goroutine.
ProcessHealthChange(t) ==
    /\ pc[t] = "callback"
    /\ Snapshot(t, subject[t])
    /\ UNCHANGED <<now, ruleSets, windows, stats, queue, offered, lastFire, recent,
                   event, closer, fires, dropped>>

NextRule(t) == CHOOSE n \in todo[t] : \A m \in todo[t] : n <= m

\* Mutant: the timestamps are kept when the rule fires.
AfterFiringKept(errors) == errors

AfterFiring(errors) == {}

\* errorRateEvaluator: the errors in the window, this one included.
InWindow(r, errors) == {e \in errors : e.at + r.window >= now}

\* One rule is evaluated; the goroutine fires its event, or goes on.
Evaluate(t) ==
    /\ pc[t] = "eval"
    /\ todo[t] # {}
    /\ LET n == NextRule(t)
           r == ruleSets[held[t]][n]
           errors == InWindow(r, windows[held[t]][n] \cup {[id |-> subject[t].id, at |-> now]})
           Fires(es) == /\ event' = [event EXCEPT ![t] = [rule |-> n, cooldown |-> r.cooldown,
                                                          errors |-> es]]
                        /\ pc' = [pc EXCEPT ![t] = "fire"]
       IN  /\ todo' = [todo EXCEPT ![t] = @ \ {n}]
           /\ \/ r.type # "error_rate" /\ Fires({}) /\ UNCHANGED windows
              \/ /\ r.type = "error_rate"
                 /\ IF Cardinality(errors) >= r.threshold
                    THEN /\ Fires({e.id : e \in errors})
                         /\ windows' = [windows EXCEPT ![held[t]][n] = AfterFiring(errors)]
                    ELSE /\ windows' = [windows EXCEPT ![held[t]][n] = errors]
                         /\ UNCHANGED <<event, pc>>
    /\ UNCHANGED <<now, ruleSets, stats, queue, offered, lastFire, recent, held,
                   subject, closer, fires, dropped>>

\* The goroutine is through with the rules.
Evaluated(t) ==
    /\ pc[t] = "eval"
    /\ todo[t] = {}
    /\ pc' = [pc EXCEPT ![t] = "idle"]
    /\ subject' = [subject EXCEPT ![t] = NoSubject]
    /\ event' = [event EXCEPT ![t] = NoEvent]
    /\ held' = [held EXCEPT ![t] = 0]
    /\ UNCHANGED <<now, ruleSets, windows, stats, queue, offered, lastFire, recent,
                   todo, closer, fires, dropped>>

-----------------------------------------------------------------------------
(* fireEvent.                                                              *)

\* Mutant: a rule may fire again one tick too early.
CoolOffByOne(n, cooldown) == lastFire[n] = -1 \/ now - lastFire[n] + 1 >= cooldown

Cool(n, cooldown) == lastFire[n] = -1 \/ now - lastFire[n] >= cooldown

\* rateLimiter.Allow, under its lock; a rule without a cooldown leaves no trace.
Allow(t) ==
    /\ pc[t] = "fire"
    /\ LET n == event[t].rule
           cooldown == event[t].cooldown
       IN  IF cooldown = 0 \/ Cool(n, cooldown)
           THEN /\ lastFire' = IF cooldown = 0 THEN lastFire ELSE [lastFire EXCEPT ![n] = now]
                /\ fires' = Append(fires, [rule |-> n, cooldown |-> cooldown,
                                         errors |-> event[t].errors, at |-> now])
                /\ pc' = [pc EXCEPT ![t] = "record"]
           ELSE /\ pc' = [pc EXCEPT ![t] = "eval"]
                /\ UNCHANGED <<lastFire, fires>>
    /\ UNCHANGED <<now, ruleSets, windows, stats, queue, offered, recent, held, todo,
                   subject, event, closer, dropped>>

\* The statistics of the rules in place now, not of those that were evaluated.
CountFire(n) == IF n \in DOMAIN ruleSets[Current] THEN [stats EXCEPT ![n] = @ + 1] ELSE stats

Remember(n) == Append(IF Len(recent) >= MaxRecent THEN Tail(recent) ELSE recent, n)

\* Each under a lock of its own: another goroutine may get in between.
Record(t) ==
    /\ pc[t] = "record"
    /\ stats' = CountFire(event[t].rule)
    /\ pc' = [pc EXCEPT ![t] = "remember"]
    /\ UNCHANGED <<now, ruleSets, windows, queue, offered, lastFire, recent, held, todo,
                   subject, event, closer, fires, dropped>>

AddRecent(t) ==
    /\ pc[t] = "remember"
    /\ recent' = Remember(event[t].rule)
    /\ pc' = [pc EXCEPT ![t] = "notify"]
    /\ UNCHANGED <<now, ruleSets, windows, stats, queue, offered, lastFire, held, todo,
                   subject, event, closer, fires, dropped>>

\* The event store and the notifiers return; their errors are only logged.
Notified(t) ==
    /\ pc[t] = "notify"
    /\ pc' = [pc EXCEPT ![t] = "eval"]
    /\ UNCHANGED <<now, ruleSets, windows, stats, queue, offered, lastFire, recent,
                   held, todo, subject, event, closer, fires, dropped>>

-----------------------------------------------------------------------------
(* ReloadRules, called by the configuration watcher.                       *)

\* compileRule: the expression compiles, the level exists.
Compiles(r) ==
    /\ r.type = "pattern" => r.pattern = "valid"
    /\ r.type = "level" => r.level \in DOMAIN LogLevels

\* Mutant: the statistics start afresh.
KeptStatsNone(rs) == [n \in Names |-> 0]

\* Statistics are kept by name.
KeptStats(rs) == [n \in Names |-> IF n \in DOMAIN rs THEN stats[n] ELSE 0]

\* All rules compile and replace the old ones, with empty windows, or none does.
ReloadRules(rs) ==
    /\ IF \A n \in DOMAIN rs : Compiles(rs[n])
       THEN /\ ruleSets' = Append(ruleSets, rs)
            /\ windows' = Append(windows, [n \in Names |-> {}])
            /\ stats' = KeptStats(rs)
            /\ dropped' = dropped \cup (DOMAIN ruleSets[Current] \ DOMAIN rs)
       ELSE UNCHANGED <<ruleSets, windows, stats, dropped>>
    /\ UNCHANGED <<now, queue, offered, lastFire, recent, pc, held, todo, subject,
                   event, closer, fires>>

-----------------------------------------------------------------------------
(* Close, once the pipeline has returned.                                  *)

CloseQueue ==
    /\ closer = "open"
    /\ closer' = "waiting"
    /\ UNCHANGED <<now, ruleSets, windows, stats, queue, offered, lastFire, recent,
                   pc, held, todo, subject, event, fires, dropped>>

\* <-e.done, or closeDrainTimeout has passed: main goes on either way.
CloseReturn ==
    /\ closer = "waiting"
    /\ closer' = "closed"
    /\ UNCHANGED <<now, ruleSets, windows, stats, queue, offered, lastFire, recent,
                   pc, held, todo, subject, event, fires, dropped>>

-----------------------------------------------------------------------------
EngineStep(t) ==
    \/ ProcessHealthChange(t)
    \/ Evaluate(t)
    \/ Evaluated(t)
    \/ Allow(t)
    \/ Record(t)
    \/ AddRecent(t)
    \/ Notified(t)

EngineInput == Tick \/ \E line \in Lines : ProcessLine(line)

EngineNext ==
    \/ TakeLine
    \/ LoopExits
    \/ \E t \in Threads : EngineStep(t)
    \/ CloseQueue
    \/ CloseReturn

=============================================================================
