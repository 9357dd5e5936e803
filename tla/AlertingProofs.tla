--------------------------- MODULE AlertingProofs ---------------------------
(***************************************************************************)
(* The safety properties of Alerting, proved for any rules, lines and      *)
(* requests, any number of goroutines that report health, and every        *)
(* capacity of the queue and of the list of recent events.                 *)
(***************************************************************************)
EXTENDS Alerting, FiniteSetTheorems, NaturalsInduction, TLAPS

-----------------------------------------------------------------------------
(* The inductive invariant.                                                *)

\* The types TypeOK leaves open: those of what the sequences hold.
RuleSet == UNION {[D -> Rule] : D \in SUBSET Names}
Table == UNION {[D -> Row] : D \in SUBSET Names}
Stamp == [id : 1..MaxLines, at : 0..MaxTime]
Queued == [kind : {"line"}, source : Sources, level : STRING, matches : BOOLEAN, id : 1..MaxLines]
Event == [rule : Names \cup {0}, cooldown : Nat, errors : SUBSET (1..MaxLines)]
Fire == [rule : Names, cooldown : Nat, errors : SUBSET (1..MaxLines), at : 0..MaxTime]

Contents ==
    /\ ruleSets \in Seq(RuleSet) /\ Len(ruleSets) >= 1
    /\ windows \in Seq([Names -> SUBSET Stamp]) /\ Len(windows) = Len(ruleSets)
    /\ queue \in Seq(Queued)
    /\ recent \in Seq(Names)
    /\ fires \in Seq(Fire)
    /\ event \in [Threads -> Event]
    /\ DOMAIN subject = Threads
    /\ rows \in Table
    /\ loading \in RuleSet

\* A goroutine that evaluates works through rules of the set it holds that apply
\* to its subject: the loop's is a line, that of the others a change of health.
Active == {"eval", "fire", "record", "remember", "notify"}

Works(t) ==
    /\ pc[t] \in Active =>
          /\ held[t] \in 1..Len(ruleSets)
          /\ \A n \in todo[t] :
                /\ n \in DOMAIN ruleSets[held[t]]
                /\ Applies(ruleSets[held[t]][n], subject[t])
          /\ IF t = "loop" THEN subject[t] \in Queued ELSE subject[t].kind = "health"
    /\ pc[t] = "callback" => t # "loop" /\ subject[t].kind = "health"
    /\ pc[t] \in {"fire", "record", "remember"} => event[t].rule \in Names
    /\ (pc[t] = "fire" /\ t # "loop") => event[t].errors = {}

Working == \A t \in Threads : Works(t)

\* The rate limiter knows of every event of a rule with a cooldown.
Limited ==
    /\ \A i \in 1..Len(fires) :
          fires[i].cooldown > 0 => fires[i].at <= lastFire[fires[i].rule]
    /\ CooldownRespected

\* The errors within a window are fewer than the threshold of its rule.
Calm(r, errors, clock) ==
    r.type = "error_rate" /\ r.threshold > 0 =>
        Cardinality({e \in errors : e.at + r.window >= clock}) < r.threshold

BelowThreshold ==
    /\ \A g \in 1..Len(windows), n \in Names : IsFiniteSet(windows[g][n])
    /\ \A g \in 1..Len(ruleSets) : \A n \in DOMAIN ruleSets[g] :
          Calm(ruleSets[g][n], windows[g][n], now)

\* The errors of the event the loop has yet to show to the rate limiter.
Pending == IF pc["loop"] = "fire" THEN event["loop"].errors ELSE {}

\* For each rule an error is in one window (w), one event let through (f) or in
\* the pending event (errors pe of the rule pn).
Once(w, f, pn, pe) ==
    /\ \A n \in Names : \A g, h \in 1..Len(w) :
          g # h => \A a \in w[g][n], b \in w[h][n] : a.id # b.id
    /\ \A i \in 1..Len(f), g \in 1..Len(w) : \A a \in w[g][f[i].rule] : a.id \notin f[i].errors
    /\ \A i, j \in 1..Len(f) :
          (i # j /\ f[i].rule = f[j].rule) => f[i].errors \cap f[j].errors = {}
    /\ \A x \in pe, g \in 1..Len(w) : \A a \in w[g][pn] : a.id # x
    /\ \A i \in 1..Len(f) : f[i].rule = pn => f[i].errors \cap pe = {}

\* The line id has not yet counted for rule n.
Unseen(w, f, pn, pe, n, id) ==
    /\ \A g \in 1..Len(w) : \A a \in w[g][n] : a.id # id
    /\ \A i \in 1..Len(f) : f[i].rule = n => id \notin f[i].errors
    /\ pn = n => id \notin pe

\* The lines that have counted come before line id.
Below(w, f, pe, id) ==
    /\ \A n \in Names, g \in 1..Len(w) : \A a \in w[g][n] : a.id < id
    /\ \A i \in 1..Len(f) : \A x \in f[i].errors : x < id
    /\ \A x \in pe : x < id

CountsOnce ==
    /\ Once(windows, fires, event["loop"].rule, Pending)
    /\ \A i \in 1..Len(queue) : Below(windows, fires, Pending, queue[i].id)
    /\ Below(windows, fires, Pending, offered + 1)
    /\ pc["loop"] \in Active => \A n \in todo["loop"] :
          Unseen(windows, fires, event["loop"].rule, Pending, n, subject["loop"].id)

\* Lines are queued in the order of their identities, and the loop works on one
\* that came before those in the queue.
LinesInOrder ==
    /\ \A i, j \in 1..Len(queue) : i < j => queue[i].id < queue[j].id
    /\ \A i \in 1..Len(queue) : queue[i].id <= offered
    /\ pc["loop"] \in Active =>
          /\ subject["loop"].id <= offered
          /\ \A i \in 1..Len(queue) : subject["loop"].id < queue[i].id

\* What was let through is in the books already, or will be: goroutines on their
\* way to the statistics and to the list of recent events.
Recording(n) == {t \in Threads : pc[t] = "record" /\ event[t].rule = n}
Reporting == {t \in Threads : pc[t] \in {"record", "remember"}}
FiresOf(n) == {i \in 1..Len(fires) : fires[i].rule = n}

Books ==
    /\ IsFiniteSet(Reporting)
    /\ Cardinality(Reporting) <= Len(fires)
    /\ Len(recent) = IF Len(fires) - Cardinality(Reporting) < MaxRecent
                     THEN Len(fires) - Cardinality(Reporting) ELSE MaxRecent
    /\ DOMAIN ruleSets[1] \ dropped \subseteq DOMAIN ruleSets[Current]
    /\ \A n \in DOMAIN ruleSets[1] \ dropped :
          stats[n] + Cardinality(Recording(n)) = Cardinality(FiresOf(n))

\* What the watcher has read is what the table holds, unless the next poll will
\* see a change or has lost one.
Converging ==
    /\ RulesConverge
    /\ (watcher = "apply" /\ ~dirty /\ ~missed) => loading = Enabled(rows)

IInv ==
    /\ TypeOK
    /\ Contents
    /\ Working
    /\ Limited
    /\ BelowThreshold
    /\ CountsOnce
    /\ LinesInOrder
    /\ Books
    /\ Converging

-----------------------------------------------------------------------------
(* Lemmas about sequences and sets of numbers.                             *)

LEMMA AppendOf ==
  ASSUME NEW S, NEW q \in Seq(S), NEW e \in S
  PROVE  /\ Append(q, e) \in Seq(S)
         /\ Len(Append(q, e)) = Len(q) + 1
         /\ Len(q) \in Nat
         /\ \A i \in 1..Len(q) : Append(q, e)[i] = q[i]
         /\ Append(q, e)[Len(q) + 1] = e
         /\ \A i \in 1..Len(Append(q, e)) : i \in 1..Len(q) \/ i = Len(q) + 1
         /\ 1..Len(q) \subseteq 1..Len(Append(q, e))
  OBVIOUS

LEMMA TailOf ==
  ASSUME NEW S, NEW q \in Seq(S), q # <<>>
  PROVE  /\ Tail(q) \in Seq(S)
         /\ Len(Tail(q)) = Len(q) - 1
         /\ Len(q) \in Nat /\ Len(q) >= 1
         /\ \A i \in 1..Len(Tail(q)) : i + 1 \in 1..Len(q) /\ Tail(q)[i] = q[i + 1]
         /\ 1 \in 1..Len(q)
         /\ Head(q) = q[1] /\ q[1] \in S
  OBVIOUS

LEMMA ElementOf ==
  ASSUME NEW S, NEW q \in Seq(S), NEW i \in 1..Len(q)
  PROVE  q[i] \in S
  OBVIOUS

\* The rules are evaluated in order: there is a first one.
LEMMA NatMinimum ==
  ASSUME NEW S \in SUBSET Nat, S # {}
  PROVE  \E n \in S : \A m \in S : n <= m
<1>1. IsWellFoundedOn(OpToRel(<, Nat), Nat)
  BY NatLessThanWellFounded
<1>2. PICK x \in S : \A y \in S : ~ (<<y, x>> \in OpToRel(<, Nat))
  BY <1>1, WFMin, Zenon
<1>3. \A y \in S : ~ (y < x)
  BY <1>2 DEF OpToRel
<1> QED
  BY <1>3

-----------------------------------------------------------------------------
(* Frames: the steps that change a part of the state.                      *)

LEMMA FireFrame ==
  ASSUME [Next]_vars
  PROVE  \/ UNCHANGED <<lastFire, fires>>
         \/ \E t \in Threads : Allow(t)
  BY DEF Next, Input, EngineInput, Tick, ProcessLine, Health, UpdateStatus, API,
         handleCreateAlertRule, handleUpdateAlertRule, handleDeleteAlertRule, Edit,
         EngineNext, TakeLine, LoopExits, EngineStep, ProcessHealthChange, Evaluate,
         Evaluated, Record, AddRecent, Notified, CloseQueue, CloseReturn,
         Watcher, Poll, reloadAlertRulesFromDB, Apply, ReloadRules,
         vars, engineVars, tableVars, watcherVars, healthVars

LEMMA RuleFrame ==
  ASSUME [Next]_vars
  PROVE  \/ UNCHANGED <<ruleSets, rows, dirty, missed, watcher, loading, dropped>>
         \/ API \/ Watcher
  BY DEF Next, Input, EngineInput, Tick, ProcessLine, Health, UpdateStatus,
         EngineNext, TakeLine, LoopExits, EngineStep, ProcessHealthChange, Evaluate,
         Evaluated, Allow, Record, AddRecent, Notified, CloseQueue, CloseReturn,
         vars, engineVars, tableVars, watcherVars, healthVars

-----------------------------------------------------------------------------
(* The rate limiter.                                                       *)

LEMMA LimitedKeeps ==
  ASSUME IInv, [Next]_vars
  PROVE  Limited'
<1>1. CASE UNCHANGED <<lastFire, fires>>
  BY <1>1 DEF IInv, Limited, CooldownRespected
<1>2. ASSUME NEW t \in Threads, Allow(t)
      PROVE  Limited'
  <2>1. CASE UNCHANGED <<lastFire, fires>>
    BY <2>1 DEF IInv, Limited, CooldownRespected
  <2> DEFINE n == event[t].rule
             c == event[t].cooldown
             e == [rule |-> n, cooldown |-> c, errors |-> event[t].errors, at |-> now]
  <2>2. CASE /\ c = 0 \/ Cool(n, c)
             /\ lastFire' = IF c = 0 THEN lastFire ELSE [lastFire EXCEPT ![n] = now]
             /\ fires' = Append(fires, e)
    <3>1. n \in Names /\ event[t] \in Event
      BY <1>2 DEF IInv, Contents, Working, Works, Allow
    <3>2. c \in Nat /\ now \in 0..MaxTime /\ e \in Fire /\ fires \in Seq(Fire)
      BY <3>1 DEF IInv, Contents, TypeOK, EngineTypeOK, Event, Fire
    <3>3. lastFire \in [Names -> -1..MaxTime] /\ MaxTime \in Nat
      BY AlertEngineAssumption DEF IInv, TypeOK, EngineTypeOK
    <3>4. e.rule = n /\ e.cooldown = c /\ e.at = now
      OBVIOUS
    <3> HIDE DEF e
    <3>5. /\ Len(fires') = Len(fires) + 1
          /\ \A i \in 1..Len(fires) : fires'[i] = fires[i] /\ fires[i] \in Fire
          /\ fires'[Len(fires) + 1] = e
          /\ \A i \in 1..Len(fires') : i \in 1..Len(fires) \/ i = Len(fires) + 1
          /\ Len(fires) \in Nat
      BY <2>2, <3>2, AppendOf, ElementOf
    <3>6. \A i \in 1..Len(fires) : /\ fires[i].rule \in Names
                                   /\ fires[i].cooldown \in Nat
                                   /\ fires[i].at \in 0..MaxTime
      BY <3>5 DEF Fire
    <3>7. ASSUME NEW i \in 1..Len(fires), fires[i].cooldown > 0
          PROVE  /\ fires[i].at <= lastFire'[fires[i].rule]
                 /\ (fires[i].rule = n /\ c > 0) => now - fires[i].at >= c
      <4>1. fires[i].at <= lastFire[fires[i].rule]
        BY <3>7 DEF IInv, Limited
      <4>2. fires[i].rule = n /\ c > 0 => now - lastFire[n] >= c
        BY <2>2, <3>2, <3>3, <3>6, <4>1 DEF Cool
      <4>3. lastFire[fires[i].rule] <= lastFire'[fires[i].rule]
        <5>1. fires[i].rule = n /\ c > 0 => lastFire[n] <= now
          BY <3>1, <3>2, <3>3, <4>2
        <5> QED
          BY <2>2, <3>1, <3>2, <3>3, <3>6, <5>1
      <4>4. fires[i].at <= lastFire'[fires[i].rule]
        <5>1. lastFire' \in [Names -> -1..MaxTime]
          BY <2>2, <3>1, <3>2, <3>3
        <5> QED
          BY <3>3, <3>6, <4>1, <4>3, <5>1
      <4>5. (fires[i].rule = n /\ c > 0) => now - fires[i].at >= c
        BY <3>1, <3>2, <3>3, <3>6, <4>1, <4>2
      <4> QED
        BY <4>4, <4>5
    <3>8. c > 0 => now <= lastFire'[n]
      BY <2>2, <3>1, <3>2, <3>3
    <3>9. \A i \in 1..Len(fires') :
              fires'[i].cooldown > 0 => fires'[i].at <= lastFire'[fires'[i].rule]
      BY <3>4, <3>5, <3>7, <3>8
    <3>10. CooldownRespected'
      <4> SUFFICES ASSUME NEW i \in 1..Len(fires'), NEW j \in 1..Len(fires'), i < j,
                          fires'[i].rule = fires'[j].rule,
                          fires'[i].cooldown > 0, fires'[j].cooldown > 0
                   PROVE  fires'[j].at - fires'[i].at >= fires'[j].cooldown
        <5>1. DOMAIN fires' = 1..Len(fires')
          BY <2>2, <3>2, AppendOf
        <5> QED
          BY <5>1 DEF CooldownRespected
      <4>1. i \in 1..Len(fires)
        BY <3>5
      <4>2. CASE j \in 1..Len(fires)
        <5>1. DOMAIN fires = 1..Len(fires)
          BY <3>2
        <5> QED
          BY <3>5, <4>1, <4>2, <5>1 DEF IInv, Limited, CooldownRespected
      <4>3. CASE j = Len(fires) + 1
        BY <3>4, <3>5, <3>7, <4>1, <4>3
      <4> QED
        BY <3>5, <4>2, <4>3
    <3> QED
      BY <3>9, <3>10 DEF Limited
  <2> QED
    BY <1>2, <2>1, <2>2 DEF Allow
<1> QED
  BY <1>1, <1>2, FireFrame

-----------------------------------------------------------------------------
(* The table, the watcher and the engine.                                  *)

LEMMA ConvergingKeeps ==
  ASSUME IInv, [Next]_vars
  PROVE  Converging'
<1>1. CASE UNCHANGED <<ruleSets, rows, dirty, missed, watcher, loading, dropped>>
  BY <1>1 DEF IInv, Converging, RulesConverge, Current, Enabled, Compiles
<1>2. CASE API
  <2>1. UNCHANGED <<ruleSets, watcher, loading>> /\ (dirty' \/ missed')
    BY <1>2 DEF API, handleCreateAlertRule, handleUpdateAlertRule, handleDeleteAlertRule,
                Edit, engineVars, watcherVars
  <2> QED
    BY <2>1 DEF Converging, RulesConverge
<1>3. CASE Poll
  BY <1>3 DEF Poll, Converging, RulesConverge
<1>4. CASE reloadAlertRulesFromDB
  BY <1>4 DEF reloadAlertRulesFromDB, Converging, RulesConverge, Enabled
<1>5. CASE Apply
  <2>1. watcher = "apply" /\ watcher' = "idle" /\ UNCHANGED <<rows, dirty, missed>>
    BY <1>5 DEF Apply, tableVars
  <2>2. SUFFICES ASSUME ~dirty, ~missed, \A n \in DOMAIN Enabled(rows) : Compiles(rows[n].rule)
                 PROVE  ruleSets'[Len(ruleSets')] = Enabled(rows)
    BY <2>1, Zenon DEF Converging, RulesConverge, Current, Enabled, Compiles
  <2>3. loading = Enabled(rows)
    BY <2>1, <2>2 DEF IInv, Converging
  <2>4. \A n \in DOMAIN loading : Compiles(loading[n])
    BY <2>2, <2>3 DEF Enabled
  <2>5. ruleSets' = Append(ruleSets, loading)
    BY <1>5, <2>4 DEF Apply, ReloadRules
  <2>6. ruleSets \in Seq(RuleSet) /\ loading \in RuleSet
    BY DEF IInv, Contents
  <2> QED
    BY <2>3, <2>5, <2>6, AppendOf
<1> QED
  BY <1>1, <1>2, <1>3, <1>4, <1>5, RuleFrame DEF Watcher

-----------------------------------------------------------------------------
(* Types.                                                                  *)

\* The part of TypeOK that Contents does not give.
Simple ==
    /\ now \in 0..MaxTime
    /\ stats \in [Names -> Nat]
    /\ Len(queue) <= QueueCap
    /\ offered \in 0..MaxLines
    /\ lastFire \in [Names -> -1..MaxTime]
    /\ Len(recent) <= MaxRecent
    /\ pc \in [Threads -> {"idle", "callback", "eval", "fire", "record", "remember", "notify", "exited"}]
    /\ held \in [Threads -> Nat]
    /\ todo \in [Threads -> SUBSET Names]
    /\ closer \in {"open", "waiting", "closed"}
    /\ dropped \in SUBSET Names
    /\ status \in [Sources -> Statuses \cup {"starting"}]
    /\ reports \in 0..MaxReports
    /\ edits \in 0..MaxEdits
    /\ dirty \in BOOLEAN
    /\ watcher \in {"idle", "load", "apply"}
    /\ missed \in BOOLEAN

LEMMA RuleSetOf ==
  ASSUME NEW rs \in RuleSet
  PROVE  IsRuleSet(rs) /\ DOMAIN rs \subseteq Names /\ \A n \in DOMAIN rs : rs[n] \in Rule
  BY DEF RuleSet, IsRuleSet

LEMMA TableOf ==
  ASSUME NEW table \in Table
  PROVE  /\ DOMAIN table \in SUBSET Names
         /\ \A n \in DOMAIN table : table[n] \in Row
         /\ Enabled(table) \in RuleSet
<1>1. DOMAIN table \in SUBSET Names /\ \A n \in DOMAIN table : table[n] \in Row
  BY DEF Table
<1> DEFINE on == {n \in DOMAIN table : table[n].enabled}
<1>2. on \in SUBSET Names /\ \A n \in on : table[n].rule \in Rule
  BY <1>1 DEF Row
<1>3. Enabled(table) = [n \in on |-> table[n].rule]
  BY DEF Enabled
<1> HIDE DEF on
<1>4. Enabled(table) \in [on -> Rule]
  BY <1>2, <1>3
<1> QED
  BY <1>1, <1>2, <1>4 DEF RuleSet

LEMMA EditedTable ==
  ASSUME NEW table \in Table, NEW n \in Names, NEW row \in Row
  PROVE  Without(table, n) \in Table /\ With(table, n, row) \in Table
<1>1. DOMAIN table \in SUBSET Names /\ \A m \in DOMAIN table : table[m] \in Row
  BY TableOf
<1>2. Without(table, n) \in [DOMAIN table \ {n} -> Row]
  BY <1>1 DEF Without
<1>3. With(table, n, row) \in [DOMAIN table \cup {n} -> Row]
  BY <1>1 DEF With
<1>4. DOMAIN table \ {n} \in SUBSET Names /\ DOMAIN table \cup {n} \in SUBSET Names
  BY <1>1
<1> QED
  BY <1>2, <1>3, <1>4 DEF Table

LEMMA EmptyRuleSet == <<>> \in RuleSet
<1>1. <<>> \in [{} -> Rule] /\ {} \in SUBSET Names
  OBVIOUS
<1> QED
  BY <1>1 DEF RuleSet

\* The contents of the sequences give the rest of TypeOK.
LEMMA ContentsTypes ==
  ASSUME NEW rss \in Seq(RuleSet), NEW ws \in Seq([Names -> SUBSET Stamp]), Len(ws) = Len(rss)
  PROVE  /\ \A g \in DOMAIN rss : IsRuleSet(rss[g])
         /\ DOMAIN ws = DOMAIN rss
         /\ \A g \in DOMAIN ws : \A n \in Names : ws[g][n] \subseteq [id : 1..MaxLines, at : 0..MaxTime]
<1>1. \A g \in DOMAIN rss : rss[g] \in RuleSet
  OBVIOUS
<1>2. \A g \in DOMAIN ws : ws[g] \in [Names -> SUBSET Stamp]
  OBVIOUS
<1> QED
  BY <1>1, <1>2, RuleSetOf DEF Stamp

LEMMA TypesSplit ==
  /\ TypeOK => Simple
  /\ Contents /\ Simple => TypeOK
<1>1. TypeOK => Simple
  BY DEF TypeOK, EngineTypeOK, Simple
<1>2. ASSUME Contents, Simple PROVE TypeOK
  BY <1>2, ContentsTypes, RuleSetOf, TableOf DEF Contents, Simple, TypeOK, EngineTypeOK
<1> QED
  BY <1>1, <1>2

LEMMA TypesSplitPrime ==
  ASSUME Contents', Simple'
  PROVE  TypeOK'
  BY ContentsTypes, RuleSetOf, TableOf DEF Contents, Simple, TypeOK, EngineTypeOK

LEMMA CurrentOf ==
  ASSUME Contents
  PROVE  /\ Len(ruleSets) \in Nat
         /\ Current \in 1..Len(ruleSets) /\ 1 \in 1..Len(ruleSets)
         /\ \A g \in 1..Len(ruleSets) : /\ ruleSets[g] \in RuleSet
                                        /\ DOMAIN ruleSets[g] \subseteq Names
                                        /\ \A n \in DOMAIN ruleSets[g] : ruleSets[g][n] \in Rule
                                        /\ windows[g] \in [Names -> SUBSET Stamp]
         /\ 1..Len(windows) = 1..Len(ruleSets)
<1>1. \A g \in 1..Len(ruleSets) : ruleSets[g] \in RuleSet /\ windows[g] \in [Names -> SUBSET Stamp]
  BY ElementOf DEF Contents
<1> QED
  BY <1>1, RuleSetOf DEF Contents, Current

-----------------------------------------------------------------------------
(* Evaluation.                                                             *)

LEMMA NextRuleOf ==
  ASSUME NEW t \in Threads, todo[t] \in SUBSET Names, todo[t] # {}
  PROVE  NextRule(t) \in todo[t]
<1>1. \E n \in todo[t] : \A m \in todo[t] : n <= m
  BY NatMinimum, AlertEngineAssumption
<1> QED
  BY <1>1 DEF NextRule

\* The rule a goroutine evaluates, with the errors of its window.
RuleOf(t) == ruleSets[held[t]][NextRule(t)]
Errors(t) == InWindow(RuleOf(t), windows[held[t]][NextRule(t)]
                                         \cup {[id |-> subject[t].id, at |-> now]})

\* The event of a rule and its errors.
Raise(t, errors) ==
    /\ event' = [event EXCEPT ![t] = [rule |-> NextRule(t), cooldown |-> RuleOf(t).cooldown,
                                      errors |-> errors]]
    /\ pc' = [pc EXCEPT ![t] = "fire"]

\* Only the loop, which evaluates lines, meets a rule on the rate of errors.
LEMMA EvaluateOf ==
  ASSUME IInv, NEW t \in Threads, Evaluate(t)
  PROVE  /\ NextRule(t) \in todo[t] /\ NextRule(t) \in Names
         /\ held[t] \in 1..Len(ruleSets)
         /\ NextRule(t) \in DOMAIN ruleSets[held[t]] /\ RuleOf(t) \in Rule
         /\ pc[t] = "eval"
         /\ todo' = [todo EXCEPT ![t] = @ \ {NextRule(t)}]
         /\ UNCHANGED <<now, ruleSets, stats, queue, offered, lastFire, recent, held,
                        subject, closer, fires, dropped>>
         /\ RuleOf(t).type = "error_rate" =>
               /\ t = "loop"
               /\ subject[t] \in Queued
               /\ Errors(t) \subseteq windows[held[t]][NextRule(t)]
                                         \cup {[id |-> subject[t].id, at |-> now]}
               /\ Errors(t) \subseteq Stamp
         /\ \/ Raise(t, {}) /\ UNCHANGED windows
            \/ /\ RuleOf(t).type = "error_rate"
               /\ Cardinality(Errors(t)) >= RuleOf(t).threshold
               /\ Raise(t, {e.id : e \in Errors(t)})
               /\ windows' = [windows EXCEPT ![held[t]][NextRule(t)] = {}]
            \/ /\ RuleOf(t).type = "error_rate"
               /\ ~ (Cardinality(Errors(t)) >= RuleOf(t).threshold)
               /\ windows' = [windows EXCEPT ![held[t]][NextRule(t)] = Errors(t)]
               /\ UNCHANGED <<event, pc>>
<1>1. pc[t] = "eval" /\ todo[t] # {} /\ Works(t) /\ todo[t] \in SUBSET Names
  BY DEF Evaluate, IInv, Working, TypeOK, EngineTypeOK
<1>2. NextRule(t) \in todo[t] /\ NextRule(t) \in Names
  BY <1>1, NextRuleOf
<1>3. /\ held[t] \in 1..Len(ruleSets)
      /\ NextRule(t) \in DOMAIN ruleSets[held[t]]
      /\ Applies(RuleOf(t), subject[t])
      /\ IF t = "loop" THEN subject[t] \in Queued ELSE subject[t].kind = "health"
  BY <1>1, <1>2 DEF Works, Active, RuleOf
<1>4. RuleOf(t) \in Rule /\ windows[held[t]] \in [Names -> SUBSET Stamp]
  BY <1>3, CurrentOf DEF IInv, RuleOf
<1>5. ASSUME RuleOf(t).type = "error_rate"
      PROVE  /\ t = "loop"
             /\ subject[t] \in Queued
             /\ Errors(t) \subseteq windows[held[t]][NextRule(t)]
                                       \cup {[id |-> subject[t].id, at |-> now]}
             /\ Errors(t) \subseteq Stamp
  <2>1. subject[t].kind = "line"
    BY <1>3, <1>5 DEF Applies
  <2>2. t = "loop" /\ subject[t] \in Queued
    BY <1>3, <2>1
  <2>3. subject[t].id \in 1..MaxLines /\ now \in 0..MaxTime
    BY <2>2 DEF Queued, IInv, TypeOK, EngineTypeOK
  <2>4. [id |-> subject[t].id, at |-> now] \in Stamp
    BY <2>3 DEF Stamp
  <2>5. Errors(t) \subseteq windows[held[t]][NextRule(t)] \cup {[id |-> subject[t].id, at |-> now]}
    BY DEF Errors, InWindow
  <2>6. windows[held[t]][NextRule(t)] \subseteq Stamp
    BY <1>2, <1>4
  <2> QED
    BY <2>2, <2>4, <2>5, <2>6
<1>6. \/ Raise(t, {}) /\ UNCHANGED windows
      \/ /\ RuleOf(t).type = "error_rate"
         /\ Cardinality(Errors(t)) >= RuleOf(t).threshold
         /\ Raise(t, {e.id : e \in Errors(t)})
         /\ windows' = [windows EXCEPT ![held[t]][NextRule(t)] = {}]
      \/ /\ RuleOf(t).type = "error_rate"
         /\ ~ (Cardinality(Errors(t)) >= RuleOf(t).threshold)
         /\ windows' = [windows EXCEPT ![held[t]][NextRule(t)] = Errors(t)]
         /\ UNCHANGED <<event, pc>>
  BY DEF Evaluate, Raise, RuleOf, Errors, AfterFiring
<1>7. /\ todo' = [todo EXCEPT ![t] = @ \ {NextRule(t)}]
      /\ UNCHANGED <<now, ruleSets, stats, queue, offered, lastFire, recent, held,
                     subject, closer, fires, dropped>>
  BY DEF Evaluate
<1> QED
  BY <1>1, <1>2, <1>3, <1>4, <1>5, <1>6, <1>7

-----------------------------------------------------------------------------
(* What each goroutine works on.                                           *)

RulesKept == \A g \in 1..Len(ruleSets) : g \in 1..Len(ruleSets') /\ ruleSets'[g] = ruleSets[g]

\* A goroutine that stays where it is, while rules may be added.
LEMMA WorksFrame ==
  ASSUME NEW u \in Threads, Works(u), RulesKept,
         pc'[u] = pc[u], held'[u] = held[u], todo'[u] = todo[u],
         subject'[u] = subject[u], event'[u] = event[u]
  PROVE  Works(u)'
<1>1. pc[u] \in Active =>
        /\ held[u] \in 1..Len(ruleSets')
        /\ ruleSets'[held[u]] = ruleSets[held[u]]
  BY DEF Works, RulesKept
<1> QED
  BY <1>1 DEF Works, Applies

LEMMA ReloadKeepsRules ==
  ASSUME Contents, NEW rs \in RuleSet, ReloadRules(rs)
  PROVE  RulesKept
<1>1. CASE ruleSets' = Append(ruleSets, rs)
  BY <1>1, AppendOf DEF Contents, RulesKept
<1>2. CASE ruleSets' = ruleSets
  BY <1>2 DEF RulesKept
<1> QED
  BY <1>1, <1>2 DEF ReloadRules

LEMMA SnapshotWorks ==
  ASSUME IInv, NEW t \in Threads, NEW about, Snapshot(t, about), UNCHANGED <<ruleSets, event>>,
         IF t = "loop" THEN about \in Queued ELSE about.kind = "health"
  PROVE  Working'
<1>0. /\ held \in [Threads -> Nat] /\ todo \in [Threads -> SUBSET Names]
      /\ DOMAIN pc = Threads /\ DOMAIN subject = Threads
  BY DEF IInv, TypeOK, EngineTypeOK, Contents
<1>1. ASSUME NEW u \in Threads, u # t PROVE Works(u)'
  <2>1. Works(u)
    BY DEF IInv, Working
  <2> QED
    BY <1>0, <1>1, <2>1, WorksFrame DEF Snapshot, RulesKept
<1>2. /\ pc'[t] = "eval" /\ held'[t] = Current /\ subject'[t] = about
      /\ todo'[t] = {n \in DOMAIN ruleSets[Current] : Applies(ruleSets[Current][n], about)}
  BY <1>0 DEF Snapshot
<1>3. Current \in 1..Len(ruleSets)
  BY CurrentOf DEF IInv
<1>4. \A n \in todo'[t] : n \in DOMAIN ruleSets'[held'[t]] /\ Applies(ruleSets'[held'[t]][n], subject'[t])
  BY <1>2
<1>5. Works(t)'
  BY <1>2, <1>3, <1>4 DEF Works, Applies
<1> QED
  BY <1>1, <1>5 DEF Working

LEMMA WorkingKeeps ==
  ASSUME IInv, [Next]_vars
  PROVE  Working'
<1>0. /\ \A u \in Threads : Works(u)
      /\ DOMAIN pc = Threads /\ DOMAIN subject = Threads
      /\ event \in [Threads -> Event]
      /\ DOMAIN held = Threads /\ DOMAIN todo = Threads
      /\ "loop" \in Threads
  BY DEF IInv, Working, TypeOK, EngineTypeOK, Contents, Threads
<1>1. CASE UNCHANGED <<ruleSets, pc, held, todo, subject, event>>
  BY <1>0, <1>1, WorksFrame DEF Working, RulesKept
<1>2. CASE Health
  <2>1. PICK t \in Reporters, source \in Sources, new \in Statuses : UpdateStatus(t, source, new)
    BY <1>2 DEF Health
  <2>2. t \in Threads /\ t # "loop"
    BY AlertEngineAssumption DEF Threads
  <2>3. ASSUME NEW u \in Threads, u # t PROVE Works(u)'
    BY <1>0, <2>1, <2>3, WorksFrame DEF UpdateStatus, RulesKept
  <2>4. Works(t)'
    <3>1. CASE UNCHANGED <<pc, subject>>
      BY <1>0, <2>1, <2>2, <3>1, WorksFrame DEF UpdateStatus, RulesKept
    <3>2. CASE /\ pc' = [pc EXCEPT ![t] = "callback"]
               /\ subject' = [subject EXCEPT ![t] = [kind |-> "health", source |-> source]]
      BY <1>0, <2>2, <3>2 DEF Works, Active
    <3> QED
      BY <2>1, <3>1, <3>2 DEF UpdateStatus
  <2> QED
    BY <2>3, <2>4 DEF Working
<1>3. CASE Apply
  <2>1. ReloadRules(loading) /\ loading \in RuleSet /\ Contents
    BY <1>3 DEF Apply, IInv, Contents
  <2>2. RulesKept
    BY <2>1, ReloadKeepsRules
  <2>3. UNCHANGED <<pc, held, todo, subject, event>>
    BY <2>1 DEF ReloadRules
  <2> QED
    BY <1>0, <2>2, <2>3, WorksFrame DEF Working
<1>4. CASE TakeLine
  <2>1. Snapshot("loop", Head(queue)) /\ UNCHANGED <<ruleSets, event>> /\ queue # <<>>
    BY <1>4 DEF TakeLine
  <2>2. Head(queue) \in Queued
    BY <2>1, TailOf DEF IInv, Contents
  <2> QED
    BY <1>0, <2>1, <2>2, SnapshotWorks
<1>5. CASE LoopExits
  <2>1. pc' = [pc EXCEPT !["loop"] = "exited"] /\ UNCHANGED <<ruleSets, held, todo, subject, event>>
    BY <1>5 DEF LoopExits
  <2>2. ASSUME NEW u \in Threads, u # "loop" PROVE Works(u)'
    BY <1>0, <2>1, <2>2, WorksFrame DEF RulesKept
  <2>3. Works("loop")'
    BY <1>0, <2>1 DEF Works, Active
  <2> QED
    BY <2>2, <2>3 DEF Working
<1>6. ASSUME NEW t \in Threads, EngineStep(t)
      PROVE  Working'
  <2>1. CASE ProcessHealthChange(t)
    <3>1. pc[t] = "callback" /\ Snapshot(t, subject[t]) /\ UNCHANGED <<ruleSets, event>>
      BY <2>1 DEF ProcessHealthChange
    <3>2. t # "loop" /\ subject[t].kind = "health"
      BY <1>0, <3>1 DEF Works
    <3> QED
      BY <3>1, <3>2, SnapshotWorks
  <2>2. CASE Evaluate(t)
    <3>1. ASSUME NEW u \in Threads, u # t PROVE Works(u)'
      BY <1>0, <2>2, <3>1, EvaluateOf, WorksFrame DEF Raise, RulesKept
    <3>2. todo'[t] \subseteq todo[t] /\ held' = held /\ subject' = subject /\ ruleSets' = ruleSets
      <4>1. /\ todo' = [todo EXCEPT ![t] = @ \ {NextRule(t)}]
            /\ held' = held /\ subject' = subject /\ ruleSets' = ruleSets
        BY <2>2, EvaluateOf
      <4>2. todo'[t] = todo[t] \ {NextRule(t)}
        BY <1>0, <4>1
      <4> QED
        BY <4>1, <4>2
    <3>3. pc[t] = "eval" /\ Works(t)
      BY <1>0, <2>2, EvaluateOf
    <3>4. /\ held[t] \in 1..Len(ruleSets)
          /\ \A n \in todo'[t] : n \in DOMAIN ruleSets[held[t]] /\ Applies(ruleSets[held[t]][n], subject[t])
          /\ IF t = "loop" THEN subject[t] \in Queued ELSE subject[t].kind = "health"
      BY <3>2, <3>3 DEF Works, Active
    <3>5. CASE Raise(t, {})
      <4>1. pc'[t] = "fire" /\ event'[t].errors = {} /\ event'[t].rule \in Names
        BY <1>0, <2>2, <3>5, EvaluateOf DEF Raise
      <4>2. Works(t)'
        BY <3>2, <3>4, <4>1 DEF Works
      <4> QED
        BY <3>1, <4>2 DEF Working
    <3>6. CASE Raise(t, {e.id : e \in Errors(t)}) /\ t = "loop"
      <4>1. pc'[t] = "fire" /\ event'[t].rule \in Names
        BY <1>0, <2>2, <3>6, EvaluateOf DEF Raise
      <4>2. Works(t)'
        BY <3>2, <3>4, <3>6, <4>1 DEF Works
      <4> QED
        BY <3>1, <4>2 DEF Working
    <3>7. CASE UNCHANGED <<event, pc>>
      <4>1. Works(t)'
        BY <3>2, <3>3, <3>4, <3>7 DEF Works
      <4> QED
        BY <3>1, <4>1 DEF Working
    <3> QED
      BY <2>2, <3>5, <3>6, <3>7, EvaluateOf
  <2>3. CASE Evaluated(t)
    <3>1. ASSUME NEW u \in Threads, u # t PROVE Works(u)'
      BY <1>0, <2>3, <3>1, WorksFrame DEF Evaluated, RulesKept
    <3>2. Works(t)'
      BY <1>0, <2>3 DEF Evaluated, Works, Active
    <3> QED
      BY <3>1, <3>2 DEF Working
  <2>4. CASE Allow(t) \/ Record(t) \/ AddRecent(t) \/ Notified(t)
    <3>1. /\ UNCHANGED <<ruleSets, held, todo, subject, event>>
          /\ pc' \in {[pc EXCEPT ![t] = "record"], [pc EXCEPT ![t] = "remember"],
                      [pc EXCEPT ![t] = "notify"], [pc EXCEPT ![t] = "eval"]}
          /\ pc'[t] \in {"record", "remember"} => pc[t] \in {"fire", "record"}
          /\ pc[t] \in Active
      BY <1>0, <2>4 DEF Allow, Record, AddRecent, Notified, Active
    <3>2. ASSUME NEW u \in Threads, u # t PROVE Works(u)'
      <4>1. pc'[u] = pc[u]
        BY <1>0, <3>1, <3>2
      <4> QED
        BY <1>0, <3>1, <4>1, WorksFrame DEF RulesKept
    <3>3. Works(t)'
      <4>1. pc'[t] \in {"record", "remember", "notify", "eval"}
        BY <1>0, <3>1
      <4> QED
        BY <1>0, <3>1, <4>1 DEF Works, Active, Applies
    <3> QED
      BY <3>2, <3>3 DEF Working
  <2> QED
    BY <1>6, <2>1, <2>2, <2>3, <2>4 DEF EngineStep
<1>7. \/ UNCHANGED <<ruleSets, pc, held, todo, subject, event>>
      \/ Health \/ Apply \/ TakeLine \/ LoopExits \/ \E t \in Threads : EngineStep(t)
  BY DEF Next, Input, EngineInput, Tick, ProcessLine, API, handleCreateAlertRule,
         handleUpdateAlertRule, handleDeleteAlertRule, Edit, EngineNext, CloseQueue,
         CloseReturn, Watcher, Poll, reloadAlertRulesFromDB, vars, engineVars
<1> QED
  BY <1>1, <1>2, <1>3, <1>4, <1>5, <1>6, <1>7

-----------------------------------------------------------------------------
(* Types are kept.                                                         *)

LEMMA ConstantsOf ==
  /\ Names \in SUBSET Nat
  /\ QueueCap \in Nat /\ QueueCap > 0
  /\ MaxRecent \in Nat /\ MaxRecent > 0
  /\ MaxLines \in Nat /\ MaxTime \in Nat /\ MaxEdits \in Nat /\ MaxReports \in Nat
  BY AlertEngineAssumption, AlertingAssumption

LEMMA SimpleKeeps ==
  ASSUME IInv, [Next]_vars
  PROVE  Simple'
<1>0. Simple /\ Contents /\ Working
  BY TypesSplit DEF IInv
<1> USE ConstantsOf
<1>1. CASE UNCHANGED vars
  BY <1>0, <1>1 DEF Simple, vars, engineVars, tableVars, watcherVars, healthVars
<1>2. CASE EngineInput /\ UNCHANGED <<tableVars, watcherVars, healthVars>>
  <2>1. CASE Tick
    BY <1>0, <1>2, <2>1 DEF Tick, Simple, tableVars, watcherVars, healthVars
  <2>2. ASSUME NEW line \in Lines, ProcessLine(line)
        PROVE  Simple'
    <3>1. Len(queue') <= QueueCap
      <4>1. CASE Len(queue) < QueueCap
        <5> DEFINE e == Numbered(line, offered + 1)
        <5>1. e \in Queued
          BY <1>0, <2>2, AlertEngineAssumption DEF Simple, ProcessLine, Numbered, Queued
        <5>2. queue' = Append(queue, e)
          BY <2>2, <4>1 DEF ProcessLine
        <5>3. queue \in Seq(Queued)
          BY <1>0 DEF Contents
        <5> HIDE DEF e
        <5> QED
          BY <4>1, <5>1, <5>2, <5>3, AppendOf
      <4> QED
        BY <1>0, <2>2, <4>1 DEF ProcessLine, Simple
    <3>2. offered' \in 0..MaxLines
      BY <1>0, <2>2 DEF ProcessLine, Simple
    <3> QED
      BY <1>0, <1>2, <2>2, <3>1, <3>2 DEF ProcessLine, Simple, tableVars, watcherVars, healthVars
  <2> QED
    BY <1>2, <2>1, <2>2 DEF EngineInput
<1>3. CASE Health
  <2>1. PICK t \in Reporters, source \in Sources, new \in Statuses : UpdateStatus(t, source, new)
    BY <1>3 DEF Health
  <2>2. reports' \in 0..MaxReports /\ status' \in [Sources -> Statuses \cup {"starting"}]
    BY <1>0, <2>1 DEF UpdateStatus, Simple
  <2>3. pc' \in [Threads -> {"idle", "callback", "eval", "fire", "record", "remember", "notify", "exited"}]
    BY <1>0, <2>1 DEF UpdateStatus, Simple
  <2>4. UNCHANGED <<now, stats, queue, offered, lastFire, recent, held, todo, closer, dropped,
                    edits, dirty, missed, watcher>>
    BY <2>1 DEF UpdateStatus, tableVars, watcherVars
  <2> QED
    BY <1>0, <2>2, <2>3, <2>4 DEF Simple
<1>4. CASE API
  <2>1. /\ UNCHANGED <<engineVars, watcherVars, healthVars>>
        /\ edits < MaxEdits /\ edits' = edits + 1
        /\ dirty' = TRUE \/ dirty' = dirty
        /\ missed' = TRUE \/ missed' = missed
    BY <1>4 DEF API, handleCreateAlertRule, handleUpdateAlertRule, handleDeleteAlertRule, Edit
  <2> QED
    <3>1. dirty' \in BOOLEAN /\ missed' \in BOOLEAN
      BY <1>0, <2>1 DEF Simple
    <3>2. edits' \in 0..MaxEdits
      BY <1>0, <2>1 DEF Simple
    <3> QED
      BY <1>0, <2>1, <3>1, <3>2 DEF Simple, engineVars, watcherVars, healthVars
<1>5. CASE Poll \/ reloadAlertRulesFromDB
  BY <1>0, <1>5 DEF Poll, reloadAlertRulesFromDB, Simple, engineVars, healthVars
<1>6. CASE Apply
  <2>1. /\ watcher' = "idle" /\ ReloadRules(loading)
        /\ UNCHANGED <<status, reports, edits, dirty, missed>>
    BY <1>6 DEF Apply, healthVars, tableVars
  <2>2. /\ stats' \in [Names -> Nat] /\ dropped' \in SUBSET Names
        /\ UNCHANGED <<now, queue, offered, lastFire, recent, pc, held, todo, closer>>
    <3>1. DOMAIN ruleSets[Current] \subseteq Names
      BY <1>0, CurrentOf
    <3>2. KeptStats(loading) \in [Names -> Nat]
      BY <1>0 DEF KeptStats, Simple
    <3> QED
      BY <1>0, <2>1, <3>1, <3>2 DEF ReloadRules, Simple
  <2> QED
    BY <1>0, <2>1, <2>2 DEF Simple
<1>7. CASE TakeLine /\ UNCHANGED <<tableVars, watcherVars, healthVars>>
  <2>1. Len(queue') <= QueueCap
    BY <1>0, <1>7, TailOf DEF TakeLine, Contents, Simple
  <2>2. DOMAIN ruleSets[Current] \subseteq Names /\ Current \in Nat
    BY <1>0, CurrentOf
  <2> QED
    BY <1>0, <1>7, <2>1, <2>2 DEF TakeLine, Snapshot, Simple, tableVars, watcherVars, healthVars, Threads
<1>8. CASE /\ LoopExits \/ CloseQueue \/ CloseReturn
           /\ UNCHANGED <<tableVars, watcherVars, healthVars>>
  BY <1>0, <1>8 DEF LoopExits, CloseQueue, CloseReturn, Simple, tableVars, watcherVars, healthVars
<1>9. ASSUME NEW t \in Threads, EngineStep(t), UNCHANGED <<tableVars, watcherVars, healthVars>>
      PROVE  Simple'
  <2>0. UNCHANGED <<status, reports, edits, dirty, missed, watcher>>
    BY <1>9 DEF tableVars, watcherVars, healthVars
  <2>1. CASE ProcessHealthChange(t)
    <3>1. DOMAIN ruleSets[Current] \subseteq Names /\ Current \in Nat
      BY <1>0, CurrentOf
    <3> QED
      BY <1>0, <2>0, <2>1, <3>1 DEF ProcessHealthChange, Snapshot, Simple
  <2>2. CASE Evaluate(t)
    <3>1. pc' \in [Threads -> {"idle", "callback", "eval", "fire", "record", "remember", "notify", "exited"}]
      <4>1. pc' = [pc EXCEPT ![t] = "fire"] \/ pc' = pc
        BY <2>2, EvaluateOf DEF Raise
      <4> QED
        BY <1>0, <4>1 DEF Simple
    <3>2. todo' \in [Threads -> SUBSET Names]
      <4>1. todo' = [todo EXCEPT ![t] = @ \ {NextRule(t)}] /\ todo \in [Threads -> SUBSET Names]
        BY <1>0, <2>2, EvaluateOf DEF Simple
      <4> QED
        BY <4>1
    <3>3. UNCHANGED <<now, stats, queue, offered, lastFire, recent, held, closer, dropped>>
      BY <2>2, EvaluateOf
    <3> QED
      BY <1>0, <2>0, <3>1, <3>2, <3>3 DEF Simple
  <2>3. CASE Evaluated(t) \/ Notified(t)
    <3>1. pc' \in [Threads -> {"idle", "callback", "eval", "fire", "record", "remember", "notify", "exited"}]
      BY <1>0, <2>3 DEF Evaluated, Notified, Simple
    <3>2. held' \in [Threads -> Nat]
      BY <1>0, <2>3 DEF Evaluated, Notified, Simple
    <3>3. UNCHANGED <<now, stats, queue, offered, lastFire, recent, todo, closer, dropped>>
      BY <2>3 DEF Evaluated, Notified
    <3> QED
      BY <1>0, <2>0, <3>1, <3>2, <3>3 DEF Simple
  <2>4. CASE Allow(t)
    <3>1. lastFire' \in [Names -> -1..MaxTime]
      <4>1. lastFire' = lastFire \/ lastFire' = [lastFire EXCEPT ![event[t].rule] = now]
        BY <2>4 DEF Allow
      <4>2. lastFire \in [Names -> -1..MaxTime] /\ now \in -1..MaxTime
        BY <1>0 DEF Simple
      <4> QED
        BY <4>1, <4>2
    <3>2. pc' \in [Threads -> {"idle", "callback", "eval", "fire", "record", "remember", "notify", "exited"}]
      BY <1>0, <2>4 DEF Allow, Simple
    <3> QED
      BY <1>0, <2>0, <2>4, <3>1, <3>2 DEF Allow, Simple
  <2>5. CASE Record(t)
    <3>1. event[t].rule \in Names
      BY <1>0, <2>5 DEF Record, Working, Works
    <3>2. stats' \in [Names -> Nat]
      <4>1. PICK n \in Names : n = event[t].rule
        BY <3>1
      <4>2. stats' = [stats EXCEPT ![n] = stats[n] + 1] \/ stats' = stats
        BY <2>5, <4>1 DEF Record, CountFire
      <4>3. stats \in [Names -> Nat]
        BY <1>0 DEF Simple
      <4>4. stats[n] + 1 \in Nat
        BY <4>3
      <4> QED
        BY <4>2, <4>3, <4>4
    <3> QED
      BY <1>0, <2>0, <2>5, <3>2 DEF Record, Simple
  <2>6. CASE AddRecent(t)
    <3>1. event[t].rule \in Names
      BY <1>0, <2>6 DEF AddRecent, Working, Works
    <3>2. Len(recent') <= MaxRecent
      <4>1. recent \in Seq(Names) /\ Len(recent) <= MaxRecent
        BY <1>0 DEF Contents, Simple
      <4>2. CASE Len(recent) >= MaxRecent
        <5>1. recent # <<>>
          BY <4>1, <4>2
        <5>2. Tail(recent) \in Seq(Names) /\ Len(Tail(recent)) = Len(recent) - 1
          BY <4>1, <5>1, TailOf
        <5>3. recent' = Append(Tail(recent), event[t].rule)
          BY <2>6, <4>2 DEF AddRecent, Remember
        <5> QED
          BY <3>1, <4>1, <4>2, <5>2, <5>3, AppendOf
      <4>3. CASE ~ (Len(recent) >= MaxRecent)
        <5>1. recent' = Append(recent, event[t].rule)
          BY <2>6, <4>3 DEF AddRecent, Remember
        <5> QED
          BY <3>1, <4>1, <4>3, <5>1, AppendOf
      <4> QED
        BY <4>2, <4>3
    <3> QED
      BY <1>0, <2>0, <2>6, <3>2 DEF AddRecent, Simple
  <2> QED
    BY <1>9, <2>1, <2>2, <2>3, <2>4, <2>5, <2>6 DEF EngineStep
<1> QED
  BY <1>1, <1>2, <1>3, <1>4, <1>5, <1>6, <1>7, <1>8, <1>9
     DEF Next, Input, EngineNext, Watcher


LEMMA WindowsOf ==
  ASSUME NEW S, NEW w \in Seq([Names -> S]), NEW g \in 1..Len(w), NEW n \in Names, NEW E \in S,
         NEW v, v = [w EXCEPT ![g][n] = E]
  PROVE  /\ v \in Seq([Names -> S]) /\ Len(v) = Len(w)
         /\ \A h \in 1..Len(w), m \in Names : v[h][m] = IF h = g /\ m = n THEN E ELSE w[h][m]
<1>1. w[g] \in [Names -> S] /\ Len(w) \in Nat /\ DOMAIN w = 1..Len(w)
  OBVIOUS
<1>2. PICK x : x = [w[g] EXCEPT ![n] = E]
  OBVIOUS
<1>3. x \in [Names -> S] /\ \A m \in Names : x[m] = IF m = n THEN E ELSE w[g][m]
  BY <1>1, <1>2
<1>4. v = [w EXCEPT ![g] = x]
  BY <1>2
<1>5. v \in Seq([Names -> S]) /\ Len(v) = Len(w)
  BY <1>1, <1>3, <1>4
<1>6. \A h \in 1..Len(w) : v[h] = IF h = g THEN x ELSE w[h]
  BY <1>1, <1>4
<1> QED
  BY <1>3, <1>5, <1>6

LEMMA ContentsKeeps ==
  ASSUME IInv, [Next]_vars
  PROVE  Contents'
<1>0. Simple /\ Contents /\ Working
  BY TypesSplit DEF IInv
<1> USE ConstantsOf
<1>1. CASE UNCHANGED <<ruleSets, windows, queue, recent, fires, event, subject, rows, loading>>
  BY <1>0, <1>1 DEF Contents
<1>2. ASSUME NEW line \in Lines, ProcessLine(line), UNCHANGED <<tableVars, watcherVars>>
      PROVE  Contents'
  <2> DEFINE e == Numbered(line, offered + 1)
  <2>1. e \in Queued
    BY <1>0, <1>2, AlertEngineAssumption DEF Simple, ProcessLine, Numbered, Queued
  <2>2. queue' = Append(queue, e) \/ queue' = queue
    BY <1>2 DEF ProcessLine
  <2>3. queue \in Seq(Queued)
    BY <1>0 DEF Contents
  <2> HIDE DEF e
  <2>4. queue' \in Seq(Queued)
    BY <2>1, <2>2, <2>3, AppendOf
  <2> QED
    BY <1>0, <1>2, <2>4 DEF Contents, ProcessLine, tableVars, watcherVars
<1>3. CASE Health
  BY <1>0, <1>3 DEF Health, UpdateStatus, Contents, tableVars, watcherVars
<1>4. CASE API
  <2>1. UNCHANGED <<engineVars, watcherVars>>
    BY <1>4 DEF API, handleCreateAlertRule, handleUpdateAlertRule, handleDeleteAlertRule, Edit
  <2>2. rows \in Table /\ Requests \subseteq Row
    BY <1>0, AlertingAssumption DEF Contents
  <2>3. rows' \in Table
    <3>1. ASSUME NEW n \in Names, NEW req \in Requests, handleCreateAlertRule(n, req)
          PROVE  rows' \in Table
      BY <2>2, <3>1, EditedTable DEF handleCreateAlertRule, Edit
    <3>2. ASSUME NEW n \in Names, NEW new \in Names, NEW req \in Requests,
                 handleUpdateAlertRule(n, new, req)
          PROVE  rows' \in Table
      <4>1. req \in Row /\ Without(rows, n) \in Table
        BY <2>2, EditedTable
      <4> QED
        BY <3>2, <4>1, EditedTable DEF handleUpdateAlertRule, Edit
    <3>3. ASSUME NEW n \in Names, handleDeleteAlertRule(n)
          PROVE  rows' \in Table
      <4>1. n \in DOMAIN rows /\ rows[n] \in Row
        BY <2>2, <3>3, TableOf DEF handleDeleteAlertRule
      <4> QED
        BY <2>2, <3>3, <4>1, EditedTable DEF handleDeleteAlertRule, Edit
    <3> QED
      BY <1>4, <3>1, <3>2, <3>3 DEF API
  <2> QED
    BY <1>0, <2>1, <2>3 DEF Contents, engineVars, watcherVars
<1>5. CASE Poll \/ reloadAlertRulesFromDB
  <2>1. UNCHANGED <<engineVars, rows>> /\ (loading' = loading \/ loading' = Enabled(rows))
    BY <1>5 DEF Poll, reloadAlertRulesFromDB
  <2>2. loading' \in RuleSet
    BY <1>0, <2>1, TableOf DEF Contents
  <2> QED
    BY <1>0, <2>1, <2>2 DEF Contents, engineVars
<1>6. CASE Apply
  <2>1. /\ ReloadRules(loading) /\ loading' = <<>>
        /\ UNCHANGED <<queue, recent, fires, event, subject, rows>>
    BY <1>6 DEF Apply, tableVars, ReloadRules
  <2>2. loading' \in RuleSet
    BY <2>1, EmptyRuleSet
  <2>3. CASE UNCHANGED <<ruleSets, windows>>
    BY <1>0, <2>1, <2>2, <2>3 DEF Contents
  <2>4. CASE /\ ruleSets' = Append(ruleSets, loading)
             /\ windows' = Append(windows, [n \in Names |-> {}])
    <3>1. PICK none : none = [n \in Names |-> {}]
      OBVIOUS
    <3>2. none \in [Names -> SUBSET Stamp]
      BY <3>1
    <3>3. /\ ruleSets' \in Seq(RuleSet) /\ Len(ruleSets') = Len(ruleSets) + 1
          /\ windows' \in Seq([Names -> SUBSET Stamp]) /\ Len(windows') = Len(windows) + 1
          /\ Len(ruleSets) \in Nat
      BY <1>0, <2>4, <3>1, <3>2, AppendOf DEF Contents
    <3> QED
      BY <1>0, <2>1, <2>2, <3>3 DEF Contents
  <2> QED
    BY <2>1, <2>3, <2>4 DEF ReloadRules
<1>7. CASE TakeLine /\ UNCHANGED <<tableVars, watcherVars>>
  <2>1. queue' \in Seq(Queued)
    BY <1>0, <1>7, TailOf DEF TakeLine, Contents
  <2>2. DOMAIN subject' = Threads
    BY <1>0, <1>7 DEF TakeLine, Snapshot, Contents
  <2> QED
    BY <1>0, <1>7, <2>1, <2>2 DEF TakeLine, Contents, tableVars, watcherVars
<1>8. ASSUME NEW t \in Threads, EngineStep(t), UNCHANGED <<tableVars, watcherVars>>
      PROVE  Contents'
  <2>0. UNCHANGED <<rows, loading>>
    BY <1>8 DEF tableVars, watcherVars
  <2>1. CASE ProcessHealthChange(t)
    BY <1>0, <2>0, <2>1 DEF ProcessHealthChange, Snapshot, Contents
  <2>2. CASE Evaluate(t)
    <3>1. UNCHANGED <<ruleSets, queue, recent, fires, subject>>
      BY <2>2, EvaluateOf
    <3>2. /\ NextRule(t) \in Names /\ held[t] \in 1..Len(windows) /\ RuleOf(t) \in Rule
          /\ RuleOf(t).cooldown \in Nat
      BY <1>0, <2>2, EvaluateOf, CurrentOf DEF Rule
    <3>3. ASSUME NEW es \in SUBSET (1..MaxLines), Raise(t, es)
          PROVE  event' \in [Threads -> Event]
      <4>1. [rule |-> NextRule(t), cooldown |-> RuleOf(t).cooldown, errors |-> es] \in Event
        BY <3>2 DEF Event
      <4> QED
        BY <1>0, <3>3, <4>1 DEF Raise, Contents
    <3>4. CASE Raise(t, {}) /\ UNCHANGED windows
      BY <1>0, <2>0, <3>1, <3>3, <3>4 DEF Contents
    <3>5. CASE /\ RuleOf(t).type = "error_rate"
               /\ Raise(t, {e.id : e \in Errors(t)})
               /\ windows' = [windows EXCEPT ![held[t]][NextRule(t)] = {}]
      <4>1. Errors(t) \subseteq Stamp
        BY <2>2, <3>5, EvaluateOf
      <4>2. {e.id : e \in Errors(t)} \in SUBSET (1..MaxLines)
        BY <4>1 DEF Stamp
      <4>3. windows \in Seq([Names -> SUBSET Stamp]) /\ {} \in SUBSET Stamp
        BY <1>0 DEF Contents
      <4>4. windows' \in Seq([Names -> SUBSET Stamp]) /\ Len(windows') = Len(windows)
        BY <3>2, <3>5, <4>3, WindowsOf
      <4>5. event' \in [Threads -> Event]
        BY <3>3, <3>5, <4>2
      <4> QED
        BY <1>0, <2>0, <3>1, <4>4, <4>5 DEF Contents
    <3>6. CASE /\ RuleOf(t).type = "error_rate"
               /\ windows' = [windows EXCEPT ![held[t]][NextRule(t)] = Errors(t)]
               /\ UNCHANGED event
      <4>1. Errors(t) \in SUBSET Stamp
        BY <2>2, <3>6, EvaluateOf
      <4>2. windows \in Seq([Names -> SUBSET Stamp])
        BY <1>0 DEF Contents
      <4>3. windows' \in Seq([Names -> SUBSET Stamp]) /\ Len(windows') = Len(windows)
        BY <3>2, <3>6, <4>1, <4>2, WindowsOf
      <4> QED
        BY <1>0, <2>0, <3>1, <3>6, <4>3 DEF Contents
    <3> QED
      BY <2>2, <3>4, <3>5, <3>6, EvaluateOf
  <2>3. CASE Evaluated(t)
    <3>1. NoEvent \in Event
      BY DEF NoEvent, Event
    <3>2. event' \in [Threads -> Event] /\ DOMAIN subject' = Threads
      BY <1>0, <2>3, <3>1 DEF Evaluated, Contents
    <3> QED
      BY <1>0, <2>0, <2>3, <3>2 DEF Evaluated, Contents
  <2>4. CASE Record(t) \/ Notified(t)
    BY <1>0, <2>0, <2>4 DEF Record, Notified, Contents
  <2>5. CASE Allow(t)
    <3> DEFINE e == [rule |-> event[t].rule, cooldown |-> event[t].cooldown,
                     errors |-> event[t].errors, at |-> now]
    <3>1. event[t].rule \in Names /\ event[t] \in Event /\ now \in 0..MaxTime
      BY <1>0, <2>5 DEF Allow, Working, Works, Contents, Simple
    <3>2. e \in Fire
      BY <3>1 DEF Event, Fire
    <3>3. fires' = Append(fires, e) \/ fires' = fires
      BY <2>5 DEF Allow
    <3> HIDE DEF e
    <3>4. fires' \in Seq(Fire)
      <4>1. fires \in Seq(Fire)
        BY <1>0 DEF Contents
      <4> QED
        BY <3>2, <3>3, <4>1, AppendOf
    <3> QED
      BY <1>0, <2>0, <2>5, <3>4 DEF Allow, Contents
  <2>6. CASE AddRecent(t)
    <3>1. event[t].rule \in Names
      BY <1>0, <2>6 DEF AddRecent, Working, Works
    <3>2. recent \in Seq(Names) /\ (Len(recent) >= MaxRecent => recent # <<>>)
      BY <1>0 DEF Contents
    <3>3. Len(recent) >= MaxRecent => Tail(recent) \in Seq(Names)
      BY <3>2, TailOf
    <3>4. recent' \in Seq(Names)
      BY <2>6, <3>1, <3>2, <3>3, AppendOf DEF AddRecent, Remember
    <3> QED
      BY <1>0, <2>0, <2>6, <3>4 DEF AddRecent, Contents
  <2> QED
    BY <1>8, <2>1, <2>2, <2>3, <2>4, <2>5, <2>6 DEF EngineStep
<1>9. \/ UNCHANGED <<ruleSets, windows, queue, recent, fires, event, subject, rows, loading>>
      \/ \E line \in Lines : ProcessLine(line) /\ UNCHANGED <<tableVars, watcherVars>>
      \/ Health \/ API \/ Poll \/ reloadAlertRulesFromDB \/ Apply
      \/ TakeLine /\ UNCHANGED <<tableVars, watcherVars>>
      \/ \E t \in Threads : EngineStep(t) /\ UNCHANGED <<tableVars, watcherVars>>
  BY DEF Next, Input, EngineInput, Tick, EngineNext, LoopExits, CloseQueue, CloseReturn,
         Watcher, vars, engineVars, tableVars, watcherVars
<1> QED
  BY <1>1, <1>2, <1>3, <1>4, <1>5, <1>6, <1>7, <1>8, <1>9

-----------------------------------------------------------------------------
(* Thresholds.                                                             *)

\* Time passes, or errors leave the window.
LEMMA CalmStays ==
  ASSUME NEW r \in Rule, NEW errors \in SUBSET Stamp, IsFiniteSet(errors),
         NEW clock \in Nat, NEW later \in Nat, clock <= later,
         Calm(r, errors, clock)
  PROVE  Calm(r, errors, later)
<1> DEFINE A == {e \in errors : e.at + r.window >= clock}
           B == {e \in errors : e.at + r.window >= later}
<1>1. \A e \in errors : e.at \in Nat
  BY DEF Stamp
<1>2. r.window \in Nat /\ r.threshold \in Nat
  BY DEF Rule
<1>3. B \subseteq A
  BY <1>1, <1>2
<1>4. IsFiniteSet(A)
  BY FS_Subset
<1>5. Cardinality(B) <= Cardinality(A) /\ Cardinality(A) \in Nat /\ Cardinality(B) \in Nat
  BY <1>3, <1>4, FS_Subset, FS_CardinalityType
<1> QED
  BY <1>2, <1>5 DEF Calm

LEMMA CalmEmpty ==
  ASSUME NEW r \in Rule, NEW clock
  PROVE  Calm(r, {}, clock)
<1>1. {e \in {} : e.at + r.window >= clock} = {}
  OBVIOUS
<1>2. Cardinality({}) = 0
  BY FS_EmptySet
<1> QED
  BY <1>1, <1>2 DEF Calm, Rule

LEMMA BelowThresholdKeeps ==
  ASSUME IInv, [Next]_vars
  PROVE  BelowThreshold'
<1>0. Contents /\ BelowThreshold /\ now \in Nat
  BY DEF IInv, TypeOK, EngineTypeOK
<1>a. /\ \A g \in 1..Len(ruleSets) : \A n \in DOMAIN ruleSets[g] :
            n \in Names /\ ruleSets[g][n] \in Rule /\ windows[g][n] \in SUBSET Stamp
      /\ 1..Len(windows) = 1..Len(ruleSets)
  BY <1>0, CurrentOf
<1>1. CASE UNCHANGED <<ruleSets, windows, now>>
  BY <1>0, <1>1 DEF BelowThreshold
<1>2. CASE Tick
  <2>1. now' \in Nat /\ now <= now' /\ UNCHANGED <<ruleSets, windows>>
    BY <1>0, <1>2 DEF Tick
  <2>2. \A g \in 1..Len(ruleSets) : \A n \in DOMAIN ruleSets[g] :
            Calm(ruleSets[g][n], windows[g][n], now')
    <3> TAKE g \in 1..Len(ruleSets)
    <3> TAKE n \in DOMAIN ruleSets[g]
    <3>1. Calm(ruleSets[g][n], windows[g][n], now) /\ IsFiniteSet(windows[g][n])
      BY <1>0, <1>a DEF BelowThreshold
    <3> QED
      BY <1>0, <1>a, <2>1, <3>1, CalmStays
  <2> QED
    BY <1>0, <2>1, <2>2 DEF BelowThreshold
<1>3. CASE Apply
  <2>1. ReloadRules(loading) /\ now' = now /\ loading \in RuleSet
    BY <1>0, <1>3 DEF Apply, ReloadRules, Contents
  <2>2. CASE UNCHANGED <<ruleSets, windows>>
    BY <1>0, <2>1, <2>2 DEF BelowThreshold
  <2>3. CASE /\ ruleSets' = Append(ruleSets, loading)
             /\ windows' = Append(windows, [n \in Names |-> {}])
    <3>1. PICK none : none = [n \in Names |-> {}]
      OBVIOUS
    <3>2. none \in [Names -> SUBSET Stamp] /\ \A n \in Names : none[n] = {}
      BY <3>1
    <3>3. /\ Len(ruleSets') = Len(ruleSets) + 1
          /\ \A g \in 1..Len(ruleSets) : ruleSets'[g] = ruleSets[g]
          /\ ruleSets'[Len(ruleSets) + 1] = loading
          /\ \A g \in 1..Len(ruleSets') : g \in 1..Len(ruleSets) \/ g = Len(ruleSets) + 1
      BY <1>0, <2>1, <2>3, AppendOf DEF Contents
    <3>4. /\ Len(windows') = Len(windows) + 1
          /\ \A g \in 1..Len(windows) : windows'[g] = windows[g]
          /\ windows'[Len(windows) + 1] = none
          /\ \A g \in 1..Len(windows') : g \in 1..Len(windows) \/ g = Len(windows) + 1
      BY <1>0, <2>3, <3>1, <3>2, AppendOf DEF Contents
    <3>5. \A g \in 1..Len(windows'), n \in Names : IsFiniteSet(windows'[g][n])
      <4>1. IsFiniteSet({})
        BY FS_EmptySet
      <4> QED
        BY <1>0, <3>2, <3>4, <4>1 DEF BelowThreshold
    <3>6. \A g \in 1..Len(ruleSets') : \A n \in DOMAIN ruleSets'[g] :
              Calm(ruleSets'[g][n], windows'[g][n], now)
      <4> TAKE g \in 1..Len(ruleSets')
      <4> TAKE n \in DOMAIN ruleSets'[g]
      <4>1. CASE g \in 1..Len(ruleSets)
        BY <1>0, <1>a, <3>3, <3>4, <4>1 DEF BelowThreshold
      <4>2. CASE g = Len(ruleSets) + 1
        <5>1. n \in Names /\ ruleSets'[g][n] \in Rule
          BY <2>1, <3>3, <4>2, RuleSetOf
        <5>2. windows'[g][n] = {}
          BY <1>0, <3>2, <3>4, <4>2, <5>1 DEF Contents
        <5> QED
          BY <5>1, <5>2, CalmEmpty
      <4> QED
        BY <3>3, <4>1, <4>2
    <3> QED
      BY <2>1, <3>5, <3>6 DEF BelowThreshold
  <2> QED
    BY <2>1, <2>2, <2>3 DEF ReloadRules
<1>4. ASSUME NEW t \in Threads, Evaluate(t)
      PROVE  BelowThreshold'
  <2>1. UNCHANGED <<ruleSets, now>>
    BY <1>4, EvaluateOf
  <2>2. /\ NextRule(t) \in Names /\ held[t] \in 1..Len(windows) /\ RuleOf(t) \in Rule
        /\ RuleOf(t) = ruleSets[held[t]][NextRule(t)]
    BY <1>a, <1>4, EvaluateOf DEF RuleOf
  <2>3. windows \in Seq([Names -> SUBSET Stamp])
    BY <1>0 DEF Contents
  <2>4. ASSUME NEW E \in SUBSET Stamp, windows' = [windows EXCEPT ![held[t]][NextRule(t)] = E],
               IsFiniteSet(E), Calm(RuleOf(t), E, now)
        PROVE  BelowThreshold'
    <3>1. /\ Len(windows') = Len(windows)
          /\ \A h \in 1..Len(windows), m \in Names :
                windows'[h][m] = IF h = held[t] /\ m = NextRule(t) THEN E ELSE windows[h][m]
      BY <2>2, <2>3, <2>4, WindowsOf
    <3>2. \A h \in 1..Len(windows'), m \in Names : IsFiniteSet(windows'[h][m])
      BY <1>0, <2>4, <3>1 DEF BelowThreshold
    <3>3. \A g \in 1..Len(ruleSets) : \A n \in DOMAIN ruleSets[g] :
              Calm(ruleSets[g][n], windows'[g][n], now)
      BY <1>0, <1>a, <2>2, <2>4, <3>1 DEF BelowThreshold
    <3> QED
      BY <2>1, <3>2, <3>3 DEF BelowThreshold
  <2>5. CASE UNCHANGED windows
    BY <1>0, <2>1, <2>5 DEF BelowThreshold
  <2>6. CASE windows' = [windows EXCEPT ![held[t]][NextRule(t)] = {}]
    <3>1. IsFiniteSet({}) /\ {} \in SUBSET Stamp /\ Calm(RuleOf(t), {}, now)
      BY <2>2, CalmEmpty, FS_EmptySet
    <3> QED
      BY <2>4, <2>6, <3>1
  <2>7. CASE /\ RuleOf(t).type = "error_rate"
             /\ ~ (Cardinality(Errors(t)) >= RuleOf(t).threshold)
             /\ windows' = [windows EXCEPT ![held[t]][NextRule(t)] = Errors(t)]
    <3>1. PICK w : w = windows[held[t]][NextRule(t)]
      OBVIOUS
    <3>2. PICK new : new = [id |-> subject[t].id, at |-> now]
      OBVIOUS
    <3>3. IsFiniteSet(w) /\ Errors(t) \subseteq w \cup {new} /\ Errors(t) \in SUBSET Stamp
      BY <1>0, <1>4, <2>2, <2>7, <3>1, <3>2, EvaluateOf DEF BelowThreshold
    <3>4. IsFiniteSet(w \cup {new})
      BY <3>3, FS_AddElement
    <3>5. IsFiniteSet(Errors(t)) /\ Cardinality(Errors(t)) \in Nat
      BY <3>3, <3>4, FS_Subset, FS_CardinalityType
    <3>6. {e \in Errors(t) : e.at + RuleOf(t).window >= now} = Errors(t)
      BY DEF Errors, InWindow
    <3>7. Calm(RuleOf(t), Errors(t), now)
      <4>1. RuleOf(t).threshold \in Nat
        BY <2>2 DEF Rule
      <4>2. Cardinality(Errors(t)) < RuleOf(t).threshold
        BY <2>7, <3>5, <4>1
      <4>3. Cardinality({e \in Errors(t) : e.at + RuleOf(t).window >= now}) < RuleOf(t).threshold
        BY <3>6, <4>2, Zenon
      <4> QED
        BY <4>3 DEF Calm
    <3> QED
      BY <2>4, <2>7, <3>3, <3>5, <3>7
  <2> QED
    BY <1>4, <2>5, <2>6, <2>7, EvaluateOf
<1>5. \/ UNCHANGED <<ruleSets, windows, now>>
      \/ Tick \/ Apply \/ \E t \in Threads : Evaluate(t)
  BY DEF Next, Input, EngineInput, ProcessLine, Health, UpdateStatus, API, handleCreateAlertRule,
         handleUpdateAlertRule, handleDeleteAlertRule, Edit, EngineNext, TakeLine, LoopExits,
         EngineStep, ProcessHealthChange, Evaluated, Allow, Record, AddRecent, Notified,
         CloseQueue, CloseReturn, Watcher, Poll, reloadAlertRulesFromDB, vars, engineVars
<1> QED
  BY <1>1, <1>2, <1>3, <1>4, <1>5

-----------------------------------------------------------------------------
(* The order of the lines.                                                 *)

LEMMA LinesInOrderKeeps ==
  ASSUME IInv, [Next]_vars
  PROVE  LinesInOrder'
<1>0. /\ queue \in Seq(Queued) /\ offered \in Nat /\ MaxLines \in Nat
      /\ DOMAIN pc = Threads /\ DOMAIN subject = Threads /\ "loop" \in Threads
      /\ LinesInOrder
      /\ pc["loop"] \in Active => subject["loop"] \in Queued
  BY ConstantsOf DEF IInv, TypeOK, EngineTypeOK, Contents, Threads, Working, Works
<1>a. \A i \in 1..Len(queue) : queue[i] \in Queued /\ queue[i].id \in Nat
  <2>1. \A i \in 1..Len(queue) : queue[i] \in Queued
    BY <1>0, ElementOf
  <2> QED
    BY <1>0, <2>1 DEF Queued
<1>b. pc["loop"] \in Active => subject["loop"].id \in Nat
  BY <1>0 DEF Queued
<1>1. CASE /\ UNCHANGED <<queue, offered>>
           /\ pc'["loop"] \in Active => pc["loop"] \in Active /\ subject'["loop"] = subject["loop"]
  BY <1>0, <1>1 DEF LinesInOrder
<1>2. ASSUME NEW line \in Lines, ProcessLine(line)
      PROVE  LinesInOrder'
  <2>1. offered' = offered + 1 /\ UNCHANGED <<pc, subject>> /\ offered < MaxLines
    BY <1>2 DEF ProcessLine
  <2>2. CASE queue' = queue
    BY <1>0, <1>a, <1>b, <2>1, <2>2 DEF LinesInOrder
  <2>3. CASE queue' = Append(queue, Numbered(line, offered + 1))
    <3>1. PICK e : e = Numbered(line, offered + 1)
      OBVIOUS
    <3>2. e \in Queued /\ e.id = offered + 1
      BY <1>0, <2>1, <3>1, AlertEngineAssumption DEF Numbered, Queued
    <3>3. /\ \A i \in 1..Len(queue) : queue'[i] = queue[i]
          /\ queue'[Len(queue) + 1] = e
          /\ \A i \in 1..Len(queue') : i \in 1..Len(queue) \/ i = Len(queue) + 1
          /\ Len(queue) \in Nat
      BY <1>0, <2>3, <3>1, <3>2, AppendOf
    <3>4. \A i \in 1..Len(queue) : queue[i].id <= offered
      BY <1>0 DEF LinesInOrder
    <3>5. \A i \in 1..Len(queue') : queue'[i].id <= offered'
      BY <1>0, <1>a, <2>1, <3>2, <3>3, <3>4
    <3>6. \A i, j \in 1..Len(queue') : i < j => queue'[i].id < queue'[j].id
      <4> SUFFICES ASSUME NEW i \in 1..Len(queue'), NEW j \in 1..Len(queue'), i < j
                   PROVE  queue'[i].id < queue'[j].id
        OBVIOUS
      <4>1. i \in 1..Len(queue)
        BY <3>3
      <4>2. CASE j \in 1..Len(queue)
        BY <1>0, <3>3, <4>1, <4>2 DEF LinesInOrder
      <4>3. CASE j = Len(queue) + 1
        BY <1>0, <1>a, <3>2, <3>3, <3>4, <4>1, <4>3
      <4> QED
        BY <3>3, <4>2, <4>3
    <3>7. pc["loop"] \in Active => /\ subject["loop"].id <= offered'
                                   /\ \A i \in 1..Len(queue') : subject["loop"].id < queue'[i].id
      <4>1. pc["loop"] \in Active => /\ subject["loop"].id <= offered
                                     /\ \A i \in 1..Len(queue) : subject["loop"].id < queue[i].id
        BY <1>0 DEF LinesInOrder
      <4> QED
        BY <1>0, <1>b, <2>1, <3>2, <3>3, <4>1
    <3> QED
      BY <2>1, <3>5, <3>6, <3>7 DEF LinesInOrder
  <2> QED
    BY <1>2, <2>2, <2>3 DEF ProcessLine
<1>3. CASE TakeLine
  <2>1. queue # <<>> /\ queue' = Tail(queue) /\ subject'["loop"] = Head(queue) /\ offered' = offered
    BY <1>0, <1>3 DEF TakeLine, Snapshot
  <2>2. /\ \A i \in 1..Len(queue') : i + 1 \in 1..Len(queue) /\ queue'[i] = queue[i + 1]
        /\ 1 \in 1..Len(queue) /\ Head(queue) = queue[1]
        /\ Len(queue') = Len(queue) - 1 /\ Len(queue) \in Nat
    BY <1>0, <2>1, TailOf
  <2>3. \A i, j \in 1..Len(queue') : i < j => queue'[i].id < queue'[j].id
    <3> TAKE i \in 1..Len(queue'), j \in 1..Len(queue')
    <3>1. i < j => i + 1 < j + 1
      BY <2>2
    <3> QED
      BY <1>0, <2>2, <3>1 DEF LinesInOrder
  <2>4. \A i \in 1..Len(queue') : queue'[i].id <= offered /\ subject'["loop"].id < queue'[i].id
    <3> TAKE i \in 1..Len(queue')
    <3>1. 1 < i + 1
      BY <2>2
    <3> QED
      BY <1>0, <2>1, <2>2, <3>1 DEF LinesInOrder
  <2>5. subject'["loop"].id <= offered
    BY <1>0, <2>1, <2>2 DEF LinesInOrder
  <2> QED
    BY <2>1, <2>3, <2>4, <2>5 DEF LinesInOrder
<1>4. ASSUME NEW t \in Threads, EngineStep(t)
      PROVE  /\ UNCHANGED <<queue, offered>>
             /\ pc'["loop"] \in Active => pc["loop"] \in Active /\ subject'["loop"] = subject["loop"]
  <2>1. CASE ProcessHealthChange(t)
    <3>1. t # "loop"
      BY <2>1 DEF ProcessHealthChange, IInv, Working, Works
    <3> QED
      BY <1>0, <2>1, <3>1 DEF ProcessHealthChange, Snapshot
  <2>2. CASE Evaluate(t)
    <3>1. UNCHANGED <<queue, offered, subject>> /\ pc[t] = "eval"
      BY <2>2, EvaluateOf
    <3>2. \A u \in Threads : u # t => pc'[u] = pc[u]
      <4>1. pc' = [pc EXCEPT ![t] = "fire"] \/ pc' = pc
        BY <2>2, EvaluateOf DEF Raise
      <4> QED
        BY <1>0, <4>1
    <3> QED
      BY <1>0, <3>1, <3>2 DEF Active
  <2>3. CASE Evaluated(t)
    BY <1>0, <2>3 DEF Evaluated, Active
  <2>4. CASE Allow(t) \/ Record(t) \/ AddRecent(t) \/ Notified(t)
    <3>1. UNCHANGED <<queue, offered, subject>> /\ pc[t] \in Active
      BY <2>4 DEF Allow, Record, AddRecent, Notified, Active
    <3>2. \A u \in Threads : u # t => pc'[u] = pc[u]
      BY <1>0, <2>4 DEF Allow, Record, AddRecent, Notified
    <3> QED
      BY <1>0, <3>1, <3>2
  <2> QED
    BY <1>4, <2>1, <2>2, <2>3, <2>4 DEF EngineStep
<1>5. ASSUME Health
      PROVE  /\ UNCHANGED <<queue, offered>>
             /\ pc'["loop"] \in Active => pc["loop"] \in Active /\ subject'["loop"] = subject["loop"]
  BY <1>0, <1>5, AlertEngineAssumption DEF Health, UpdateStatus, Active
<1>6. ASSUME LoopExits
      PROVE  /\ UNCHANGED <<queue, offered>> /\ ~ (pc'["loop"] \in Active)
  BY <1>0, <1>6 DEF LoopExits, Active
<1>7. \/ UNCHANGED <<queue, offered, pc, subject>>
      \/ \E line \in Lines : ProcessLine(line)
      \/ TakeLine \/ Health \/ LoopExits
      \/ \E t \in Threads : EngineStep(t)
  BY DEF Next, Input, EngineInput, Tick, API, handleCreateAlertRule, handleUpdateAlertRule,
         handleDeleteAlertRule, Edit, EngineNext, CloseQueue, CloseReturn, Watcher, Poll,
         reloadAlertRulesFromDB, Apply, ReloadRules, vars, engineVars
<1> QED
  BY <1>1, <1>2, <1>3, <1>4, <1>5, <1>6, <1>7

-----------------------------------------------------------------------------
(* Every error counts once.                                                *)

Windows == Seq([Names -> SUBSET Stamp])

\* v is w with E for the window of rule n in set g.
Replaced(w, g, n, E, v) ==
    /\ Len(v) = Len(w)
    /\ \A h \in 1..Len(w), m \in Names : v[h][m] = IF h = g /\ m = n THEN E ELSE w[h][m]

\* Apart from line k, the errors are those of the window of rule n in set g.
OldOr(E, w, g, n, k) == \A a \in E : a \in w[g][n] \/ a.id = k
IdsOldOr(ids, w, g, n, k) == \A x \in ids : x = k \/ \E a \in w[g][n] : a.id = x

\* What the line k had not counted for, but for rule n, it has still not.
StillUnseen(w, f, pn, pe, v, qn, qe, n, k) ==
    \A m \in Names : (m # n /\ Unseen(w, f, pn, pe, m, k)) => Unseen(v, f, qn, qe, m, k)
StillBelow(w, f, pe, v, qe, k) ==
    \A id : (Below(w, f, pe, id) /\ k < id) => Below(v, f, qe, id)

\* The pending event is forgotten, or replaced by one without errors.
LEMMA OnceForget ==
  ASSUME NEW w, NEW f, NEW pn, NEW pe, NEW qn, Once(w, f, pn, pe)
  PROVE  /\ Once(w, f, qn, {})
         /\ \A n, id : Unseen(w, f, pn, pe, n, id) => Unseen(w, f, qn, {}, n, id)
         /\ \A id : Below(w, f, pe, id) => Below(w, f, {}, id)
  BY DEF Once, Unseen, Below

\* The window of rule n in set g becomes E: old errors and the line k.
LEMMA OnceWindow ==
  ASSUME NEW w \in Windows, NEW f \in Seq(Fire), NEW pn, NEW g \in 1..Len(w), NEW n \in Names,
         NEW k, NEW E, NEW v, Replaced(w, g, n, E, v), OldOr(E, w, g, n, k),
         Once(w, f, pn, {}), Unseen(w, f, pn, {}, n, k)
  PROVE  /\ Once(v, f, pn, {})
         /\ StillUnseen(w, f, pn, {}, v, pn, {}, n, k)
         /\ StillBelow(w, f, {}, v, {}, k)
<1>0. \A i \in 1..Len(f) : f[i].rule \in Names
  <2>1. \A i \in 1..Len(f) : f[i] \in Fire
    BY ElementOf
  <2> QED
    BY <2>1 DEF Fire
<1>1. \A m \in Names, h \in 1..Len(v) : \A a \in v[h][m] :
          a \in w[h][m] \/ (h = g /\ m = n /\ a.id = k)
  BY DEF Replaced, OldOr
<1>a. 1..Len(v) = 1..Len(w)
  BY DEF Replaced
<1>2. \A m \in Names : \A h, j \in 1..Len(v) :
          h # j => \A a \in v[h][m], b \in v[j][m] : a.id # b.id
  BY <1>a, <1>1 DEF Once, Unseen
<1>3. \A i \in 1..Len(f), h \in 1..Len(v) : \A a \in v[h][f[i].rule] : a.id \notin f[i].errors
  BY <1>a, <1>0, <1>1 DEF Once, Unseen
<1>4. Once(v, f, pn, {})
  BY <1>2, <1>3 DEF Once
<1>5. StillUnseen(w, f, pn, {}, v, pn, {}, n, k)
  BY <1>a, <1>1 DEF Unseen, StillUnseen
<1>6. StillBelow(w, f, {}, v, {}, k)
  BY <1>a, <1>1 DEF Below, StillBelow
<1> QED
  BY <1>4, <1>5, <1>6

\* The errors of the window of rule n in set g, with the line k, become those of
\* the pending event.
LEMMA OnceRaise ==
  ASSUME NEW w \in Windows, NEW f \in Seq(Fire), NEW pn, NEW g \in 1..Len(w), NEW n \in Names,
         NEW k, NEW pe, NEW v, Replaced(w, g, n, {}, v), IdsOldOr(pe, w, g, n, k),
         Once(w, f, pn, {}), Unseen(w, f, pn, {}, n, k)
  PROVE  /\ Once(v, f, n, pe)
         /\ StillUnseen(w, f, pn, {}, v, n, pe, n, k)
         /\ StillBelow(w, f, {}, v, pe, k)
<1>0. \A i \in 1..Len(f) : f[i].rule \in Names
  <2>1. \A i \in 1..Len(f) : f[i] \in Fire
    BY ElementOf
  <2> QED
    BY <2>1 DEF Fire
<1>1. \A m \in Names, h \in 1..Len(v) : \A a \in v[h][m] : a \in w[h][m] /\ (h # g \/ m # n)
  BY DEF Replaced
<1>a. 1..Len(v) = 1..Len(w)
  BY DEF Replaced
<1>2. \A m \in Names : \A h, j \in 1..Len(v) :
          h # j => \A a \in v[h][m], b \in v[j][m] : a.id # b.id
  BY <1>a, <1>1 DEF Once
<1>3. \A i \in 1..Len(f), h \in 1..Len(v) : \A a \in v[h][f[i].rule] : a.id \notin f[i].errors
  BY <1>a, <1>0, <1>1 DEF Once
<1>4. \A x \in pe, h \in 1..Len(v) : \A a \in v[h][n] : a.id # x
  BY <1>a, <1>1 DEF Once, Unseen, IdsOldOr
<1>5. \A i \in 1..Len(f) : f[i].rule = n => f[i].errors \cap pe = {}
  BY DEF Once, Unseen, IdsOldOr
<1>6. Once(v, f, n, pe)
  BY <1>2, <1>3, <1>4, <1>5 DEF Once
<1>7. StillUnseen(w, f, pn, {}, v, n, pe, n, k)
  BY <1>a, <1>1 DEF Unseen, StillUnseen
<1>8. StillBelow(w, f, {}, v, pe, k)
  BY <1>a, <1>1 DEF Below, StillBelow, IdsOldOr
<1> QED
  BY <1>6, <1>7, <1>8

\* The rate limiter lets the pending event through: r has its rule and errors.
LEMMA OnceAllow ==
  ASSUME NEW w, NEW f \in Seq(Fire), NEW pn, NEW pe, NEW r \in Fire, NEW h, h = Append(f, r),
         Once(w, f, pn, pe), r.rule = pn /\ r.errors = pe
  PROVE  /\ Once(w, h, pn, {})
         /\ \A n, id : Unseen(w, f, pn, pe, n, id) => Unseen(w, h, pn, {}, n, id)
         /\ \A id : Below(w, f, pe, id) => Below(w, h, {}, id)
<1>1. /\ \A i \in 1..Len(f) : h[i] = f[i]
      /\ h[Len(f) + 1] = r
      /\ \A i \in 1..Len(h) : i \in 1..Len(f) \/ i = Len(f) + 1
  BY AppendOf
<1>2. \A i, j \in 1..Len(h) :
          (i # j /\ h[i].rule = h[j].rule) => h[i].errors \cap h[j].errors = {}
  BY <1>1 DEF Once
<1>3. \A i \in 1..Len(h), g \in 1..Len(w) : \A a \in w[g][h[i].rule] : a.id \notin h[i].errors
  BY <1>1 DEF Once
<1>4. Once(w, h, pn, {})
  BY <1>2, <1>3 DEF Once
<1>5. \A n, id : Unseen(w, f, pn, pe, n, id) => Unseen(w, h, pn, {}, n, id)
  BY <1>1 DEF Unseen
<1>6. \A id : Below(w, f, pe, id) => Below(w, h, {}, id)
  BY <1>1 DEF Below
<1> QED
  BY <1>4, <1>5, <1>6

\* The rate limiter lets an event without errors through.
LEMMA OnceOther ==
  ASSUME NEW w, NEW f \in Seq(Fire), NEW pn, NEW pe, NEW r \in Fire, NEW h, h = Append(f, r),
         Once(w, f, pn, pe), r.errors = {}
  PROVE  /\ Once(w, h, pn, pe)
         /\ \A n, id : Unseen(w, f, pn, pe, n, id) => Unseen(w, h, pn, pe, n, id)
         /\ \A id : Below(w, f, pe, id) => Below(w, h, pe, id)
<1>1. /\ \A i \in 1..Len(f) : h[i] = f[i]
      /\ h[Len(f) + 1] = r
      /\ \A i \in 1..Len(h) : i \in 1..Len(f) \/ i = Len(f) + 1
  BY AppendOf
<1>2. \A i, j \in 1..Len(h) :
          (i # j /\ h[i].rule = h[j].rule) => h[i].errors \cap h[j].errors = {}
  BY <1>1 DEF Once
<1>3. \A i \in 1..Len(h), g \in 1..Len(w) : \A a \in w[g][h[i].rule] : a.id \notin h[i].errors
  BY <1>1 DEF Once
<1>4. Once(w, h, pn, pe)
  BY <1>1, <1>2, <1>3 DEF Once
<1>5. \A n, id : Unseen(w, f, pn, pe, n, id) => Unseen(w, h, pn, pe, n, id)
  BY <1>1 DEF Unseen
<1>6. \A id : Below(w, f, pe, id) => Below(w, h, pe, id)
  BY <1>1 DEF Below
<1> QED
  BY <1>4, <1>5, <1>6

\* A reload adds empty windows.
Extended(w, v) ==
    \A n \in Names, h \in 1..Len(v) : \A a \in v[h][n] : h \in 1..Len(w) /\ a \in w[h][n]

LEMMA OnceReload ==
  ASSUME NEW w \in Windows, NEW f \in Seq(Fire), NEW pn, NEW pe, NEW v, Extended(w, v),
         Once(w, f, pn, pe), pe = {} \/ pn \in Names
  PROVE  /\ Once(v, f, pn, pe)
         /\ \A n \in Names : \A id : Unseen(w, f, pn, pe, n, id) => Unseen(v, f, pn, pe, n, id)
         /\ \A id : Below(w, f, pe, id) => Below(v, f, pe, id)
<1>0. \A i \in 1..Len(f) : f[i].rule \in Names
  <2>1. \A i \in 1..Len(f) : f[i] \in Fire
    BY ElementOf
  <2> QED
    BY <2>1 DEF Fire
<1>1. \A n \in Names, h \in 1..Len(v) : \A a \in v[h][n] : h \in 1..Len(w) /\ a \in w[h][n]
  BY DEF Extended
<1>2. \A m \in Names : \A h, j \in 1..Len(v) :
          h # j => \A a \in v[h][m], b \in v[j][m] : a.id # b.id
  BY <1>1 DEF Once
<1>3. \A i \in 1..Len(f), h \in 1..Len(v) : \A a \in v[h][f[i].rule] : a.id \notin f[i].errors
  BY <1>0, <1>1 DEF Once
<1>4. Once(v, f, pn, pe)
  BY <1>1, <1>2, <1>3 DEF Once
<1>5. \A n \in Names : \A id : Unseen(w, f, pn, pe, n, id) => Unseen(v, f, pn, pe, n, id)
  BY <1>1 DEF Unseen
<1>6. \A id : Below(w, f, pe, id) => Below(v, f, pe, id)
  BY <1>1 DEF Below
<1> QED
  BY <1>4, <1>5, <1>6

LEMMA BelowUnseen ==
  ASSUME NEW w, NEW f, NEW pn, NEW pe, NEW id \in Nat, Below(w, f, pe, id), NEW n \in Names
  PROVE  Unseen(w, f, pn, pe, n, id)
  BY DEF Below, Unseen

\* What CountsOnce asks of a step that neither queues nor takes a line.
LEMMA CountsFrom ==
  ASSUME IInv, UNCHANGED <<queue, offered>>,
         Once(windows', fires', event'["loop"].rule, Pending'),
         \A id : (/\ Below(windows, fires, Pending, id)
                  /\ id = offered + 1 \/ \E i \in 1..Len(queue) : id = queue[i].id)
                 => Below(windows', fires', Pending', id),
         pc'["loop"] \in Active => \A n \in todo'["loop"] :
             Unseen(windows', fires', event'["loop"].rule, Pending', n, subject'["loop"].id)
  PROVE  CountsOnce'
<1>1. /\ Below(windows, fires, Pending, offered + 1)
      /\ \A i \in 1..Len(queue) : Below(windows, fires, Pending, queue[i].id)
  BY DEF IInv, CountsOnce
<1>2. Below(windows', fires', Pending', offered' + 1)
  BY <1>1
<1>3. \A i \in 1..Len(queue') : Below(windows', fires', Pending', queue'[i].id)
  BY <1>1
<1> QED
  BY <1>2, <1>3 DEF CountsOnce

\* The loop does not move, or not in a way that touches what it counts.
LEMMA CountsFrame ==
  ASSUME IInv, UNCHANGED <<windows, fires, queue, offered>>, event'["loop"] = event["loop"],
         Pending' = Pending,
         pc'["loop"] \in Active =>
            pc["loop"] \in Active /\ subject'["loop"] = subject["loop"] /\ todo'["loop"] = todo["loop"]
  PROVE  CountsOnce'
<1>1. Once(windows', fires', event'["loop"].rule, Pending')
  BY DEF IInv, CountsOnce
<1>2. pc'["loop"] \in Active => \A n \in todo'["loop"] :
         Unseen(windows', fires', event'["loop"].rule, Pending', n, subject'["loop"].id)
  BY DEF IInv, CountsOnce
<1>3. \A id : Below(windows, fires, Pending, id) => Below(windows', fires', Pending', id)
  OBVIOUS
<1> QED
  BY <1>1, <1>2, <1>3, CountsFrom

LEMMA CountsProcessLine ==
  ASSUME IInv, NEW line \in Lines, ProcessLine(line)
  PROVE  CountsOnce'
<1>0. /\ offered \in Nat /\ queue \in Seq(Queued)
      /\ offered' = offered + 1 /\ UNCHANGED <<windows, fires, pc, event, subject, todo>>
      /\ offered < MaxLines /\ MaxLines \in Nat
  BY ConstantsOf DEF IInv, TypeOK, EngineTypeOK, Contents, ProcessLine
<1>1. Pending' = Pending
  BY <1>0 DEF Pending
<1>2. Below(windows, fires, Pending, offered + 1)
  BY DEF IInv, CountsOnce
<1>3. Below(windows, fires, Pending, offered + 2)
  <2>1. /\ \A n \in Names, g \in 1..Len(windows) : \A a \in windows[g][n] : a.id \in Nat
        /\ \A i \in 1..Len(fires) : \A x \in fires[i].errors : x \in Nat
        /\ \A x \in Pending : x \in Nat
    <3>1. \A n \in Names, g \in 1..Len(windows) : \A a \in windows[g][n] : a \in Stamp
      BY CurrentOf DEF IInv
    <3>2. \A i \in 1..Len(fires) : fires[i] \in Fire
      BY ElementOf DEF IInv, Contents
    <3>3. "loop" \in Threads
      BY DEF Threads
    <3>4. event["loop"] \in Event
      BY <3>3 DEF IInv, Contents
    <3> QED
      BY <3>1, <3>2, <3>4 DEF Stamp, Fire, Event, Pending
  <2> QED
    BY <1>0, <1>2, <2>1 DEF Below
<1>4. \A i \in 1..Len(queue') : Below(windows, fires, Pending, queue'[i].id)
  <2>1. CASE queue' = queue
    BY <2>1 DEF IInv, CountsOnce
  <2>2. CASE queue' = Append(queue, Numbered(line, offered + 1))
    <3>1. PICK e : e = Numbered(line, offered + 1)
      OBVIOUS
    <3>2. e \in Queued /\ e.id = offered + 1
      BY <1>0, <3>1, AlertEngineAssumption DEF Numbered, Queued
    <3>3. /\ \A i \in 1..Len(queue) : queue'[i] = queue[i]
          /\ queue'[Len(queue) + 1] = e
          /\ \A i \in 1..Len(queue') : i \in 1..Len(queue) \/ i = Len(queue) + 1
      BY <1>0, <2>2, <3>1, <3>2, AppendOf
    <3> QED
      BY <1>2, <3>2, <3>3 DEF IInv, CountsOnce
  <2> QED
    BY <2>1, <2>2 DEF ProcessLine
<1>5. Below(windows, fires, Pending, offered' + 1)
  <2>1. offered' + 1 = offered + 2
    BY <1>0
  <2> QED
    BY <1>3, <2>1
<1>6. /\ Once(windows, fires, event["loop"].rule, Pending)
      /\ pc["loop"] \in Active => \A n \in todo["loop"] :
            Unseen(windows, fires, event["loop"].rule, Pending, n, subject["loop"].id)
  BY DEF IInv, CountsOnce
<1> QED
  BY <1>0, <1>1, <1>4, <1>5, <1>6 DEF CountsOnce

LEMMA CountsTakeLine ==
  ASSUME IInv, TakeLine
  PROVE  CountsOnce'
<1>0. /\ "loop" \in Threads /\ DOMAIN pc = Threads /\ DOMAIN subject = Threads /\ DOMAIN todo = Threads
      /\ queue \in Seq(Queued)
  BY DEF IInv, TypeOK, EngineTypeOK, Contents, Threads
<1>1. /\ queue # <<>> /\ queue' = Tail(queue) /\ pc["loop"] = "idle" /\ pc'["loop"] = "eval"
      /\ subject'["loop"] = Head(queue) /\ UNCHANGED <<offered, windows, fires, event>>
      /\ todo'["loop"] \subseteq DOMAIN ruleSets[Current]
  BY <1>0 DEF TakeLine, Snapshot
<1>2. Pending = {} /\ Pending' = {}
  BY <1>1 DEF Pending
<1>3. /\ \A i \in 1..Len(queue') : i + 1 \in 1..Len(queue) /\ queue'[i] = queue[i + 1]
      /\ 1 \in 1..Len(queue) /\ Head(queue) = queue[1] /\ queue[1] \in Queued
  BY <1>0, <1>1, TailOf
<1>4. queue[1].id \in Nat /\ todo'["loop"] \subseteq Names
  BY <1>1, <1>3, CurrentOf, ConstantsOf DEF IInv, Queued
<1>5. \A i \in 1..Len(queue') : Below(windows, fires, {}, queue'[i].id)
  BY <1>2, <1>3 DEF IInv, CountsOnce
<1>6. Below(windows, fires, {}, queue[1].id) /\ Below(windows, fires, {}, offered + 1)
  BY <1>2, <1>3 DEF IInv, CountsOnce
<1>7. \A n \in todo'["loop"] : Unseen(windows, fires, event["loop"].rule, {}, n, queue[1].id)
  BY <1>4, <1>6, BelowUnseen
<1>8. Once(windows, fires, event["loop"].rule, {})
  BY <1>2 DEF IInv, CountsOnce
<1> QED
  BY <1>1, <1>2, <1>3, <1>5, <1>6, <1>7, <1>8 DEF CountsOnce

LEMMA CountsEvaluate ==
  ASSUME IInv, NEW t \in Threads, Evaluate(t)
  PROVE  CountsOnce'
<1>0. /\ "loop" \in Threads /\ DOMAIN pc = Threads /\ DOMAIN todo = Threads
      /\ event \in [Threads -> Event] /\ todo["loop"] \subseteq Names
      /\ windows \in Windows /\ fires \in Seq(Fire) /\ offered \in Nat
  BY DEF IInv, TypeOK, EngineTypeOK, Contents, Threads, Windows
<1>1. /\ UNCHANGED <<queue, offered, fires, subject>> /\ pc[t] = "eval"
      /\ todo' = [todo EXCEPT ![t] = @ \ {NextRule(t)}]
      /\ NextRule(t) \in todo[t] /\ NextRule(t) \in Names
      /\ held[t] \in 1..Len(windows)
  BY EvaluateOf, CurrentOf DEF IInv
<1>2. CASE t # "loop"
  <2>1. UNCHANGED windows /\ Raise(t, {})
    BY <1>2, EvaluateOf
  <2>2. pc'["loop"] = pc["loop"] /\ event'["loop"] = event["loop"] /\ todo'["loop"] = todo["loop"]
    BY <1>0, <1>1, <1>2, <2>1 DEF Raise
  <2>3. Pending' = Pending
    BY <2>2 DEF Pending
  <2> QED
    BY <1>1, <2>1, <2>2, <2>3, CountsFrame
<1>3. CASE t = "loop"
  <2> DEFINE n == NextRule("loop")
             k == subject["loop"].id
             p == event["loop"].rule
  <2>1. Pending = {} /\ pc["loop"] = "eval"
    BY <1>1, <1>3 DEF Pending
  <2>2. /\ Once(windows, fires, p, {})
        /\ \A m \in todo["loop"] : Unseen(windows, fires, p, {}, m, k)
    BY <2>1 DEF IInv, CountsOnce, Active
  <2>3. todo'["loop"] = todo["loop"] \ {n}
    BY <1>0, <1>1, <1>3
  <2>4. k \in Nat /\ k < offered + 1 /\ \A i \in 1..Len(queue) : k < queue[i].id
    <3>1. subject["loop"] \in Queued
      BY <1>0, <2>1 DEF IInv, Working, Works, Active
    <3>2. k \in Nat
      BY <3>1, ConstantsOf DEF Queued
    <3> QED
      BY <1>0, <2>1, <3>2 DEF IInv, LinesInOrder, Active
  <2>5. n \in Names /\ n \in todo["loop"] /\ held["loop"] \in 1..Len(windows)
    BY <1>1, <1>3
  <2>6. CASE Raise("loop", {}) /\ UNCHANGED windows
    <3>1. event'["loop"].rule = n /\ Pending' = {}
      BY <1>0, <2>6 DEF Raise, Pending
    <3>2. /\ Once(windows, fires, n, {})
          /\ \A m \in todo["loop"] : Unseen(windows, fires, n, {}, m, k)
      BY <2>2, OnceForget
    <3> QED
      BY <1>1, <2>1, <2>3, <2>6, <3>1, <3>2, CountsFrom
  <2>7. CASE /\ RuleOf("loop").type = "error_rate"
             /\ Raise("loop", {e.id : e \in Errors("loop")})
             /\ windows' = [windows EXCEPT ![held["loop"]][n] = {}]
    <3>1. PICK pe : pe = {e.id : e \in Errors("loop")}
      OBVIOUS
    <3>2. IdsOldOr(pe, windows, held["loop"], n, k)
      <4>1. Errors("loop") \subseteq windows[held["loop"]][n] \cup {[id |-> k, at |-> now]}
        BY <1>3, <2>7, EvaluateOf
      <4> QED
        BY <3>1, <4>1 DEF IdsOldOr
    <3>3. Replaced(windows, held["loop"], n, {}, windows')
      <4>1. {} \in SUBSET Stamp
        OBVIOUS
      <4> QED
        BY <1>0, <2>5, <2>7, <4>1, WindowsOf DEF Windows, Replaced
    <3>4. event'["loop"].rule = n /\ event'["loop"].errors = pe /\ pc'["loop"] = "fire"
      BY <1>0, <2>7, <3>1 DEF Raise
    <3>5. Pending' = pe
      BY <3>4 DEF Pending
    <3>6. Unseen(windows, fires, p, {}, n, k)
      BY <2>2, <2>5
    <3> HIDE DEF n, k, p
    <3>7. /\ Once(windows', fires, n, pe)
          /\ StillUnseen(windows, fires, p, {}, windows', n, pe, n, k)
          /\ StillBelow(windows, fires, {}, windows', pe, k)
      BY <1>0, <2>2, <2>5, <3>2, <3>3, <3>6, OnceRaise
    <3>8. \A m \in todo'["loop"] : Unseen(windows', fires, n, pe, m, k)
      BY <1>0, <2>2, <2>3, <3>7 DEF StillUnseen
    <3>9. \A id : (/\ Below(windows, fires, Pending, id)
                   /\ id = offered + 1 \/ \E i \in 1..Len(queue) : id = queue[i].id)
                  => Below(windows', fires', Pending', id)
      BY <1>1, <2>1, <2>4, <3>5, <3>7 DEF StillBelow
    <3> QED
      BY <1>1, <3>4, <3>5, <3>7, <3>8, <3>9, CountsFrom DEF k
  <2>8. CASE /\ RuleOf("loop").type = "error_rate"
             /\ windows' = [windows EXCEPT ![held["loop"]][n] = Errors("loop")]
             /\ UNCHANGED <<event, pc>>
    <3>1. PICK E : E = Errors("loop")
      OBVIOUS
    <3>2. E \in SUBSET Stamp /\ OldOr(E, windows, held["loop"], n, k)
      <4>1. /\ Errors("loop") \subseteq windows[held["loop"]][n] \cup {[id |-> k, at |-> now]}
            /\ Errors("loop") \subseteq Stamp
        BY <1>3, <2>8, EvaluateOf
      <4> QED
        BY <3>1, <4>1 DEF OldOr
    <3>3. Replaced(windows, held["loop"], n, E, windows')
      BY <1>0, <2>5, <2>8, <3>1, <3>2, WindowsOf DEF Windows, Replaced
    <3>4. Pending' = {} /\ event'["loop"].rule = p
      BY <2>1, <2>8 DEF Pending
    <3>5. Unseen(windows, fires, p, {}, n, k)
      BY <2>2, <2>5
    <3> HIDE DEF n, k, p
    <3>6. /\ Once(windows', fires, p, {})
          /\ StillUnseen(windows, fires, p, {}, windows', p, {}, n, k)
          /\ StillBelow(windows, fires, {}, windows', {}, k)
      BY <1>0, <2>2, <2>5, <3>2, <3>3, <3>5, OnceWindow
    <3>7. \A m \in todo'["loop"] : Unseen(windows', fires, p, {}, m, k)
      BY <1>0, <2>2, <2>3, <3>6 DEF StillUnseen
    <3>8. \A id : (/\ Below(windows, fires, Pending, id)
                   /\ id = offered + 1 \/ \E i \in 1..Len(queue) : id = queue[i].id)
                  => Below(windows', fires', Pending', id)
      BY <1>1, <2>1, <2>4, <3>4, <3>6 DEF StillBelow
    <3> QED
      BY <1>1, <3>4, <3>6, <3>7, <3>8, CountsFrom DEF k
  <2> QED
    BY <1>3, <2>6, <2>7, <2>8, EvaluateOf
<1> QED
  BY <1>2, <1>3

LEMMA CountsAllow ==
  ASSUME IInv, NEW t \in Threads, Allow(t)
  PROVE  CountsOnce'
<1>0. /\ "loop" \in Threads /\ DOMAIN pc = Threads
      /\ fires \in Seq(Fire) /\ event[t] \in Event /\ now \in 0..MaxTime
  BY DEF IInv, TypeOK, EngineTypeOK, Contents, Threads
<1>1. /\ UNCHANGED <<queue, offered, windows, subject, todo, event>> /\ pc[t] = "fire"
      /\ pc' = [pc EXCEPT ![t] = "record"] \/ pc' = [pc EXCEPT ![t] = "eval"]
      /\ event[t].rule \in Names /\ (t # "loop" => event[t].errors = {})
  BY DEF Allow, IInv, Working, Works
<1>2. PICK r : r = [rule |-> event[t].rule, cooldown |-> event[t].cooldown,
                    errors |-> event[t].errors, at |-> now]
  OBVIOUS
<1>3. r \in Fire /\ r.rule = event[t].rule /\ r.errors = event[t].errors
  BY <1>0, <1>1, <1>2 DEF Event, Fire
<1>4. fires' = Append(fires, r) \/ fires' = fires
  BY <1>2 DEF Allow
<1>5. /\ Once(windows, fires, event["loop"].rule, Pending)
      /\ pc["loop"] \in Active => \A n \in todo["loop"] :
            Unseen(windows, fires, event["loop"].rule, Pending, n, subject["loop"].id)
  BY DEF IInv, CountsOnce
<1>6. CASE t = "loop"
  <2>1. Pending = event["loop"].errors /\ Pending' = {} /\ pc["loop"] \in Active
    BY <1>0, <1>1, <1>6 DEF Pending, Active
  <2>2. CASE fires' = fires
    BY <1>1, <1>5, <2>1, <2>2, OnceForget, CountsFrom
  <2>3. CASE fires' = Append(fires, r)
    <3>1. /\ Once(windows, fires', event["loop"].rule, {})
          /\ \A n, id : Unseen(windows, fires, event["loop"].rule, Pending, n, id)
                            => Unseen(windows, fires', event["loop"].rule, {}, n, id)
          /\ \A id : Below(windows, fires, Pending, id) => Below(windows, fires', {}, id)
      BY <1>0, <1>3, <1>5, <1>6, <2>1, <2>3, OnceAllow
    <3> QED
      BY <1>1, <1>5, <2>1, <3>1, CountsFrom
  <2> QED
    BY <1>4, <2>2, <2>3
<1>7. CASE t # "loop"
  <2>1. pc'["loop"] = pc["loop"]
    BY <1>0, <1>1, <1>7
  <2>2. Pending' = Pending
    BY <1>1, <2>1 DEF Pending
  <2>3. CASE fires' = fires
    BY <1>1, <2>1, <2>2, <2>3, CountsFrame
  <2>4. CASE fires' = Append(fires, r)
    <3>1. /\ Once(windows, fires', event["loop"].rule, Pending)
          /\ \A n, id : Unseen(windows, fires, event["loop"].rule, Pending, n, id)
                            => Unseen(windows, fires', event["loop"].rule, Pending, n, id)
          /\ \A id : Below(windows, fires, Pending, id) => Below(windows, fires', Pending, id)
      BY <1>0, <1>1, <1>3, <1>5, <1>7, <2>4, OnceOther
    <3> QED
      BY <1>1, <1>5, <2>1, <2>2, <3>1, CountsFrom
  <2> QED
    BY <1>4, <2>3, <2>4
<1> QED
  BY <1>6, <1>7

LEMMA CountsApply ==
  ASSUME IInv, Apply
  PROVE  CountsOnce'
<1>0. /\ "loop" \in Threads /\ windows \in Windows /\ fires \in Seq(Fire)
      /\ todo["loop"] \subseteq Names
  BY DEF IInv, TypeOK, EngineTypeOK, Contents, Threads, Windows
<1>1. /\ UNCHANGED <<queue, offered, fires, subject, todo, event, pc>>
      /\ windows' = windows \/ windows' = Append(windows, [n \in Names |-> {}])
  BY DEF Apply, ReloadRules
<1>2. Pending' = Pending
  BY <1>1 DEF Pending
<1>3. CASE windows' = windows
  BY <1>1, <1>2, <1>3, CountsFrame
<1>4. CASE windows' = Append(windows, [n \in Names |-> {}])
  <2>1. PICK none : none = [n \in Names |-> {}]
    OBVIOUS
  <2>2. none \in [Names -> SUBSET Stamp] /\ \A n \in Names : none[n] = {}
    BY <2>1
  <2>3. Pending = {} \/ event["loop"].rule \in Names
    BY <1>0 DEF IInv, Working, Works, Pending
  <2>4. /\ Once(windows, fires, event["loop"].rule, Pending)
        /\ pc["loop"] \in Active => \A n \in todo["loop"] :
              Unseen(windows, fires, event["loop"].rule, Pending, n, subject["loop"].id)
    BY DEF IInv, CountsOnce
  <2>5. /\ Once(windows', fires, event["loop"].rule, Pending)
        /\ \A n \in Names : \A id : Unseen(windows, fires, event["loop"].rule, Pending, n, id)
                          => Unseen(windows', fires, event["loop"].rule, Pending, n, id)
        /\ \A id : Below(windows, fires, Pending, id) => Below(windows', fires, Pending, id)
    <3>1. /\ \A i \in 1..Len(windows) : windows'[i] = windows[i]
          /\ windows'[Len(windows) + 1] = none
          /\ \A i \in 1..Len(windows') : i \in 1..Len(windows) \/ i = Len(windows) + 1
      BY <1>0, <1>4, <2>1, <2>2, AppendOf DEF Windows
    <3>2. Extended(windows, windows')
      BY <2>2, <3>1 DEF Extended
    <3> QED
      BY <1>0, <2>3, <2>4, <3>2, OnceReload
  <2> QED
    BY <1>0, <1>1, <1>2, <2>4, <2>5, CountsFrom
<1> QED
  BY <1>1, <1>3, <1>4

LEMMA CountsOnceKeeps ==
  ASSUME IInv, [Next]_vars
  PROVE  CountsOnce'
<1>0. /\ "loop" \in Threads /\ DOMAIN pc = Threads /\ DOMAIN subject = Threads
      /\ DOMAIN todo = Threads /\ event \in [Threads -> Event]
  BY DEF IInv, TypeOK, EngineTypeOK, Contents, Threads
<1>1. CASE UNCHANGED <<windows, fires, queue, offered, pc, subject, todo, event>>
  BY <1>1, CountsFrame DEF Pending
<1>2. CASE Health
  <2>1. PICK t \in Reporters, source \in Sources, new \in Statuses : UpdateStatus(t, source, new)
    BY <1>2 DEF Health
  <2>2. t # "loop"
    BY AlertEngineAssumption
  <2>3. /\ UNCHANGED <<windows, fires, queue, offered, event, todo>>
        /\ pc'["loop"] = pc["loop"] /\ subject'["loop"] = subject["loop"]
    BY <1>0, <2>1, <2>2 DEF UpdateStatus
  <2> QED
    BY <2>3, CountsFrame DEF Pending
<1>3. CASE LoopExits
  <2>1. /\ UNCHANGED <<windows, fires, queue, offered, event, todo, subject>>
        /\ pc'["loop"] = "exited" /\ pc["loop"] = "idle"
    BY <1>0, <1>3 DEF LoopExits
  <2>2. Pending' = Pending /\ ~ (pc'["loop"] \in Active)
    BY <2>1 DEF Pending, Active
  <2> QED
    BY <2>1, <2>2, CountsFrame
<1>4. ASSUME NEW t \in Threads, EngineStep(t)
      PROVE  CountsOnce'
  <2>1. CASE ProcessHealthChange(t)
    <3>1. t # "loop"
      BY <2>1 DEF ProcessHealthChange, IInv, Working, Works
    <3>2. /\ UNCHANGED <<windows, fires, queue, offered, event>> /\ todo'["loop"] = todo["loop"]
          /\ pc'["loop"] = pc["loop"] /\ subject'["loop"] = subject["loop"]
      BY <1>0, <2>1, <3>1 DEF ProcessHealthChange, Snapshot
    <3> QED
      BY <3>2, CountsFrame DEF Pending
  <2>2. CASE Evaluated(t)
    <3>1. UNCHANGED <<windows, fires, queue, offered, todo>>
      BY <2>2 DEF Evaluated
    <3>2. CASE t # "loop"
      <4>1. /\ pc'["loop"] = pc["loop"] /\ subject'["loop"] = subject["loop"]
            /\ event'["loop"] = event["loop"]
        BY <1>0, <2>2, <3>2 DEF Evaluated
      <4> QED
        BY <3>1, <4>1, CountsFrame DEF Pending
    <3>3. CASE t = "loop"
      <4>1. pc'["loop"] = "idle" /\ pc["loop"] = "eval"
        BY <1>0, <2>2, <3>3 DEF Evaluated
      <4>2. Pending' = {} /\ Pending = {} /\ ~ (pc'["loop"] \in Active)
        BY <4>1 DEF Pending, Active
      <4>3. Once(windows, fires, event["loop"].rule, {})
        BY <4>2 DEF IInv, CountsOnce
      <4>4. Once(windows, fires, event'["loop"].rule, {})
        BY <4>3, OnceForget
      <4> QED
        BY <3>1, <4>2, <4>4, CountsFrom
    <3> QED
      BY <3>2, <3>3
  <2>3. CASE Record(t) \/ AddRecent(t) \/ Notified(t)
    <3>1. /\ UNCHANGED <<windows, fires, queue, offered, todo, subject, event>>
          /\ pc[t] \in {"record", "remember", "notify"}
          /\ pc' \in {[pc EXCEPT ![t] = "remember"], [pc EXCEPT ![t] = "notify"], [pc EXCEPT ![t] = "eval"]}
      BY <2>3 DEF Record, AddRecent, Notified
    <3>2. /\ Pending' = Pending
          /\ pc'["loop"] \in Active => pc["loop"] \in Active
      BY <1>0, <3>1 DEF Pending, Active
    <3> QED
      BY <3>1, <3>2, CountsFrame
  <2> QED
    BY <1>4, <2>1, <2>2, <2>3, CountsEvaluate, CountsAllow DEF EngineStep
<1>5. \/ UNCHANGED <<windows, fires, queue, offered, pc, subject, todo, event>>
      \/ \E line \in Lines : ProcessLine(line)
      \/ TakeLine \/ Health \/ LoopExits \/ Apply
      \/ \E t \in Threads : EngineStep(t)
  BY DEF Next, Input, EngineInput, Tick, API, handleCreateAlertRule, handleUpdateAlertRule,
         handleDeleteAlertRule, Edit, EngineNext, CloseQueue, CloseReturn, Watcher, Poll,
         reloadAlertRulesFromDB, vars, engineVars
<1> QED
  BY <1>1, <1>2, <1>3, <1>4, <1>5, CountsProcessLine, CountsTakeLine, CountsApply

-----------------------------------------------------------------------------
(* The books.                                                              *)

LEMMA FiresOfFinite ==
  ASSUME Contents, NEW n
  PROVE  IsFiniteSet(FiresOf(n)) /\ Cardinality(FiresOf(n)) \in Nat
<1>1. Len(fires) \in Nat
  BY DEF Contents
<1>2. IsFiniteSet(1..Len(fires))
  BY <1>1, FS_Interval
<1>3. FiresOf(n) \subseteq 1..Len(fires)
  BY DEF FiresOf
<1> QED
  BY <1>2, <1>3, FS_Subset, FS_CardinalityType

LEMMA RecordingFinite ==
  ASSUME Books, NEW n
  PROVE  /\ IsFiniteSet(Recording(n)) /\ Cardinality(Recording(n)) \in Nat
         /\ Cardinality(Reporting) \in Nat
<1>1. Recording(n) \subseteq Reporting /\ IsFiniteSet(Reporting)
  BY DEF Recording, Reporting, Books
<1> QED
  BY <1>1, FS_Subset, FS_CardinalityType

\* Nobody starts or stops writing to the books.
LEMMA BooksFrame ==
  ASSUME IInv, UNCHANGED <<stats, recent, fires, ruleSets, dropped>>,
         \A u \in Threads :
             \/ pc'[u] = pc[u] /\ event'[u] = event[u]
             \/ pc[u] \notin {"record", "remember"} /\ pc'[u] \notin {"record", "remember"}
  PROVE  Books'
<1>1. Reporting' = Reporting
  BY DEF Reporting
<1>2. ASSUME NEW n PROVE Recording(n)' = Recording(n)
  BY DEF Recording
<1>3. ASSUME NEW n PROVE FiresOf(n)' = FiresOf(n)
  BY DEF FiresOf
<1>4. Books
  BY DEF IInv
<1>5. \A n \in DOMAIN ruleSets[1] \ dropped :
         stats[n] + Cardinality(Recording(n)') = Cardinality(FiresOf(n)')
  BY <1>2, <1>3, <1>4 DEF Books
<1> QED
  BY <1>1, <1>4, <1>5 DEF Books, Current

LEMMA BooksAllow ==
  ASSUME IInv, NEW t \in Threads, Allow(t)
  PROVE  Books'
<1>0. /\ DOMAIN pc = Threads /\ fires \in Seq(Fire) /\ event[t] \in Event /\ now \in 0..MaxTime
      /\ Contents /\ Books
  BY DEF IInv, TypeOK, EngineTypeOK, Contents
<1>1. /\ UNCHANGED <<stats, recent, ruleSets, dropped, event>> /\ pc[t] = "fire"
      /\ event[t].rule \in Names
  BY DEF Allow, IInv, Working, Works
<1>2. CASE pc' = [pc EXCEPT ![t] = "eval"] /\ UNCHANGED fires
  <2>1. \A u \in Threads :
             \/ pc'[u] = pc[u] /\ event'[u] = event[u]
             \/ pc[u] \notin {"record", "remember"} /\ pc'[u] \notin {"record", "remember"}
    BY <1>0, <1>1, <1>2
  <2> QED
    BY <1>1, <1>2, <2>1, BooksFrame
<1>3. CASE /\ pc' = [pc EXCEPT ![t] = "record"]
           /\ fires' = Append(fires, [rule |-> event[t].rule, cooldown |-> event[t].cooldown,
                                      errors |-> event[t].errors, at |-> now])
  <2>1. PICK r : r = [rule |-> event[t].rule, cooldown |-> event[t].cooldown,
                      errors |-> event[t].errors, at |-> now]
    OBVIOUS
  <2>2. r \in Fire /\ r.rule = event[t].rule
    BY <1>0, <1>1, <2>1 DEF Event, Fire
  <2>3. /\ Len(fires') = Len(fires) + 1 /\ Len(fires) \in Nat
        /\ \A i \in 1..Len(fires) : fires'[i] = fires[i]
        /\ fires'[Len(fires) + 1] = r
        /\ \A i \in 1..Len(fires') : i \in 1..Len(fires) \/ i = Len(fires) + 1
        /\ 1..Len(fires) \subseteq 1..Len(fires')
    BY <1>0, <1>3, <2>1, <2>2, AppendOf
  <2>4. Reporting' = Reporting \cup {t} /\ t \notin Reporting
    BY <1>0, <1>1, <1>3 DEF Reporting
  <2>5. /\ IsFiniteSet(Reporting') /\ Cardinality(Reporting') = Cardinality(Reporting) + 1
        /\ Cardinality(Reporting) \in Nat
    <3>1. IsFiniteSet(Reporting)
      BY <1>0 DEF Books
    <3> QED
      BY <2>4, <3>1, FS_AddElement, FS_CardinalityType
  <2>6. ASSUME NEW n \in DOMAIN ruleSets[1] \ dropped
        PROVE  stats[n] + Cardinality(Recording(n)') = Cardinality(FiresOf(n)')
    <3>1. stats[n] + Cardinality(Recording(n)) = Cardinality(FiresOf(n))
      BY <1>0 DEF Books
    <3>2. /\ IsFiniteSet(Recording(n)) /\ Cardinality(Recording(n)) \in Nat
          /\ IsFiniteSet(FiresOf(n)) /\ Cardinality(FiresOf(n)) \in Nat
      BY <1>0, RecordingFinite, FiresOfFinite
    <3>3. stats[n] \in Nat
      <4>1. n \in Names
        BY <1>0, CurrentOf
      <4> QED
        BY <4>1 DEF IInv, TypeOK, EngineTypeOK
    <3>4. CASE n = event[t].rule
      <4>1. Recording(n)' = Recording(n) \cup {t} /\ t \notin Recording(n)
        BY <1>0, <1>1, <1>3, <3>4 DEF Recording
      <4>2. Cardinality(Recording(n)') = Cardinality(Recording(n)) + 1
        BY <3>2, <4>1, FS_AddElement
      <4>3. FiresOf(n)' = FiresOf(n) \cup {Len(fires) + 1} /\ Len(fires) + 1 \notin FiresOf(n)
        BY <2>2, <2>3, <3>4 DEF FiresOf
      <4>4. Cardinality(FiresOf(n)') = Cardinality(FiresOf(n)) + 1
        BY <3>2, <4>3, FS_AddElement
      <4> QED
        BY <3>1, <3>2, <3>3, <4>2, <4>4
    <3>5. CASE n # event[t].rule
      <4>1. Recording(n)' = Recording(n)
        BY <1>0, <1>1, <1>3, <3>5 DEF Recording
      <4>2. FiresOf(n)' = FiresOf(n)
        BY <2>2, <2>3, <3>5 DEF FiresOf
      <4> QED
        BY <3>1, <4>1, <4>2
    <3> QED
      BY <3>4, <3>5
  <2>7. /\ Cardinality(Reporting') <= Len(fires')
        /\ Len(recent) = IF Len(fires') - Cardinality(Reporting') < MaxRecent
                         THEN Len(fires') - Cardinality(Reporting') ELSE MaxRecent
    BY <1>0, <2>3, <2>5 DEF Books
  <2> QED
    BY <1>0, <1>1, <2>5, <2>6, <2>7 DEF Books, Current
<1> QED
  BY <1>2, <1>3 DEF Allow

LEMMA BooksRecord ==
  ASSUME IInv, NEW t \in Threads, Record(t)
  PROVE  Books'
<1>0. /\ DOMAIN pc = Threads /\ stats \in [Names -> Nat] /\ Contents /\ Books
  BY DEF IInv, TypeOK, EngineTypeOK
<1>1. /\ UNCHANGED <<recent, fires, ruleSets, dropped, event>> /\ pc[t] = "record"
      /\ pc' = [pc EXCEPT ![t] = "remember"]
      /\ event[t].rule \in Names
      /\ stats' = CountFire(event[t].rule)
  BY DEF Record, IInv, Working, Works
<1>2. Reporting' = Reporting
  BY <1>0, <1>1 DEF Reporting
<1>3. ASSUME NEW n \in DOMAIN ruleSets[1] \ dropped
      PROVE  stats'[n] + Cardinality(Recording(n)') = Cardinality(FiresOf(n)')
  <2>1. /\ stats[n] + Cardinality(Recording(n)) = Cardinality(FiresOf(n))
        /\ n \in DOMAIN ruleSets[Current]
    BY <1>0 DEF Books
  <2>2. n \in Names /\ stats[n] \in Nat
    BY <1>0, CurrentOf
  <2>3. IsFiniteSet(Recording(n)) /\ Cardinality(Recording(n)) \in Nat
    BY <1>0, RecordingFinite
  <2>4. FiresOf(n)' = FiresOf(n)
    BY <1>1 DEF FiresOf
  <2>5. CASE n = event[t].rule
    <3>1. Recording(n)' = Recording(n) \ {t} /\ t \in Recording(n)
      BY <1>0, <1>1, <2>5 DEF Recording
    <3>2. Cardinality(Recording(n)') = Cardinality(Recording(n)) - 1
      BY <2>3, <3>1, FS_RemoveElement
    <3>3. stats'[n] = stats[n] + 1
      BY <1>0, <1>1, <2>1, <2>2, <2>5 DEF CountFire
    <3> QED
      BY <2>1, <2>2, <2>3, <2>4, <3>2, <3>3
  <2>6. CASE n # event[t].rule
    <3>1. Recording(n)' = Recording(n)
      BY <1>0, <1>1, <2>6 DEF Recording
    <3>2. stats'[n] = stats[n]
      BY <1>0, <1>1, <2>2, <2>6 DEF CountFire
    <3> QED
      BY <2>1, <2>4, <3>1, <3>2
  <2> QED
    BY <2>5, <2>6
<1> QED
  BY <1>0, <1>1, <1>2, <1>3 DEF Books, Current

LEMMA BooksAddRecent ==
  ASSUME IInv, NEW t \in Threads, AddRecent(t)
  PROVE  Books'
<1>0. /\ DOMAIN pc = Threads /\ recent \in Seq(Names) /\ Contents /\ Books
      /\ MaxRecent \in Nat /\ MaxRecent > 0 /\ Len(fires) \in Nat
  BY ConstantsOf DEF IInv, TypeOK, EngineTypeOK, Contents
<1>1. /\ UNCHANGED <<stats, fires, ruleSets, dropped, event>> /\ pc[t] = "remember"
      /\ pc' = [pc EXCEPT ![t] = "notify"]
      /\ event[t].rule \in Names
      /\ recent' = Remember(event[t].rule)
  BY DEF AddRecent, IInv, Working, Works
<1>2. Reporting' = Reporting \ {t} /\ t \in Reporting
  BY <1>0, <1>1 DEF Reporting
<1>3. /\ IsFiniteSet(Reporting') /\ Cardinality(Reporting') = Cardinality(Reporting) - 1
      /\ Cardinality(Reporting) \in Nat /\ Cardinality(Reporting') \in Nat
  <2>1. IsFiniteSet(Reporting)
    BY <1>0 DEF Books
  <2>2. IsFiniteSet(Reporting') /\ Cardinality(Reporting') = Cardinality(Reporting) - 1
    BY <1>2, <2>1, FS_RemoveElement
  <2> QED
    BY <2>1, <2>2, FS_CardinalityType
<1>4. ASSUME NEW n PROVE Recording(n)' = Recording(n) /\ FiresOf(n)' = FiresOf(n)
  BY <1>0, <1>1 DEF Recording, FiresOf
<1>5. Len(recent') = IF Len(recent) >= MaxRecent THEN Len(recent) ELSE Len(recent) + 1
  <2>1. CASE Len(recent) >= MaxRecent
    <3>1. recent # <<>>
      BY <1>0, <2>1
    <3>2. Tail(recent) \in Seq(Names) /\ Len(Tail(recent)) = Len(recent) - 1 /\ Len(recent) \in Nat
      BY <1>0, <3>1, TailOf
    <3>3. recent' = Append(Tail(recent), event[t].rule)
      BY <1>1, <2>1 DEF Remember
    <3>4. Len(recent') = Len(Tail(recent)) + 1
      BY <1>1, <3>2, <3>3, AppendOf
    <3> QED
      BY <2>1, <3>2, <3>4
  <2>2. CASE ~ (Len(recent) >= MaxRecent)
    <3>1. recent' = Append(recent, event[t].rule)
      BY <1>1, <2>2 DEF Remember
    <3> QED
      BY <1>0, <1>1, <2>2, <3>1, AppendOf
  <2> QED
    BY <2>1, <2>2
<1>6. /\ Cardinality(Reporting') <= Len(fires')
      /\ Len(recent') = IF Len(fires') - Cardinality(Reporting') < MaxRecent
                        THEN Len(fires') - Cardinality(Reporting') ELSE MaxRecent
  BY <1>0, <1>1, <1>3, <1>5 DEF Books
<1>7. \A n \in DOMAIN ruleSets[1] \ dropped :
         stats[n] + Cardinality(Recording(n)') = Cardinality(FiresOf(n)')
  BY <1>0, <1>4 DEF Books
<1> QED
  BY <1>0, <1>1, <1>3, <1>6, <1>7 DEF Books, Current

LEMMA BooksApply ==
  ASSUME IInv, Apply
  PROVE  Books'
<1>0. Contents /\ Books /\ stats \in [Names -> Nat] /\ loading \in RuleSet
  BY DEF IInv, TypeOK, EngineTypeOK, Contents
<1>1. ReloadRules(loading) /\ UNCHANGED <<recent, fires, pc, event>>
  BY DEF Apply, ReloadRules
<1>2. CASE UNCHANGED <<ruleSets, stats, dropped>>
  BY <1>1, <1>2, BooksFrame
<1>3. CASE /\ ruleSets' = Append(ruleSets, loading)
           /\ stats' = KeptStats(loading)
           /\ dropped' = dropped \cup (DOMAIN ruleSets[Current] \ DOMAIN loading)
  <2>1. /\ ruleSets'[1] = ruleSets[1] /\ ruleSets'[Len(ruleSets')] = loading
    BY <1>0, <1>3, AppendOf DEF Contents
  <2>2. ASSUME NEW n \in DOMAIN ruleSets[1] \ dropped'
        PROVE  /\ n \in DOMAIN loading
               /\ stats'[n] = stats[n]
               /\ n \in DOMAIN ruleSets[1] \ dropped
    <3>1. n \in DOMAIN ruleSets[1] \ dropped
      BY <1>3
    <3>2. n \in DOMAIN ruleSets[Current] /\ n \in Names
      BY <1>0, <3>1, CurrentOf DEF Books
    <3>3. n \in DOMAIN loading
      BY <1>3, <3>2
    <3> QED
      BY <1>3, <3>1, <3>2, <3>3 DEF KeptStats
  <2>3. ASSUME NEW n PROVE Recording(n)' = Recording(n) /\ FiresOf(n)' = FiresOf(n)
    BY <1>1 DEF Recording, FiresOf
  <2>4. Reporting' = Reporting
    BY <1>1 DEF Reporting
  <2>5. \A n \in DOMAIN ruleSets'[1] \ dropped' :
           stats'[n] + Cardinality(Recording(n)') = Cardinality(FiresOf(n)')
    BY <1>0, <2>1, <2>2, <2>3 DEF Books
  <2>6. DOMAIN ruleSets'[1] \ dropped' \subseteq DOMAIN ruleSets'[Len(ruleSets')]
    BY <2>1, <2>2
  <2> QED
    BY <1>0, <1>1, <2>4, <2>5, <2>6 DEF Books, Current
<1> QED
  BY <1>1, <1>2, <1>3 DEF ReloadRules

LEMMA BooksKeeps ==
  ASSUME IInv, [Next]_vars
  PROVE  Books'
<1>0. DOMAIN pc = Threads /\ event \in [Threads -> Event] /\ "loop" \in Threads
  BY DEF IInv, TypeOK, EngineTypeOK, Contents, Threads
<1>1. CASE UNCHANGED <<stats, recent, fires, ruleSets, dropped, pc, event>>
  BY <1>1, BooksFrame
<1>2. CASE Health
  <2>1. PICK t \in Reporters, source \in Sources, new \in Statuses : UpdateStatus(t, source, new)
    BY <1>2 DEF Health
  <2>2. /\ UNCHANGED <<stats, recent, fires, ruleSets, dropped, event>> /\ pc[t] = "idle"
        /\ pc' = pc \/ pc' = [pc EXCEPT ![t] = "callback"]
    BY <2>1 DEF UpdateStatus
  <2>3. \A u \in Threads :
             \/ pc'[u] = pc[u] /\ event'[u] = event[u]
             \/ pc[u] \notin {"record", "remember"} /\ pc'[u] \notin {"record", "remember"}
    BY <1>0, <2>2
  <2> QED
    BY <2>2, <2>3, BooksFrame
<1>3. CASE TakeLine \/ LoopExits
  <2>1. /\ UNCHANGED <<stats, recent, fires, ruleSets, dropped, event>> /\ pc["loop"] = "idle"
        /\ pc' = [pc EXCEPT !["loop"] = "eval"] \/ pc' = [pc EXCEPT !["loop"] = "exited"]
    BY <1>3 DEF TakeLine, LoopExits, Snapshot
  <2>2. \A u \in Threads :
             \/ pc'[u] = pc[u] /\ event'[u] = event[u]
             \/ pc[u] \notin {"record", "remember"} /\ pc'[u] \notin {"record", "remember"}
    BY <1>0, <2>1
  <2> QED
    BY <2>1, <2>2, BooksFrame
<1>4. ASSUME NEW t \in Threads, EngineStep(t)
      PROVE  Books'
  <2>1. CASE ProcessHealthChange(t) \/ Evaluated(t) \/ Notified(t)
    <3>1. /\ UNCHANGED <<stats, recent, fires, ruleSets, dropped>>
          /\ pc[t] \in {"callback", "eval", "notify"}
          /\ pc' = [pc EXCEPT ![t] = "eval"] \/ pc' = [pc EXCEPT ![t] = "idle"]
          /\ event' = event \/ event' = [event EXCEPT ![t] = NoEvent]
      BY <2>1 DEF ProcessHealthChange, Evaluated, Notified, Snapshot
    <3>2. \A u \in Threads :
               \/ pc'[u] = pc[u] /\ event'[u] = event[u]
               \/ pc[u] \notin {"record", "remember"} /\ pc'[u] \notin {"record", "remember"}
      BY <1>0, <3>1
    <3> QED
      BY <3>1, <3>2, BooksFrame
  <2>2. CASE Evaluate(t)
    <3>1. UNCHANGED <<stats, recent, fires, ruleSets, dropped>> /\ pc[t] = "eval"
      BY <2>2, EvaluateOf
    <3>2. \/ UNCHANGED <<event, pc>>
          \/ \E es : Raise(t, es)
      BY <2>2, EvaluateOf
    <3>3. \A u \in Threads :
               \/ pc'[u] = pc[u] /\ event'[u] = event[u]
               \/ pc[u] \notin {"record", "remember"} /\ pc'[u] \notin {"record", "remember"}
      BY <1>0, <3>1, <3>2 DEF Raise
    <3> QED
      BY <3>1, <3>3, BooksFrame
  <2> QED
    BY <1>4, <2>1, <2>2, BooksAllow, BooksRecord, BooksAddRecent DEF EngineStep
<1>5. \/ UNCHANGED <<stats, recent, fires, ruleSets, dropped, pc, event>>
      \/ Health \/ TakeLine \/ LoopExits \/ Apply
      \/ \E t \in Threads : EngineStep(t)
  BY DEF Next, Input, EngineInput, Tick, ProcessLine, API, handleCreateAlertRule, handleUpdateAlertRule,
         handleDeleteAlertRule, Edit, EngineNext, CloseQueue, CloseReturn, Watcher, Poll,
         reloadAlertRulesFromDB, vars, engineVars
<1> QED
  BY <1>1, <1>2, <1>3, <1>4, <1>5, BooksApply

-----------------------------------------------------------------------------
(* The invariant holds.                                                    *)

LEMMA InvariantInit == Init => IInv
<1> SUFFICES ASSUME Init PROVE IInv
  OBVIOUS
<1> USE ConstantsOf
<1> DEFINE rs == Enabled(InitialRows)
<1>1. InitialRows \in Table
  BY AlertingAssumption DEF Table
<1>2. rs \in RuleSet
  BY <1>1, TableOf
<1>3. rows = InitialRows /\ ruleSets = <<rs>>
  BY DEF Init, EngineInit
<1>4. PICK none : none = [n \in Names |-> {}]
  OBVIOUS
<1>5. none \in [Names -> SUBSET Stamp] /\ (\A n \in Names : none[n] = {}) /\ windows = <<none>>
  BY <1>4 DEF Init, EngineInit
<1> HIDE DEF rs
<1>6. ruleSets \in Seq(RuleSet) /\ Len(ruleSets) = 1 /\ ruleSets[1] = rs
  BY <1>2, <1>3
<1>7. windows \in Seq([Names -> SUBSET Stamp]) /\ Len(windows) = 1 /\ windows[1] = none
  BY <1>5
<1>8. NoEvent \in Event
  BY DEF NoEvent, Event
<1>9. /\ queue = <<>> /\ recent = <<>> /\ fires = <<>> /\ loading = <<>>
      /\ event = [t \in Threads |-> NoEvent] /\ subject = [t \in Threads |-> NoSubject]
      /\ pc = [t \in Threads |-> "idle"] /\ now = 0 /\ offered = 0 /\ dropped = {}
      /\ watcher = "idle"
  BY DEF Init, EngineInit
<1>10. Contents
  BY <1>1, <1>3, <1>6, <1>7, <1>8, <1>9, EmptyRuleSet DEF Contents
<1>11. Simple
  <2>1. /\ stats \in [Names -> Nat] /\ lastFire \in [Names -> -1..MaxTime]
        /\ held \in [Threads -> Nat] /\ todo \in [Threads -> SUBSET Names]
        /\ status \in [Sources -> Statuses \cup {"starting"}]
    BY DEF Init, EngineInit
  <2>2. pc \in [Threads -> {"idle", "callback", "eval", "fire", "record", "remember", "notify", "exited"}]
    BY <1>9
  <2>3. closer = "open" /\ reports = 0 /\ edits = 0 /\ dirty = FALSE /\ missed = FALSE
    BY DEF Init, EngineInit
  <2>4. dirty \in BOOLEAN /\ missed \in BOOLEAN
    BY <2>3
  <2>5. Len(queue) <= QueueCap /\ Len(recent) <= MaxRecent
    BY <1>9
  <2> QED
    BY <1>9, <2>1, <2>2, <2>3, <2>4, <2>5 DEF Simple
<1>12. TypeOK
  BY <1>10, <1>11, TypesSplit
<1>13. Working
  BY <1>9 DEF Working, Works, Active
<1>14. Len(fires) = 0 /\ 1..0 = {} /\ DOMAIN fires = {} /\ Len(queue) = 0 /\ Len(recent) = 0
  BY <1>9
<1>15. Limited
  BY <1>14 DEF Limited, CooldownRespected
<1>16. 1..Len(windows) = {1} /\ 1..Len(ruleSets) = {1}
  BY <1>6, <1>7
<1>17. BelowThreshold
  <2>1. IsFiniteSet({})
    BY FS_EmptySet
  <2>2. \A n \in DOMAIN rs : n \in Names /\ rs[n] \in Rule
    BY <1>2, RuleSetOf
  <2>3. \A n \in DOMAIN rs : Calm(rs[n], {}, now)
    BY <2>2, CalmEmpty
  <2> QED
    BY <1>5, <1>6, <1>7, <1>16, <2>1, <2>2, <2>3 DEF BelowThreshold
<1>18. Pending = {} /\ ~ (pc["loop"] \in Active)
  BY <1>9 DEF Pending, Threads, Active
<1>19. /\ \A pn : Once(windows, fires, pn, {})
       /\ \A id : Below(windows, fires, {}, id)
  BY <1>5, <1>7, <1>14, <1>16 DEF Once, Below
<1>20. CountsOnce
  BY <1>14, <1>18, <1>19 DEF CountsOnce
<1>21. LinesInOrder
  BY <1>14, <1>18 DEF LinesInOrder
<1>22. Books
  <2>1. Reporting = {} /\ \A n : Recording(n) = {} /\ FiresOf(n) = {}
    BY <1>9, <1>14 DEF Reporting, Recording, FiresOf
  <2>2. IsFiniteSet({}) /\ Cardinality({}) = 0
    BY FS_EmptySet
  <2>3. \A n \in DOMAIN rs : stats[n] = 0
    BY <1>2, RuleSetOf DEF Init, EngineInit
  <2> QED
    <3>1. /\ Cardinality(Reporting) = 0 /\ IsFiniteSet(Reporting)
          /\ \A n : Cardinality(Recording(n)) = 0 /\ Cardinality(FiresOf(n)) = 0
      BY <2>1, <2>2
    <3>2. \A n \in DOMAIN ruleSets[1] \ dropped :
             stats[n] + Cardinality(Recording(n)) = Cardinality(FiresOf(n))
      BY <1>6, <2>3, <3>1
    <3>3. DOMAIN ruleSets[1] \ dropped \subseteq DOMAIN ruleSets[Len(ruleSets)]
      BY <1>6
    <3>4. Len(recent) = IF 0 - 0 < MaxRecent THEN 0 - 0 ELSE MaxRecent
      BY <1>14
    <3> QED
      BY <1>14, <3>1, <3>2, <3>3, <3>4 DEF Books, Current
<1>23. Converging
  BY <1>3, <1>6, <1>9 DEF Converging, RulesConverge, Current, rs
<1> QED
  BY <1>10, <1>12, <1>13, <1>15, <1>17, <1>20, <1>21, <1>22, <1>23 DEF IInv

LEMMA InvariantHolds == Spec => []IInv
<1>1. IInv /\ [Next]_vars => IInv'
  <2> SUFFICES ASSUME IInv, [Next]_vars PROVE IInv'
    OBVIOUS
  <2>1. Contents' /\ Simple'
    BY ContentsKeeps, SimpleKeeps
  <2>2. TypeOK'
    BY <2>1, TypesSplitPrime
  <2> QED
    BY <2>1, <2>2, WorkingKeeps, LimitedKeeps, BelowThresholdKeeps, CountsOnceKeeps,
       LinesInOrderKeeps, BooksKeeps, ConvergingKeeps DEF IInv
<1> QED
  BY <1>1, InvariantInit, PTL DEF Spec

-----------------------------------------------------------------------------
(* The theorems.                                                           *)

\* Two events of one rule are at least its cooldown apart, whichever goroutines
\* call fireEvent and however often ReloadRules runs between them.
THEOREM Cooldown == Spec => []CooldownRespected
<1>1. IInv => CooldownRespected
  BY DEF IInv, Limited
<1> QED
  BY <1>1, InvariantHolds, PTL

\* A line counts for at most one event of an error_rate rule, through reloads
\* too, and the errors in the window of an evaluator stay below its threshold.
THEOREM Bursts == Spec => []BurstsExact
<1>1. IInv => BurstsExact
  <2> SUFFICES ASSUME IInv PROVE BurstsExact
    OBVIOUS
  <2>1. fires \in Seq(Fire) /\ ruleSets \in Seq(RuleSet)
    BY DEF IInv, Contents
  <2>2. DOMAIN fires = 1..Len(fires) /\ DOMAIN ruleSets = 1..Len(ruleSets)
    BY <2>1
  <2>3. \A i, j \in DOMAIN fires :
           (i # j /\ fires[i].rule = fires[j].rule) => fires[i].errors \cap fires[j].errors = {}
    BY <2>2 DEF IInv, CountsOnce, Once
  <2>4. ASSUME NEW g \in DOMAIN ruleSets, NEW n \in DOMAIN ruleSets[g],
               ruleSets[g][n].type = "error_rate", ruleSets[g][n].threshold > 0
        PROVE  Cardinality(InWindow(ruleSets[g][n], windows[g][n])) < ruleSets[g][n].threshold
    <3>1. Calm(ruleSets[g][n], windows[g][n], now)
      BY <2>2 DEF IInv, BelowThreshold
    <3> QED
      BY <2>4, <3>1 DEF Calm, InWindow
  <2> QED
    BY <2>3, <2>4 DEF BurstsExact
<1> QED
  BY <1>1, InvariantHolds, PTL

\* The statistics of a rule that every reload kept, the list of recent events and
\* the events let through agree whenever no goroutine is inside fireEvent.
THEOREM Accounts == Spec => []BooksAgree
<1>1. IInv => BooksAgree
  <2> SUFFICES ASSUME IInv, \A t \in Threads : pc[t] \in {"idle", "eval", "callback", "exited"}
               PROVE  /\ \A n \in DOMAIN ruleSets[1] \ dropped :
                            stats[n] = Cardinality({i \in DOMAIN fires : fires[i].rule = n})
                      /\ Len(recent) = IF Len(fires) < MaxRecent THEN Len(fires) ELSE MaxRecent
    BY DEF BooksAgree, IInv
  <2>1. Reporting = {} /\ \A n : Recording(n) = {}
    BY DEF Reporting, Recording
  <2>2. Cardinality({}) = 0
    BY FS_EmptySet
  <2>3. fires \in Seq(Fire) /\ Books /\ stats \in [Names -> Nat] /\ Contents
    BY DEF IInv, Contents, TypeOK, EngineTypeOK
  <2>4. Len(fires) \in Nat /\ DOMAIN fires = 1..Len(fires)
    BY <2>3
  <2>5. ASSUME NEW n \in DOMAIN ruleSets[1] \ dropped
        PROVE  stats[n] = Cardinality({i \in DOMAIN fires : fires[i].rule = n})
    <3>1. stats[n] + 0 = Cardinality(FiresOf(n))
      BY <2>1, <2>2, <2>3 DEF Books
    <3>2. stats[n] \in Nat
      BY <2>3, CurrentOf
    <3>3. FiresOf(n) = {i \in DOMAIN fires : fires[i].rule = n}
      BY <2>4 DEF FiresOf
    <3> QED
      BY <3>1, <3>2, <3>3
  <2>6. Len(recent) = IF Len(fires) < MaxRecent THEN Len(fires) ELSE MaxRecent
    <3>1. Len(fires) - 0 = Len(fires)
      BY <2>4
    <3> QED
      BY <2>1, <2>2, <2>3, <3>1 DEF Books
  <2> QED
    BY <2>5, <2>6
<1> QED
  BY <1>1, InvariantHolds, PTL

\* With the watcher at rest, nothing left to see and nothing missed, the engine
\* runs the enabled rules of the table.
THEOREM Convergence == Spec => []RulesConverge
<1>1. IInv => RulesConverge
  BY DEF IInv, Converging
<1> QED
  BY <1>1, InvariantHolds, PTL

=============================================================================
