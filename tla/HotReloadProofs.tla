--------------------------- MODULE HotReloadProofs ---------------------------
(***************************************************************************)
(* The safety properties of HotReload, proved for any set of sources, any  *)
(* configurations and files, and any number of edits and reloads.          *)
(***************************************************************************)
EXTENDS HotReload, FiniteSetTheorems, NaturalsInduction, TLAPS

-----------------------------------------------------------------------------
(* The inductive invariant.                                                *)

\* The rows of table t that an import wrote, and the sources of a file f, are valid.
RowsValid(t) == \A n \in DOMAIN t : t[n].by = "import" => ValidateConfig(t[n].cfg)
FileValid(f) == \A n \in DOMAIN f : ValidateConfig(f[n])

\* What an import writes was checked when its file was read.
Validated ==
    /\ RowsValid(rows)
    /\ FileValid(file)
    /\ FileValid(staged)
    /\ importer \in {"create", "update"} => Pending # {}

\* Add leaves one tailer that is not started, and starts it before it does anything
\* else; until shutdown it is in the map meanwhile.
StartsLast ==
    /\ \A i \in 1..Len(inst) : inst[i].state = "created" => watcher = "start" /\ i = Len(inst)
    /\ watcher = "start" =>
          /\ Len(inst) >= 1
          /\ ~ctxDone => /\ inst[Len(inst)].name \in DOMAIN tailers
                         /\ tailers[inst[Len(inst)].name] = Len(inst)

\* A source that Reconcile will add has no tailer in the map.
AddsAbsent ==
    (watcher \in {"apply", "start"} /\ ~ctxDone) =>
        (left \ DOMAIN current) \cap DOMAIN tailers = {}

\* The maps are emptied by shutdown only.
StopsLate == ~ctxDone => stopper = "idle"

IInv ==
    /\ TypeOK
    /\ Validated
    /\ StartsLast
    /\ AddsAbsent
    /\ StopsLate
    /\ OneManagedTailer

-----------------------------------------------------------------------------
(* Partial functions.                                                      *)

LEMMA PartialFunOf ==
  ASSUME NEW D, NEW R, NEW f \in PartialFun(D, R)
  PROVE  /\ DOMAIN f \subseteq D
         /\ \A x \in DOMAIN f : f[x] \in R
         /\ f \in [DOMAIN f -> R]
  BY DEF PartialFun

LEMMA InPartialFun ==
  ASSUME NEW D, NEW R, NEW S \in SUBSET D, NEW f \in [S -> R]
  PROVE  f \in PartialFun(D, R)
  BY DEF PartialFun

LEMMA DropOf ==
  ASSUME NEW D, NEW R, NEW f \in PartialFun(D, R), NEW n
  PROVE  /\ Drop(f, n) \in PartialFun(D, R)
         /\ DOMAIN Drop(f, n) = DOMAIN f \ {n}
         /\ \A x \in DOMAIN f \ {n} : Drop(f, n)[x] = f[x]
<1>1. DOMAIN f \ {n} \in SUBSET D /\ \A x \in DOMAIN f \ {n} : f[x] \in R
  BY PartialFunOf
<1>2. Drop(f, n) \in [DOMAIN f \ {n} -> R]
  BY <1>1 DEF Drop
<1>3. Drop(f, n) \in PartialFun(D, R)
  BY <1>1, <1>2, InPartialFun
<1> QED
  BY <1>3 DEF Drop

LEMMA SetOf ==
  ASSUME NEW D, NEW R, NEW f \in PartialFun(D, R), NEW n \in D, NEW v \in R
  PROVE  /\ Set(f, n, v) \in PartialFun(D, R)
         /\ DOMAIN Set(f, n, v) = DOMAIN f \cup {n}
         /\ Set(f, n, v)[n] = v
         /\ \A x \in DOMAIN f : x # n => Set(f, n, v)[x] = f[x]
<1>1. DOMAIN f \cup {n} \in SUBSET D /\ \A x \in DOMAIN f : f[x] \in R
  BY PartialFunOf
<1>2. Set(f, n, v) \in [DOMAIN f \cup {n} -> R]
  BY <1>1 DEF Set
<1>3. Set(f, n, v) \in PartialFun(D, R)
  BY <1>1, <1>2, InPartialFun
<1> QED
  BY <1>3 DEF Set

LEMMA NothingOf ==
  ASSUME NEW D, NEW R
  PROVE  Nothing \in PartialFun(D, R) /\ DOMAIN Nothing = {}
<1>1. Nothing \in [{} -> R] /\ {} \in SUBSET D
  BY DEF Nothing
<1> QED
  BY <1>1, InPartialFun

-----------------------------------------------------------------------------
(* The newest updated_at exists.                                           *)

LEMMA NatMinimum ==
  ASSUME NEW S \in SUBSET Nat, S # {}
  PROVE  \E n \in S : \A m \in S : n <= m
<1>1. IsWellFoundedOn(OpToRel(<, Nat), Nat)
  BY NatLessThanWellFounded
<1>2. PICK x \in S : \A y \in S : ~ (<<y, x>> \in OpToRel(<, Nat))
  BY <1>1, WFMin, Zenon
<1>3. \A y \in S : ~ (y < x)
  BY <1>2 DEF OpToRel
<1> QED
  BY <1>3

LEMMA Maximum ==
  ASSUME NEW N \in Nat, NEW S \in SUBSET (0..N), S # {}
  PROVE  \E n \in S : \A m \in S : m <= n
<1> DEFINE T == {N - s : s \in S}
<1>1. T \in SUBSET Nat
  <2>1. \A s \in S : s \in 0..N
    OBVIOUS
  <2>2. \A s \in S : N - s \in Nat
    BY <2>1
  <2> QED
    BY <2>2
<1>1b. T # {}
  <2>1. PICK s : s \in S
    OBVIOUS
  <2>2. N - s \in T
    BY <2>1
  <2> QED
    BY <2>2
<1>2. PICK t \in T : \A u \in T : t <= u
  <2> HIDE DEF T
  <2> QED
    BY <1>1, <1>1b, NatMinimum
<1>3. PICK n \in S : t = N - n
  BY <1>2
<1>4. ASSUME NEW m \in S PROVE m <= n
  <2>1. N - n <= N - m
    BY <1>2, <1>3
  <2> QED
    BY <2>1
<1> QED
  BY <1>4

Row == [cfg : Configs, updatedAt : 0..MaxEdits, by : {"api", "import"}]

LEMMA MaxUpdatedAtOf ==
  ASSUME rows \in PartialFun(Names, Row)
  PROVE  MaxUpdatedAt \in 0..MaxEdits
<1> DEFINE stamps == {0} \cup {rows[n].updatedAt : n \in DOMAIN rows}
<1>0. MaxEdits \in Nat
  BY HotReloadAssumption
<1>1. \A n \in DOMAIN rows : rows[n] \in Row
  BY PartialFunOf
<1>2. stamps \in SUBSET (0..MaxEdits) /\ stamps # {}
  BY <1>0, <1>1 DEF Row
<1>3. MaxUpdatedAt = CHOOSE t \in stamps : \A u \in stamps : u <= t
  BY DEF MaxUpdatedAt
<1> HIDE DEF stamps
<1>4. \E t \in stamps : \A u \in stamps : u <= t
  BY <1>0, <1>2, Maximum
<1>5. MaxUpdatedAt \in stamps
  BY <1>3, <1>4
<1> QED
  BY <1>2, <1>5

LEMMA DropRow ==
  ASSUME NEW f \in PartialFun(Names, Row), RowsValid(f), NEW n
  PROVE  Drop(f, n) \in PartialFun(Names, Row) /\ RowsValid(Drop(f, n))
<1> PICK g : g = Drop(f, n)
  OBVIOUS
<1>1. /\ g \in PartialFun(Names, Row)
      /\ DOMAIN g = DOMAIN f \ {n}
      /\ \A x \in DOMAIN f \ {n} : g[x] = f[x]
  BY DropOf
<1>2. \A x \in DOMAIN g : x \in DOMAIN f /\ g[x] = f[x]
  BY <1>1
<1>3. RowsValid(g)
  BY <1>2 DEF RowsValid
<1> QED
  BY <1>1, <1>3

LEMMA SetRow ==
  ASSUME NEW f \in PartialFun(Names, Row), RowsValid(f), NEW n \in Names,
         NEW v \in Row
  PROVE  /\ Set(f, n, v) \in PartialFun(Names, Row)
         /\ v.by = "api" => RowsValid(Set(f, n, v))
<1> PICK g : g = Set(f, n, v)
  OBVIOUS
<1>0. Set(f, n, v) \in PartialFun(Names, Row)
  BY SetOf
<1>1. /\ g \in PartialFun(Names, Row)
      /\ DOMAIN g = DOMAIN f \cup {n}
      /\ g[n] = v
      /\ \A x \in DOMAIN f : x # n => g[x] = f[x]
  BY <1>0 DEF Set
<1>2. \A x \in DOMAIN g : g[x] = v \/ (x \in DOMAIN f /\ g[x] = f[x])
  BY <1>1
<1>3. v.by = "api" => RowsValid(g)
  BY <1>2 DEF RowsValid
<1> QED
  BY <1>1, <1>3

LEMMA SetSource ==
  ASSUME NEW f \in PartialFun(Names, Configs), FileValid(f), NEW n \in Names,
         NEW v \in Configs, ValidateConfig(v)
  PROVE  Set(f, n, v) \in PartialFun(Names, Configs) /\ FileValid(Set(f, n, v))
<1> PICK g : g = Set(f, n, v)
  OBVIOUS
<1>1. /\ g \in PartialFun(Names, Configs)
      /\ DOMAIN g = DOMAIN f \cup {n}
      /\ g[n] = v
      /\ \A x \in DOMAIN f : x # n => g[x] = f[x]
  BY SetOf
<1>2. \A x \in DOMAIN g : g[x] = v \/ (x \in DOMAIN f /\ g[x] = f[x])
  BY <1>1
<1>3. FileValid(g)
  BY <1>2 DEF FileValid
<1> QED
  BY <1>1, <1>3

-----------------------------------------------------------------------------
(* Types, in three groups.                                                 *)

DbTypes ==
    /\ rows \in PartialFun(Names, Row)
    /\ edits \in 0..MaxEdits
    /\ outputRow \in BOOLEAN
    /\ importer \in {"none", "next", "create", "update", "failed", "ended"}
    /\ file \in PartialFun(Names, Configs)
    /\ importAt \in 0..MaxEdits
    /\ staged \in PartialFun(Names, Configs)

WatcherTypes ==
    /\ watermark \in Unset..MaxEdits
    /\ watcher \in {"init", "idle", "load", "reconcile", "apply", "start", "stopped"}
    /\ target \in PartialFun(Names, Configs)
    /\ current \in PartialFun(Names, Configs)
    /\ left \subseteq Names
    /\ ctxDone \in BOOLEAN
    /\ stopper \in {"idle", "stopping", "stopped"}
    /\ missed \in BOOLEAN

ManagerTypes ==
    /\ sources \in PartialFun(Names, Configs)
    /\ DOMAIN tailers = DOMAIN sources
    /\ inst \in Seq(Instance)
    /\ \A n \in DOMAIN tailers : tailers[n] \in 1..Len(inst) /\ inst[tailers[n]].name = n
    /\ stopping \subseteq 1..Len(inst)

LEMMA TypesSplit == TypeOK <=> DbTypes /\ WatcherTypes /\ ManagerTypes
  BY DEF TypeOK, DbTypes, WatcherTypes, ManagerTypes, Row

LEMMA TypesSplitPrime == TypeOK' <=> DbTypes' /\ WatcherTypes' /\ ManagerTypes'
  BY DEF TypeOK, DbTypes, WatcherTypes, ManagerTypes, Row

\* The steps of the table: of the API and of an import.
LEMMA DbFrame ==
  ASSUME [Next]_vars
  PROVE  UNCHANGED dbVars \/ API \/ Import
  BY DEF Next, Watcher, InitWatermarks, InitFails, FirstPoll, Poll, LoadFromStore, LoadFails,
         WatcherStops, Reconcile, AddStart, ReconcileDone, RemoveGone, KeepSame, RemoveChanged,
         AddCreate, AddFails, Signal, StopAll, StopEach, Exits, TailerExits, vars

LEMMA DbTypesKeep ==
  ASSUME DbTypes, Validated, [Next]_vars
  PROVE  DbTypes' /\ Validated'
<1>0. MaxEdits \in Nat /\ Files \subseteq PartialFun(Names, Configs)
  BY HotReloadAssumption
<1>a. /\ \A n \in DOMAIN rows : rows[n] \in Row
      /\ DOMAIN rows \subseteq Names
  BY PartialFunOf DEF DbTypes
<1>1. CASE UNCHANGED dbVars
  BY <1>1 DEF dbVars, importVars, DbTypes, Validated, Pending
<1>2. CASE API
  <2>1. PICK new : Edited(new)
    BY <1>2 DEF API, handleDeleteSource, handleCreateSource, handleUpdateSource
  <2>2. UNCHANGED importVars /\ edits' = edits + 1 /\ edits < MaxEdits
    BY <2>1 DEF Edited, Clock
  <2>3. edits' \in 0..MaxEdits
    BY <1>0, <2>2 DEF DbTypes
  <2>4. ASSUME NEW c \in Configs PROVE ByAPI(c) \in Row /\ ByAPI(c).by = "api"
    BY <2>2, <2>3 DEF ByAPI, Row
  <2>5. rows' \in PartialFun(Names, Row) /\ RowsValid(rows')
    <3>0. rows \in PartialFun(Names, Row) /\ RowsValid(rows)
      BY DEF DbTypes, Validated
    <3>1. ASSUME NEW n \in Names, handleDeleteSource(n)
          PROVE  rows' \in PartialFun(Names, Row) /\ RowsValid(rows')
      <4>1. rows' = Drop(rows, n)
        BY <3>1 DEF handleDeleteSource, Edited
      <4> QED
        BY <3>0, <4>1, DropRow
    <3>2. ASSUME NEW n \in Names, NEW c \in Configs, handleCreateSource(n, c)
          PROVE  rows' \in PartialFun(Names, Row) /\ RowsValid(rows')
      <4>1. rows' = Set(rows, n, ByAPI(c))
        BY <3>2 DEF handleCreateSource, Edited
      <4> QED
        BY <2>4, <3>0, <4>1, SetRow
    <3>3. ASSUME NEW n \in Names, NEW to \in Names, NEW c \in Configs,
                 handleUpdateSource(n, to, c)
          PROVE  rows' \in PartialFun(Names, Row) /\ RowsValid(rows')
      <4>1. rows' = Set(Drop(rows, n), to, ByAPI(c))
        BY <3>3 DEF handleUpdateSource, Edited
      <4>2. Drop(rows, n) \in PartialFun(Names, Row) /\ RowsValid(Drop(rows, n))
        BY <3>0, DropRow
      <4> QED
        BY <2>4, <4>1, <4>2, SetRow
    <3> QED
      BY <1>2, <3>1, <3>2, <3>3 DEF API
  <2> QED
    BY <2>2, <2>3, <2>5 DEF DbTypes, Validated, importVars, Pending
<1>3. ASSUME NEW f \in Files, ImportBegins(f)
      PROVE  DbTypes' /\ Validated'
  <2>1. /\ UNCHANGED <<rows, outputRow, staged>> /\ file' = f /\ importer' = "next"
        /\ edits' = edits + 1 /\ edits < MaxEdits /\ importAt' = edits + 1
        /\ FileValid(f)
    BY <1>3 DEF ImportBegins, Importing, Clock, FileValid
  <2>2. edits' \in 0..MaxEdits /\ importAt' \in 0..MaxEdits
    BY <1>0, <2>1 DEF DbTypes
  <2> QED
    BY <1>0, <2>1, <2>2 DEF DbTypes, Validated
<1>4. CASE UpsertLooks
  <2>1. /\ UNCHANGED <<rows, edits, outputRow, file, importAt, staged>> /\ Pending # {}
        /\ importer' \in {"update", "create"}
    BY <1>4 DEF UpsertLooks, Importing
  <2> QED
    BY <2>1 DEF DbTypes, Validated, Pending
<1>5. CASE UpsertWrites("create") \/ UpsertWrites("update")
  <2>1. /\ UNCHANGED <<rows, edits, outputRow, file, importAt>>
        /\ importer \in {"create", "update"} /\ importer' \in {"next", "failed"}
        /\ staged' = Set(staged, NextImported, file[NextImported]) \/ staged' = staged
    BY <1>5 DEF UpsertWrites, Importing
  <2>2. Pending # {}
    BY <2>1 DEF Validated
  <2>3. NextImported \in Pending
    BY <2>2 DEF NextImported
  <2>4. PICK n : n = NextImported
    OBVIOUS
  <2>5. n \in DOMAIN file /\ n \in Names /\ file[n] \in Configs /\ ValidateConfig(file[n])
    BY <2>3, <2>4, PartialFunOf DEF Pending, DbTypes, Validated, FileValid
  <2>6. staged \in PartialFun(Names, Configs) /\ FileValid(staged)
    BY DEF DbTypes, Validated
  <2>7. staged' \in PartialFun(Names, Configs) /\ FileValid(staged')
    <3>1. CASE staged' = staged
      BY <2>6, <3>1
    <3>2. CASE staged' = Set(staged, n, file[n])
      BY <2>5, <2>6, <3>2, SetSource
    <3> QED
      BY <2>1, <2>4, <3>1, <3>2
  <2> QED
    BY <2>1, <2>7 DEF DbTypes, Validated
<1>6. CASE UpsertOutputFails
  BY <1>6 DEF UpsertOutputFails, Importing, DbTypes, Validated
<1>7. CASE ImportCommits
  <2>1. /\ UNCHANGED <<edits, file, importAt>> /\ importer' = "ended"
        /\ outputRow' = TRUE /\ staged' = Nothing
        /\ rows' = [n \in DOMAIN rows \cup DOMAIN staged |->
                       IF n \in DOMAIN staged
                       THEN [cfg |-> staged[n], updatedAt |-> importAt, by |-> "import"] ELSE rows[n]]
    BY <1>7 DEF ImportCommits, Importing
  <2>2. staged' \in PartialFun(Names, Configs) /\ FileValid(staged')
    BY <2>1, NothingOf DEF FileValid
  <2>3. \A n \in DOMAIN staged :
           /\ [cfg |-> staged[n], updatedAt |-> importAt, by |-> "import"] \in Row
           /\ n \in Names /\ ValidateConfig(staged[n])
    BY PartialFunOf DEF DbTypes, Row, Validated, FileValid
  <2>4. rows' \in [DOMAIN rows \cup DOMAIN staged -> Row]
    BY <1>a, <2>1, <2>3
  <2>5. DOMAIN rows \cup DOMAIN staged \in SUBSET Names
    BY <1>a, <2>3
  <2>6. rows' \in PartialFun(Names, Row)
    BY <2>4, <2>5, InPartialFun
  <2>7. RowsValid(rows')
    <3> SUFFICES ASSUME NEW n \in DOMAIN rows', rows'[n].by = "import"
                 PROVE  ValidateConfig(rows'[n].cfg)
      BY DEF RowsValid
    <3>1. CASE n \in DOMAIN staged
      <4>1. rows'[n] = [cfg |-> staged[n], updatedAt |-> importAt, by |-> "import"]
        BY <2>1, <3>1
      <4>2. rows'[n].cfg = staged[n]
        BY <4>1
      <4> QED
        BY <2>3, <3>1, <4>2
    <3>2. CASE n \notin DOMAIN staged
      <4>1. rows'[n] = rows[n] /\ n \in DOMAIN rows
        BY <2>1, <3>2
      <4> QED
        BY <4>1 DEF Validated, RowsValid
    <3> QED
      BY <3>1, <3>2
  <2> QED
    BY <2>1, <2>2, <2>6, <2>7 DEF DbTypes, Validated
<1>8. CASE ImportRollsBack
  <2>1. UNCHANGED <<rows, edits, outputRow, file, importAt>> /\ importer' = "ended" /\ staged' = Nothing
    BY <1>8 DEF ImportRollsBack, Importing
  <2>2. staged' \in PartialFun(Names, Configs) /\ FileValid(staged')
    BY <2>1, NothingOf DEF FileValid
  <2> QED
    BY <2>1, <2>2 DEF DbTypes, Validated
<1> QED
  BY <1>1, <1>2, <1>3, <1>4, <1>5, <1>6, <1>7, <1>8, DbFrame DEF Import

\* The steps that write each variable of the watcher.
LEMMA WatcherFrame ==
  ASSUME [Next]_vars
  PROVE  /\ watermark' = watermark \/ watermark' = MaxUpdatedAt
         /\ \/ watcher' = watcher
            \/ watcher' \in {"idle", "load", "reconcile", "apply", "start", "stopped"}
         /\ target' = target \/ target' = [n \in DOMAIN rows |-> rows[n].cfg]
         /\ current' = current \/ current' = sources \/ \E n : current' = Drop(current, n)
         /\ left' \subseteq left \/ left' = DOMAIN sources \cup DOMAIN target
         /\ ctxDone' = ctxDone \/ ctxDone' = TRUE
         /\ stopper' = stopper \/ stopper' \in {"stopping", "stopped"}
  BY DEF Next, API, handleDeleteSource, handleCreateSource, handleUpdateSource, Edited,
         Import, Importing, ImportBegins, UpsertLooks, UpsertWrites, UpsertOutputFails,
         ImportCommits, ImportRollsBack,
         Watcher, InitWatermarks, InitFails, FirstPoll, Poll, LoadFromStore, LoadFails,
         WatcherStops, Reconcile, AddStart, ReconcileDone, RemoveGone, KeepSame, RemoveChanged,
         AddCreate, AddFails, Signal, StopAll, StopEach, Exits, TailerExits, vars,
         planVars, mgrVars, stopVars

LEMMA MissedFrame ==
  ASSUME [Next]_vars, missed \in BOOLEAN
  PROVE  missed' \in BOOLEAN
  BY DEF Next, API, handleDeleteSource, handleCreateSource, handleUpdateSource,
         Import, ImportBegins, UpsertLooks, UpsertWrites, UpsertOutputFails,
         ImportCommits, ImportRollsBack,
         Watcher, InitWatermarks, InitFails, FirstPoll, Poll, LoadFromStore, LoadFails,
         WatcherStops, Reconcile, AddStart, ReconcileDone, RemoveGone, KeepSame, RemoveChanged,
         AddCreate, AddFails, Signal, StopAll, StopEach, Exits, TailerExits, vars

LEMMA WatcherTypesKeep ==
  ASSUME DbTypes, WatcherTypes, sources \in PartialFun(Names, Configs), [Next]_vars
  PROVE  WatcherTypes'
<1>1. watermark' \in Unset..MaxEdits
  <2>1. rows \in PartialFun(Names, Row) /\ watermark \in Unset..MaxEdits
    BY DEF DbTypes, WatcherTypes
  <2>2. MaxUpdatedAt \in 0..MaxEdits
    BY <2>1, MaxUpdatedAtOf
  <2>3. MaxUpdatedAt \in Unset..MaxEdits
    BY <2>2, HotReloadAssumption DEF Unset
  <2> QED
    BY <2>1, <2>3, WatcherFrame
<1>2. target' \in PartialFun(Names, Configs)
  <2>1. DOMAIN rows \subseteq Names /\ \A n \in DOMAIN rows : rows[n] \in Row
    BY PartialFunOf DEF DbTypes
  <2>2. \A n \in DOMAIN rows : rows[n].cfg \in Configs
    BY <2>1 DEF Row
  <2>3. [n \in DOMAIN rows |-> rows[n].cfg] \in [DOMAIN rows -> Configs]
    BY <2>2
  <2>4. [n \in DOMAIN rows |-> rows[n].cfg] \in PartialFun(Names, Configs)
    BY <2>1, <2>3, InPartialFun
  <2> QED
    BY <2>4, WatcherFrame DEF WatcherTypes
<1>3. current' \in PartialFun(Names, Configs)
  <2>1. current \in PartialFun(Names, Configs)
    BY DEF WatcherTypes
  <2>2. \A n : Drop(current, n) \in PartialFun(Names, Configs)
    BY <2>1, DropOf
  <2>3. current' = current \/ current' = sources \/ \E n : current' = Drop(current, n)
    BY WatcherFrame
  <2> QED
    BY <2>1, <2>2, <2>3
<1>4. left' \subseteq Names
  <2>1. DOMAIN sources \subseteq Names /\ DOMAIN target \subseteq Names /\ left \subseteq Names
    BY PartialFunOf DEF WatcherTypes
  <2> QED
    BY <2>1, WatcherFrame
<1>5. missed' \in BOOLEAN
  BY MissedFrame DEF WatcherTypes
<1> QED
  BY <1>1, <1>2, <1>3, <1>4, <1>5, WatcherFrame DEF WatcherTypes

-----------------------------------------------------------------------------
(* The instances: what Stop, Start and the end of a tailer write.          *)

LEMMA InstanceOf ==
  ASSUME NEW s \in Seq(Instance), NEW i \in 1..Len(s)
  PROVE  s[i] \in Instance
  OBVIOUS

LEMMA CancelOf ==
  ASSUME inst \in Seq(Instance), NEW is
  PROVE  /\ Cancel(is) \in Seq(Instance)
         /\ Len(Cancel(is)) = Len(inst)
         /\ \A i \in 1..Len(inst) :
               /\ Cancel(is)[i].name = inst[i].name
               /\ Cancel(is)[i].state = inst[i].state
               /\ ~Cancel(is)[i].cancelled =>
                     ~inst[i].cancelled /\ (i \notin is \/ inst[i].state = "created")
<1>0. DOMAIN inst = 1..Len(inst) /\ Len(inst) \in Nat
  OBVIOUS
<1>1. ASSUME NEW i \in 1..Len(inst)
      PROVE  /\ Cancel(is)[i] \in Instance
             /\ Cancel(is)[i].name = inst[i].name
             /\ Cancel(is)[i].state = inst[i].state
             /\ ~Cancel(is)[i].cancelled =>
                   ~inst[i].cancelled /\ (i \notin is \/ inst[i].state = "created")
  <2>1. inst[i] \in Instance
    BY InstanceOf
  <2>2. CASE i \in is /\ inst[i].state # "created"
    <3>1. Cancel(is)[i] = [inst[i] EXCEPT !.cancelled = TRUE]
      BY <1>0, <2>2 DEF Cancel
    <3> QED
      BY <2>1, <3>1 DEF Instance
  <2>3. CASE ~(i \in is /\ inst[i].state # "created")
    <3>1. Cancel(is)[i] = inst[i]
      BY <1>0, <2>3 DEF Cancel
    <3> QED
      BY <2>1, <2>3, <3>1
  <2> QED
    BY <2>2, <2>3
<1>2. Cancel(is) = [i \in 1..Len(inst) |-> Cancel(is)[i]]
  BY <1>0 DEF Cancel
<1>3. Cancel(is) \in [1..Len(inst) -> Instance]
  BY <1>1, <1>2
<1> QED
  BY <1>0, <1>1, <1>3

LEMMA StateOf ==
  ASSUME inst \in Seq(Instance), NEW k \in 1..Len(inst),
         NEW st \in {"running", "exited"},
         NEW new, new = [inst EXCEPT ![k].state = st]
  PROVE  /\ new \in Seq(Instance)
         /\ Len(new) = Len(inst)
         /\ \A i \in 1..Len(inst) :
               /\ new[i].name = inst[i].name
               /\ new[i].cancelled = inst[i].cancelled
               /\ new[i].state = IF i = k THEN st ELSE inst[i].state
<1>0. DOMAIN inst = 1..Len(inst) /\ Len(inst) \in Nat
  OBVIOUS
<1>1. inst[k] \in Instance
  BY InstanceOf
<1>2. PICK r : r = [inst[k] EXCEPT !.state = st]
  OBVIOUS
<1>3. r \in Instance /\ r.name = inst[k].name /\ r.cancelled = inst[k].cancelled /\ r.state = st
  BY <1>1, <1>2 DEF Instance
<1>4. new = [inst EXCEPT ![k] = r]
  BY <1>2
<1>5. /\ new \in Seq(Instance)
      /\ Len(new) = Len(inst)
      /\ \A i \in 1..Len(inst) : new[i] = IF i = k THEN r ELSE inst[i]
  BY <1>0, <1>3, <1>4
<1> QED
  BY <1>3, <1>5

-----------------------------------------------------------------------------
(* The steps of the manager; all the others leave its maps and its tailers *)
(* alone, and at most shorten the list of names that Reconcile will add.   *)

Quiet ==
    /\ UNCHANGED <<mgrVars, stopping>>
    /\ watcher' = "start" <=> watcher = "start"
    /\ stopper' = stopper
    /\ ~ctxDone' => ~ctxDone
    /\ watcher' \in {"apply", "start"} =>
          \/ left' \ DOMAIN current' \subseteq DOMAIN target \ DOMAIN sources
          \/ /\ watcher \in {"apply", "start"}
             /\ left' \ DOMAIN current' \subseteq left \ DOMAIN current

Removal(n) ==
    /\ watcher = "apply" /\ watcher' = "apply"
    /\ UNCHANGED stopVars
    /\ Remove(n)
    /\ left' \ DOMAIN current' \subseteq (left \ DOMAIN current) \cup {n}

LEMMA ManagerFrame ==
  ASSUME [Next]_vars
  PROVE  \/ Quiet
         \/ \E n : Removal(n)
         \/ \E n \in Names : AddCreate(n)
         \/ AddStart \/ StopAll \/ StopEach
         \/ \E i \in 1..Len(inst) : TailerExits(i)
<1>1. CASE API \/ Import
  BY <1>1 DEF API, handleDeleteSource, handleCreateSource, handleUpdateSource, Edited,
         Import, Importing, ImportBegins, UpsertLooks, UpsertWrites, UpsertOutputFails,
         ImportCommits, ImportRollsBack, Quiet, planVars, mgrVars, stopVars
<1>2. CASE InitWatermarks \/ InitFails \/ FirstPoll \/ Poll \/ LoadFromStore \/ WatcherStops
           \/ LoadFails \/ ReconcileDone
  BY <1>2 DEF InitWatermarks, InitFails, FirstPoll, Poll, LoadFromStore, WatcherStops,
         LoadFails, ReconcileDone, Quiet, planVars, mgrVars, stopVars
<1>3. CASE Reconcile
  BY <1>3 DEF Reconcile, Quiet, mgrVars, stopVars
<1>4. ASSUME NEW n \in Names, KeepSame(n) \/ AddFails(n)
      PROVE  Quiet
  BY <1>4 DEF KeepSame, AddFails, Quiet, mgrVars, stopVars
<1>5. ASSUME NEW n \in Names, RemoveGone(n) PROVE Removal(n)
  BY <1>5 DEF RemoveGone, Removal
<1>6. ASSUME NEW n \in Names, RemoveChanged(n) PROVE Removal(n)
  <2>1. /\ watcher = "apply" /\ watcher' = watcher /\ left' = left /\ UNCHANGED stopVars
        /\ Remove(n) /\ current' = Drop(current, n)
    BY <1>6 DEF RemoveChanged
  <2>2. DOMAIN current' = DOMAIN current \ {n}
    BY <2>1 DEF Drop
  <2> QED
    BY <2>1, <2>2 DEF Removal
<1>7. CASE Signal
  BY <1>7 DEF Signal, Quiet, planVars, mgrVars
<1>8. CASE UNCHANGED vars
  BY <1>8 DEF vars, Quiet, planVars, mgrVars, stopVars
<1> QED
  BY <1>1, <1>2, <1>3, <1>4, <1>5, <1>6, <1>7, <1>8 DEF Next, Watcher, Exits

-----------------------------------------------------------------------------
(* The manager's part of the invariant, step by step.                      *)

Managing == ManagerTypes /\ StartsLast /\ AddsAbsent /\ StopsLate /\ OneManagedTailer

LEMMA QuietKeeps ==
  ASSUME Managing, Quiet
  PROVE  Managing'
<1>1. /\ tailers' = tailers /\ sources' = sources /\ inst' = inst /\ stopping' = stopping
      /\ watcher' = "start" <=> watcher = "start"
      /\ stopper' = stopper /\ (~ctxDone' => ~ctxDone)
  BY DEF Quiet, mgrVars
<1>2. ManagerTypes' /\ StartsLast' /\ StopsLate' /\ OneManagedTailer'
  BY <1>1 DEF Managing, ManagerTypes, StartsLast, StopsLate, OneManagedTailer
<1>3. AddsAbsent'
  BY <1>1 DEF Managing, Quiet, AddsAbsent, ManagerTypes
<1> QED
  BY <1>2, <1>3 DEF Managing

LEMMA RemovalKeeps ==
  ASSUME Managing, NEW n, Removal(n)
  PROVE  Managing'
<1>1. /\ watcher = "apply" /\ watcher' = "apply"
      /\ ctxDone' = ctxDone /\ stopper' = stopper /\ stopping' = stopping
      /\ tailers' = Drop(tailers, n) /\ sources' = Drop(sources, n)
      /\ n \in DOMAIN tailers => inst' = Cancel({tailers[n]})
      /\ n \notin DOMAIN tailers => inst' = inst
  BY DEF Removal, Remove, stopVars
<1>2. /\ inst \in Seq(Instance) /\ sources \in PartialFun(Names, Configs)
      /\ DOMAIN tailers = DOMAIN sources
      /\ \A m \in DOMAIN tailers : tailers[m] \in 1..Len(inst) /\ inst[tailers[m]].name = m
      /\ stopping \subseteq 1..Len(inst)
  BY DEF Managing, ManagerTypes
<1>3. /\ DOMAIN tailers' = DOMAIN tailers \ {n}
      /\ \A m \in DOMAIN tailers \ {n} : tailers'[m] = tailers[m]
  BY <1>1 DEF Drop
<1>4. sources' \in PartialFun(Names, Configs) /\ DOMAIN sources' = DOMAIN sources \ {n}
  <2>1. sources' = Drop(sources, n)
    BY <1>1
  <2>2. Drop(sources, n) \in PartialFun(Names, Configs)
    BY <1>2, DropOf
  <2> QED
    BY <2>1, <2>2 DEF Drop
<1>5. \A i \in 1..Len(inst) : inst[i].state # "created"
  BY <1>1 DEF Managing, StartsLast
<1>6. /\ inst' \in Seq(Instance)
      /\ Len(inst') = Len(inst)
      /\ \A i \in 1..Len(inst) :
            /\ inst'[i].name = inst[i].name
            /\ inst'[i].state = inst[i].state
            /\ ~inst'[i].cancelled =>
                  ~inst[i].cancelled /\ ~(n \in DOMAIN tailers /\ i = tailers[n])
  <2>1. CASE n \in DOMAIN tailers
    <3>1. inst' = Cancel({tailers[n]})
      BY <1>1, <2>1
    <3> QED
      BY <1>2, <1>5, <3>1, CancelOf
  <2>2. CASE n \notin DOMAIN tailers
    BY <1>1, <1>2, <2>2
  <2> QED
    BY <2>1, <2>2
<1>7. ManagerTypes'
  <2>1. \A m \in DOMAIN tailers' : tailers'[m] \in 1..Len(inst') /\ inst'[tailers'[m]].name = m
    BY <1>2, <1>3, <1>6
  <2> QED
    BY <1>1, <1>2, <1>3, <1>4, <1>6, <2>1 DEF ManagerTypes
<1>8. StartsLast'
  BY <1>1, <1>5, <1>6 DEF StartsLast
<1>9. AddsAbsent'
  <2>1. left' \ DOMAIN current' \subseteq (left \ DOMAIN current) \cup {n}
    BY DEF Removal
  <2> QED
    BY <1>1, <1>3, <2>1 DEF AddsAbsent, Managing
<1>10. StopsLate'
  BY <1>1 DEF Managing, StopsLate
<1>11. OneManagedTailer'
  <2> SUFFICES ASSUME NEW i \in 1..Len(inst), inst'[i].state = "running",
                      ~inst'[i].cancelled, ~ctxDone
               PROVE  inst'[i].name \in DOMAIN tailers' /\ tailers'[inst'[i].name] = i
    BY <1>1, <1>6 DEF OneManagedTailer
  <2>1. inst[i].name \in DOMAIN tailers /\ tailers[inst[i].name] = i
    BY <1>6 DEF Managing, OneManagedTailer
  <2>2. inst[i].name # n
    BY <1>6, <2>1
  <2> QED
    BY <1>3, <1>6, <2>1, <2>2
<1> QED
  BY <1>7, <1>8, <1>9, <1>10, <1>11 DEF Managing

LEMMA AddCreateKeeps ==
  ASSUME Managing, WatcherTypes, NEW n \in Names, AddCreate(n)
  PROVE  Managing'
<1> DEFINE new == [name |-> n, state |-> "created", cancelled |-> FALSE]
<1>1. /\ watcher = "apply" /\ watcher' = "start" /\ Removed
      /\ ctxDone' = ctxDone /\ stopper' = stopper /\ stopping' = stopping
      /\ n \in left \ DOMAIN current /\ left' = left \ {n} /\ current' = current
      /\ inst' = Append(inst, new)
      /\ tailers' = Set(tailers, n, Len(inst) + 1)
      /\ sources' = Set(sources, n, target[n])
  BY DEF AddCreate, stopVars
<1>2. /\ inst \in Seq(Instance) /\ sources \in PartialFun(Names, Configs)
      /\ DOMAIN tailers = DOMAIN sources
      /\ \A m \in DOMAIN tailers : tailers[m] \in 1..Len(inst) /\ inst[tailers[m]].name = m
      /\ stopping \subseteq 1..Len(inst)
  BY DEF Managing, ManagerTypes
<1>3. /\ DOMAIN tailers' = DOMAIN tailers \cup {n}
      /\ tailers'[n] = Len(inst) + 1
      /\ \A m \in DOMAIN tailers : m # n => tailers'[m] = tailers[m]
  BY <1>1 DEF Set
<1>4. target[n] \in Configs
  <2>1. n \in DOMAIN target
    BY <1>1 DEF Removed
  <2> QED
    BY <2>1, PartialFunOf DEF WatcherTypes
<1>5. sources' \in PartialFun(Names, Configs) /\ DOMAIN sources' = DOMAIN sources \cup {n}
  <2>1. sources' = Set(sources, n, target[n])
    BY <1>1
  <2>2. sources \in PartialFun(Names, Configs)
    BY <1>2
  <2>3. Set(sources, n, target[n]) \in PartialFun(Names, Configs)
    BY <1>4, <2>2, SetOf
  <2> QED
    BY <2>1, <2>3 DEF Set
<1>6. new \in Instance /\ new.name = n /\ new.state = "created"
  BY DEF Instance
<1> HIDE DEF new
<1>7. /\ inst' \in Seq(Instance)
      /\ Len(inst) \in Nat
      /\ Len(inst') = Len(inst) + 1
      /\ inst'[Len(inst) + 1] = new
      /\ \A i \in 1..Len(inst) : inst'[i] = inst[i]
  BY <1>1, <1>2, <1>6
<1>8. \A i \in 1..Len(inst) : inst[i].state # "created"
  BY <1>1 DEF Managing, StartsLast
<1>9. \A i \in 1..Len(inst') : i \in 1..Len(inst) \/ i = Len(inst) + 1
  BY <1>7
<1>10. ManagerTypes'
  <2>1. \A m \in DOMAIN tailers' : tailers'[m] \in 1..Len(inst') /\ inst'[tailers'[m]].name = m
    <3> SUFFICES ASSUME NEW m \in DOMAIN tailers'
                 PROVE  tailers'[m] \in 1..Len(inst') /\ inst'[tailers'[m]].name = m
      OBVIOUS
    <3>1. CASE m = n
      BY <1>3, <1>6, <1>7, <3>1
    <3>2. CASE m # n
      <4>1. m \in DOMAIN tailers /\ tailers'[m] = tailers[m]
        BY <1>3, <3>2
      <4>2. PICK k : k = tailers[m]
        OBVIOUS
      <4>3. k \in 1..Len(inst) /\ inst[k].name = m
        BY <1>2, <4>1, <4>2
      <4>4. k \in 1..Len(inst') /\ inst'[k].name = m
        BY <1>7, <4>3
      <4> QED
        BY <4>1, <4>2, <4>4
    <3> QED
      BY <3>1, <3>2
  <2>2. stopping' \subseteq 1..Len(inst')
    BY <1>1, <1>2, <1>7
  <2> QED
    BY <1>2, <1>3, <1>5, <1>7, <2>1, <2>2 DEF ManagerTypes
<1>11. StartsLast'
  BY <1>1, <1>3, <1>6, <1>7, <1>8, <1>9 DEF StartsLast
<1>12. AddsAbsent'
  BY <1>1, <1>3 DEF AddsAbsent, Managing
<1>13. StopsLate'
  BY <1>1 DEF Managing, StopsLate
<1>14. OneManagedTailer'
  <2> SUFFICES ASSUME NEW i \in 1..Len(inst'), inst'[i].state = "running",
                      ~inst'[i].cancelled, ~ctxDone
               PROVE  inst'[i].name \in DOMAIN tailers' /\ tailers'[inst'[i].name] = i
    BY <1>1 DEF OneManagedTailer
  <2>1. i \in 1..Len(inst) /\ inst'[i] = inst[i]
    BY <1>6, <1>7, <1>9
  <2>2. inst[i].name \in DOMAIN tailers /\ tailers[inst[i].name] = i
    BY <2>1 DEF Managing, OneManagedTailer
  <2>3. n \notin DOMAIN tailers
    BY <1>1 DEF AddsAbsent, Managing
  <2> QED
    BY <1>3, <2>1, <2>2, <2>3
<1> QED
  BY <1>10, <1>11, <1>12, <1>13, <1>14 DEF Managing

LEMMA AddStartKeeps ==
  ASSUME Managing, AddStart
  PROVE  Managing'
<1>1. /\ watcher = "start" /\ watcher' = "apply"
      /\ ctxDone' = ctxDone /\ stopper' = stopper /\ stopping' = stopping
      /\ left' = left /\ current' = current /\ tailers' = tailers /\ sources' = sources
      /\ inst' = [inst EXCEPT ![Len(inst)].state = "running"]
  BY DEF AddStart, stopVars, planVars
<1>2. inst \in Seq(Instance) /\ Len(inst) \in 1..Len(inst)
  BY <1>1 DEF Managing, ManagerTypes, StartsLast
<1>3. /\ inst' \in Seq(Instance)
      /\ Len(inst') = Len(inst)
      /\ \A i \in 1..Len(inst) :
            /\ inst'[i].name = inst[i].name
            /\ inst'[i].cancelled = inst[i].cancelled
            /\ inst'[i].state = IF i = Len(inst) THEN "running" ELSE inst[i].state
  BY <1>1, <1>2, StateOf
<1>4. ManagerTypes'
  BY <1>1, <1>3 DEF Managing, ManagerTypes
<1>5. StartsLast'
  BY <1>1, <1>3 DEF Managing, StartsLast
<1>6. AddsAbsent' /\ StopsLate'
  BY <1>1 DEF Managing, AddsAbsent, StopsLate
<1>7. OneManagedTailer'
  <2> SUFFICES ASSUME NEW i \in 1..Len(inst), inst'[i].state = "running",
                      ~inst'[i].cancelled, ~ctxDone
               PROVE  inst'[i].name \in DOMAIN tailers' /\ tailers'[inst'[i].name] = i
    BY <1>1, <1>3 DEF OneManagedTailer
  <2>1. CASE i = Len(inst)
    BY <1>1, <1>3, <2>1 DEF Managing, StartsLast
  <2>2. CASE i # Len(inst)
    BY <1>1, <1>3, <2>2 DEF Managing, OneManagedTailer
  <2> QED
    BY <2>1, <2>2
<1> QED
  BY <1>4, <1>5, <1>6, <1>7 DEF Managing

LEMMA StopAllKeeps ==
  ASSUME Managing, StopAll
  PROVE  Managing'
<1>1. /\ watcher' = watcher /\ ctxDone /\ ctxDone' = ctxDone /\ inst' = inst
      /\ stopping' = {tailers[n] : n \in DOMAIN tailers}
      /\ tailers' = Nothing /\ sources' = Nothing
  BY DEF StopAll, SourcesCleared
<1>2. sources' \in PartialFun(Names, Configs) /\ DOMAIN sources' = {} /\ DOMAIN tailers' = {}
  BY <1>1, NothingOf
<1>3. stopping' \subseteq 1..Len(inst')
  BY <1>1 DEF Managing, ManagerTypes
<1>4. ManagerTypes'
  BY <1>1, <1>2, <1>3 DEF Managing, ManagerTypes
<1> QED
  BY <1>1, <1>4 DEF Managing, StartsLast, AddsAbsent, StopsLate, OneManagedTailer

LEMMA StopEachKeeps ==
  ASSUME Managing, StopEach
  PROVE  Managing'
<1>1. /\ watcher' = watcher /\ stopper = "stopping" /\ ctxDone' = ctxDone
      /\ stopping' = stopping /\ tailers' = tailers /\ sources' = sources
      /\ inst' = Cancel(stopping)
  BY DEF StopEach
<1>2. ctxDone
  BY <1>1 DEF Managing, StopsLate
<1>3. /\ inst' \in Seq(Instance)
      /\ Len(inst') = Len(inst)
      /\ \A i \in 1..Len(inst) : inst'[i].name = inst[i].name /\ inst'[i].state = inst[i].state
  BY <1>1, CancelOf DEF Managing, ManagerTypes
<1>4. ManagerTypes'
  BY <1>1, <1>3 DEF Managing, ManagerTypes
<1>5. StartsLast'
  BY <1>1, <1>2, <1>3 DEF Managing, StartsLast
<1> QED
  BY <1>1, <1>2, <1>4, <1>5 DEF Managing, AddsAbsent, StopsLate, OneManagedTailer

LEMMA ExitKeeps ==
  ASSUME Managing, NEW k \in 1..Len(inst), TailerExits(k)
  PROVE  Managing'
<1>1. /\ watcher' = watcher /\ ctxDone' = ctxDone /\ stopper' = stopper
      /\ stopping' = stopping /\ left' = left /\ current' = current
      /\ tailers' = tailers /\ sources' = sources
      /\ inst' = [inst EXCEPT ![k].state = "exited"]
  BY DEF TailerExits, stopVars, planVars
<1>2. inst \in Seq(Instance)
  BY DEF Managing, ManagerTypes
<1>3. /\ inst' \in Seq(Instance)
      /\ Len(inst') = Len(inst)
      /\ \A i \in 1..Len(inst) :
            /\ inst'[i].name = inst[i].name
            /\ inst'[i].cancelled = inst[i].cancelled
            /\ inst'[i].state = IF i = k THEN "exited" ELSE inst[i].state
  BY <1>1, <1>2, StateOf
<1>4. ManagerTypes'
  BY <1>1, <1>3 DEF Managing, ManagerTypes
<1>5. StartsLast'
  BY <1>1, <1>3 DEF Managing, ManagerTypes, StartsLast
<1>6. AddsAbsent' /\ StopsLate' /\ OneManagedTailer'
  BY <1>1, <1>3 DEF Managing, AddsAbsent, StopsLate, OneManagedTailer
<1> QED
  BY <1>4, <1>5, <1>6 DEF Managing

-----------------------------------------------------------------------------
(* The theorems.                                                           *)

LEMMA InvariantParts == IInv <=> DbTypes /\ Validated /\ WatcherTypes /\ Managing
  BY TypesSplit DEF IInv, Managing

LEMMA InvariantPartsPrime == IInv' <=> DbTypes' /\ Validated' /\ WatcherTypes' /\ Managing'
  BY TypesSplitPrime DEF IInv, Managing

LEMMA InvariantNext ==
  ASSUME IInv, [Next]_vars
  PROVE  IInv'
<1>1. DbTypes /\ Validated /\ WatcherTypes /\ Managing
  BY InvariantParts
<1>2. DbTypes' /\ Validated'
  BY <1>1, DbTypesKeep
<1>3. WatcherTypes'
  BY <1>1, WatcherTypesKeep DEF Managing, ManagerTypes
<1>4. Managing'
  BY <1>1, ManagerFrame, QuietKeeps, RemovalKeeps, AddCreateKeeps, AddStartKeeps, StopAllKeeps,
     StopEachKeeps, ExitKeeps
<1> QED
  BY <1>2, <1>3, <1>4, InvariantPartsPrime

LEMMA InvariantInit ==
  ASSUME Init
  PROVE  IInv
<1> DEFINE N == Cardinality(DOMAIN InitRows)
<1>1. /\ InitRows \in PartialFun(Names, Configs) /\ MaxEdits \in Nat /\ N \in Nat
  BY HotReloadAssumption, FS_CardinalityType
<1>2. DOMAIN InitRows \subseteq Names /\ \A n \in DOMAIN InitRows : InitRows[n] \in Configs
  BY <1>1, PartialFunOf
<1>3. /\ Nothing \in PartialFun(Names, Configs) /\ DOMAIN Nothing = {}
      /\ FileValid(Nothing)
  BY NothingOf DEF FileValid
<1>4. rows \in PartialFun(Names, Row) /\ RowsValid(rows)
  <2>1. rows = [n \in DOMAIN InitRows |-> [cfg |-> InitRows[n], updatedAt |-> 0, by |-> "api"]]
    BY DEF Init
  <2>2. \A n \in DOMAIN InitRows : [cfg |-> InitRows[n], updatedAt |-> 0, by |-> "api"] \in Row
    BY <1>1, <1>2 DEF Row
  <2>3. rows \in [DOMAIN InitRows -> Row]
    BY <2>1, <2>2
  <2>4. RowsValid(rows)
    BY <2>1 DEF RowsValid
  <2> QED
    BY <1>2, <2>3, <2>4, InPartialFun
<1>5. DbTypes /\ Validated
  BY <1>1, <1>3, <1>4 DEF Init, DbTypes, Validated
<1>6. WatcherTypes
  <2>1. /\ watermark = Unset /\ watcher = "init" /\ target = Nothing /\ current = Nothing
        /\ left = {} /\ ctxDone = FALSE /\ stopper = "idle" /\ missed = FALSE
    BY DEF Init
  <2>2. Unset \in Unset..MaxEdits
    BY <1>1 DEF Unset
  <2> QED
    BY <1>3, <2>1, <2>2 DEF WatcherTypes
<1>7. /\ tailers \in [DOMAIN InitRows -> 1..N]
      /\ \A i \in 1..N : \E n \in DOMAIN tailers : \A m \in DOMAIN tailers : tailers[m] = i <=> m = n
  BY DEF Init
<1>8. ASSUME NEW i \in 1..N
      PROVE  /\ (CHOOSE n \in DOMAIN InitRows : tailers[n] = i) \in DOMAIN InitRows
             /\ tailers[CHOOSE n \in DOMAIN InitRows : tailers[n] = i] = i
             /\ \A m \in DOMAIN InitRows :
                   tailers[m] = i => m = (CHOOSE n \in DOMAIN InitRows : tailers[n] = i)
  <2>1. PICK n \in DOMAIN InitRows : \A m \in DOMAIN InitRows : tailers[m] = i <=> m = n
    BY <1>7
  <2> QED
    BY <2>1
<1> DEFINE Name(i) == CHOOSE n \in DOMAIN InitRows : tailers[n] = i
<1>9. /\ inst = [i \in 1..N |-> [name |-> Name(i), state |-> "running", cancelled |-> FALSE]]
      /\ sources = InitRows /\ stopping = {} /\ watcher = "init" /\ stopper = "idle"
  BY DEF Init
<1>10. \A i \in 1..N : /\ Name(i) \in DOMAIN InitRows /\ tailers[Name(i)] = i
                        /\ \A m \in DOMAIN InitRows : tailers[m] = i => m = Name(i)
  BY <1>8
<1> HIDE DEF Name, N
<1>11. \A i \in 1..N : [name |-> Name(i), state |-> "running", cancelled |-> FALSE] \in Instance
  BY <1>2, <1>10 DEF Instance
<1>12. inst \in Seq(Instance) /\ Len(inst) = N
  BY <1>1, <1>9, <1>11
<1>13. \A i \in 1..N : inst[i].name = Name(i) /\ inst[i].state = "running"
  BY <1>9
<1>14. ManagerTypes
  <2>1. DOMAIN tailers = DOMAIN InitRows
    BY <1>7
  <2>2. \A n \in DOMAIN tailers : tailers[n] \in 1..Len(inst) /\ inst[tailers[n]].name = n
    BY <1>7, <1>10, <1>12, <1>13
  <2> QED
    BY <1>1, <1>9, <1>12, <2>1, <2>2 DEF ManagerTypes
<1>15. OneManagedTailer
  BY <1>7, <1>10, <1>12, <1>13 DEF OneManagedTailer
<1>16. StartsLast /\ AddsAbsent /\ StopsLate
  BY <1>9, <1>12, <1>13 DEF StartsLast, AddsAbsent, StopsLate
<1> QED
  BY <1>5, <1>6, <1>14, <1>15, <1>16, InvariantParts DEF Managing

LEMMA Invariant == Spec => []IInv
<1>1. Init => IInv
  BY InvariantInit
<1>2. IInv /\ [Next]_vars => IInv'
  BY InvariantNext
<1> QED
  BY <1>1, <1>2, PTL DEF Spec

\* The variables keep their types; above all, the two maps of the manager always have
\* the same names, and each name leads to a tailer of that name, whatever Add, Remove
\* and StopAll do in between each other's steps.
THEOREM Types == Spec => []TypeOK
<1>1. IInv => TypeOK
  BY DEF IInv
<1> QED
  BY <1>1, Invariant, PTL

\* Until shutdown, a tailer that runs and is not cancelled is the one in the map under
\* its name: of any number of sources, through any number of edits, failed loads and
\* reloads, none is read twice and none is beyond Remove.
THEOREM OneTailer == Spec => []OneManagedTailer
<1>1. IInv => OneManagedTailer
  BY DEF IInv
<1> QED
  BY <1>1, Invariant, PTL

LEMMA ValidCreatable ==
  ASSUME NEW c \in Source, ValidateConfig(c)
  PROVE  createTailer(c) \/ "bad" \in {c.container, c.unit, c.pod, c.namespace}
<1> SUFFICES ASSUME "bad" \notin {c.container, c.unit, c.pod, c.namespace}
             PROVE  createTailer(c)
  OBVIOUS
<1>1. /\ c.container \in {"", "good"} /\ c.unit \in {"", "good"} /\ c.pod \in {"", "good"}
      /\ c.namespace \in {"", "good"}
  BY DEF Source
<1>2. /\ c.type \in {"file", "docker", "journalctl", "stdin", "kubernetes"}
      /\ c.type = "docker" => c.container # ""
      /\ c.type = "journalctl" => c.unit # ""
      /\ c.type = "kubernetes" => (c.pod = "") # (c.labelSelector = "")
      /\ c.type = "kubernetes" => c.labelSelector \in {"", "good"}
  BY DEF ValidateConfig, TargetGiven, SourceTypes
<1>3. CASE c.type \in {"file", "stdin"}
  BY <1>3 DEF createTailer
<1>4. CASE c.type = "docker"
  BY <1>1, <1>2, <1>4 DEF createTailer, NewDockerTailer, ValidateExternalName
<1>5. CASE c.type = "journalctl"
  BY <1>1, <1>2, <1>5 DEF createTailer, NewJournalctlTailer, ValidateExternalName
<1>6. CASE c.type = "kubernetes"
  <2>1. NewKubernetesTailer(c)
    BY <1>1, <1>2, <1>6 DEF NewKubernetesTailer, ValidateExternalName
  <2> QED
    BY <1>6, <2>1 DEF createTailer
<1> QED
  BY <1>2, <1>3, <1>4, <1>5, <1>6

\* A source that an import committed is one that createTailer accepts, or one of its
\* names is improper: what ValidateConfig asks of the file is what each tailer asks for,
\* and the transaction writes nothing that was not in the file, whoever edits the table
\* while it is open.
THEOREM Importable == Spec => []ImportedCreatable
<1>1. IInv => ImportedCreatable
  <2> SUFFICES ASSUME IInv, NEW n \in DOMAIN rows, rows[n].by = "import"
               PROVE  LET c == rows[n].cfg
                      IN  createTailer(c) \/ "bad" \in {c.container, c.unit, c.pod, c.namespace}
    BY DEF ImportedCreatable
  <2>1. rows[n] \in Row
    BY InvariantParts, PartialFunOf DEF DbTypes
  <2>2. rows[n].cfg \in Source
    BY <2>1, HotReloadAssumption DEF Row
  <2>3. ValidateConfig(rows[n].cfg)
    BY DEF IInv, Validated, RowsValid
  <2> QED
    BY <2>2, <2>3, ValidCreatable
<1> QED
  BY <1>1, Invariant, PTL

=============================================================================
