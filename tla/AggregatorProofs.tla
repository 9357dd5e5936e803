-------------------------- MODULE AggregatorProofs --------------------------
(***************************************************************************)
(* The safety properties of Aggregator, proved for every set of lines and  *)
(* keys, every window and every capacity of the output channel.            *)
(***************************************************************************)
EXTENDS Aggregator, TLAPS

-----------------------------------------------------------------------------
(* The inductive invariant.                                                *)

\* What an emitted line stands for: equal lines of one window.
OneWindow(e) ==
    /\ e.lines # {}
    /\ e.firstSeen <= e.lastSeen
    /\ e.lastSeen <= e.firstSeen + Window
    /\ \A l, m \in e.lines : KeyOf[l] = KeyOf[m]

\* The entry in the map under key k counts lines of that key only, so the
\* entries of two keys share no line; no entry is of the future.
EntriesByKey ==
    \A k \in DOMAIN entries :
        /\ OneWindow(entries[k])
        /\ \A l \in entries[k].lines : KeyOf[l] = k
        /\ entries[k].lastSeen <= now

\* The flusher holds a batch only between collecting and sending it.
BatchInHand == flusher # "send" => hand = {}

IInv ==
    /\ TypeOK
    /\ EntriesByKey
    /\ BatchInHand
    /\ NoLineLost
    /\ NoLineTwice
    /\ GroupIsOneWindow

-----------------------------------------------------------------------------
(* Lemmas about the operators.                                             *)

LEMMA LinesInMember ==
  ASSUME NEW batch, NEW l
  PROVE  l \in LinesIn(batch) <=> \E e \in batch : l \in e.lines
  BY DEF LinesIn

LEMMA LinesInEmpty == LinesIn({}) = {}
  BY DEF LinesIn

LEMMA StoredMember ==
  ASSUME NEW l
  PROVE  l \in LinesIn(Stored) <=> \E k \in DOMAIN entries : l \in entries[k].lines
  BY LinesInMember DEF Stored

LEMMA StoredMemberPrime ==
  ASSUME NEW l
  PROVE  l \in LinesIn(Stored)' <=> \E k \in DOMAIN entries' : l \in entries'[k].lines
  BY DEF LinesIn, Stored

LEMMA EmitMember ==
  ASSUME NEW ks, NEW l
  PROVE  l \in LinesIn(Emit(ks)) <=> \E k \in ks : l \in entries[k].lines
  BY LinesInMember DEF Emit

\* Taking the entries of some keys out of the map moves their lines, and no
\* other line, from the map into the emitted batch.
LEMMA EmitMovesLines ==
  ASSUME EntriesByKey, NEW ks \in SUBSET DOMAIN entries, entries' = Without(ks)
  PROVE  /\ LinesIn(Stored)' = LinesIn(Stored) \ LinesIn(Emit(ks))
         /\ LinesIn(Emit(ks)) \subseteq LinesIn(Stored)
<1>1. DOMAIN entries' = DOMAIN entries \ ks
  BY DEF Without
<1>2. \A k \in DOMAIN entries' : entries'[k] = entries[k]
  BY DEF Without
<1>3. ASSUME NEW l PROVE l \in LinesIn(Stored)' <=> l \in LinesIn(Stored) \ LinesIn(Emit(ks))
  <2>1. \A j, k \in DOMAIN entries :
            l \in entries[j].lines /\ l \in entries[k].lines => j = k
    BY DEF EntriesByKey
  <2>2. (\E k \in DOMAIN entries \ ks : l \in entries[k].lines)
          <=> /\ \E k \in DOMAIN entries : l \in entries[k].lines
              /\ ~ \E k \in ks : l \in entries[k].lines
    BY <2>1
  <2> QED
    BY <1>1, <1>2, <2>2, StoredMember, StoredMemberPrime, EmitMember
<1>4. LinesIn(Emit(ks)) \subseteq LinesIn(Stored)
  BY StoredMember, EmitMember
<1> QED
  BY <1>3, <1>4

\* The batch emitted for some keys of the map is a batch of one-window groups.
LEMMA EmitBatch ==
  ASSUME TypeOK, EntriesByKey, NEW ks \in SUBSET DOMAIN entries
  PROVE  /\ Emit(ks) \in Batch
         /\ \A e \in Emit(ks) : OneWindow(e)
  BY DEF TypeOK, EntriesByKey, Emit, Batch

LEMMA LinesInLines ==
  ASSUME NEW batch \in Batch
  PROVE  LinesIn(batch) \in SUBSET Lines
  BY DEF LinesIn, Batch, Entry

LEMMA ChannelMember ==
  ASSUME NEW l
  PROVE  l \in Channelled <=> \E i \in 1..Len(output) : l \in LinesIn(output[i])
  BY DEF Channelled

LEMMA ChannelMemberPrime ==
  ASSUME NEW l
  PROVE  l \in Channelled' <=> \E i \in 1..Len(output') : l \in LinesIn(output'[i])
  BY DEF Channelled, LinesIn

\* The keys the flusher or Process collects are keys of the map, and an entry
\* that is not collected is still within its window.
LEMMA ExpiredLemma ==
  ASSUME TypeOK
  PROVE  /\ ExpiredKeys \in SUBSET DOMAIN entries
         /\ \A k \in DOMAIN entries \ ExpiredKeys : now <= entries[k].firstSeen + Window
<1>1. \A k \in DOMAIN entries : entries[k].firstSeen + Window \in Nat
  BY AggregatorAssumption DEF TypeOK, Entry
<1> QED
  BY <1>1 DEF ExpiredKeys, TypeOK

\* What Process does to the map: the expired entries leave it and the line is
\* counted under its key.
LEMMA ProcessEntries ==
  ASSUME TypeOK, NEW line \in Lines, Process(line), NEW k, k = KeyOf[line]
  PROVE  /\ DOMAIN entries' = (DOMAIN entries \ ExpiredKeys) \cup {k}
         /\ \A x \in DOMAIN entries' : entries'[x] \in Entry
         /\ \A x \in DOMAIN entries' \ {k} : entries'[x] = entries[x]
         /\ entries'[k].lastSeen = now
         /\ k \in DOMAIN entries \ ExpiredKeys =>
              /\ entries'[k].lines = entries[k].lines \cup {line}
              /\ entries'[k].firstSeen = entries[k].firstSeen
         /\ k \notin DOMAIN entries \ ExpiredKeys =>
              /\ entries'[k].lines = {line}
              /\ entries'[k].firstSeen = now
<1> DEFINE rest == Without(ExpiredKeys)
<1>1. /\ DOMAIN rest = DOMAIN entries \ ExpiredKeys
      /\ \A x \in DOMAIN rest : rest[x] = entries[x]
  BY DEF Without
<1>2. entries' = [x \in DOMAIN rest \cup {k} |->
                    IF x = k THEN Counted(rest, k, line) ELSE rest[x]]
  BY DEF Process
<1> HIDE DEF rest
<1>3. /\ DOMAIN entries' = DOMAIN rest \cup {k}
      /\ \A x \in DOMAIN entries' \ {k} : entries'[x] = rest[x]
      /\ entries'[k] = Counted(rest, k, line)
  BY <1>2
<1>4. \A x \in DOMAIN rest : rest[x] \in Entry
  BY <1>1 DEF TypeOK
<1>5. now \in Nat
  BY DEF TypeOK
<1>6. CASE k \in DOMAIN rest
  <2>1. PICK e : e = rest[k]
    OBVIOUS
  <2>2. Counted(rest, k, line) = [e EXCEPT !.lines = @ \cup {line}, !.lastSeen = now]
    BY <1>6, <2>1 DEF Counted
  <2>3. e \in Entry
    BY <1>4, <1>6, <2>1
  <2>4. /\ entries'[k] \in Entry
        /\ entries'[k].lines = e.lines \cup {line}
        /\ entries'[k].firstSeen = e.firstSeen
        /\ entries'[k].lastSeen = now
    <3>2. e.lines \cup {line} \in SUBSET Lines
      BY <2>3 DEF Entry
    <3>3. PICK f : f = [e EXCEPT !.lines = e.lines \cup {line}, !.lastSeen = now]
      OBVIOUS
    <3>4. /\ f \in Entry
          /\ f.lines = e.lines \cup {line}
          /\ f.firstSeen = e.firstSeen
          /\ f.lastSeen = now
      BY <1>5, <2>3, <3>2, <3>3 DEF Entry
    <3> QED
      BY <1>3, <1>5, <2>2, <2>3, <3>2, <3>3, <3>4, Zenon
  <2> QED
    BY <1>1, <1>3, <1>4, <1>6, <2>1, <2>4
<1>7. CASE k \notin DOMAIN rest
  <2>1. entries'[k] = [lines |-> {line}, firstSeen |-> now, lastSeen |-> now]
    BY <1>3, <1>7 DEF Counted
  <2>2. /\ entries'[k] \in Entry
        /\ entries'[k].lines = {line}
        /\ entries'[k].firstSeen = now
        /\ entries'[k].lastSeen = now
    BY <1>5, <2>1 DEF Entry
  <2> QED
    BY <1>1, <1>3, <1>4, <1>7, <2>2
<1> QED
  BY <1>6, <1>7

-----------------------------------------------------------------------------
(* Each part of the invariant is inductive relative to the others.         *)

LEMMA TypeInductive == TypeOK /\ EntriesByKey /\ [Next]_vars => TypeOK'
<1> SUFFICES ASSUME TypeOK, EntriesByKey, [Next]_vars PROVE TypeOK'
  OBVIOUS
<1> USE AggregatorAssumption
<1>1. ASSUME NEW line \in Lines, Process(line) PROVE TypeOK'
  <2>1. Collected \in SUBSET Lines
    BY ExpiredLemma, EmitBatch, LinesInLines DEF Collected
  <2>2. KeyOf[line] \in Keys
    BY DEF Keys
  <2>3. /\ DOMAIN entries' = (DOMAIN entries \ ExpiredKeys) \cup {KeyOf[line]}
        /\ \A x \in DOMAIN entries' : entries'[x] \in Entry
    BY <1>1, ProcessEntries
  <2>4. DOMAIN entries' \subseteq Keys
    BY <2>2, <2>3 DEF TypeOK
  <2> QED
    BY <1>1, <2>1, <2>3, <2>4 DEF TypeOK, Process
<1>2. CASE Flush
  <2>1. LinesIn(Stored) \in SUBSET Lines
    BY LinesInLines DEF TypeOK, Stored, Batch
  <2> QED
    BY <1>2, <2>1 DEF Flush, TypeOK, Without
<1>3. CASE Stop
  BY <1>3 DEF Stop, TypeOK
<1>4. CASE Receive
  <2>1. Head(output) \in Batch
    BY <1>4 DEF Receive, TypeOK
  <2>2. LinesIn(Head(output)) \in SUBSET Lines
    BY <2>1, LinesInLines
  <2> QED
    BY <1>4, <2>2 DEF Receive, TypeOK
<1>5. CASE Tick
  <2>1. Emit(ExpiredKeys) \in Batch
    BY ExpiredLemma, EmitBatch
  <2> QED
    BY <1>5, <2>1 DEF Tick, TypeOK, Uncollected, Without
<1>6. CASE Send
  <2>1. {} \in Batch
    BY DEF Batch
  <2> QED
    BY <1>6, <2>1 DEF Send, OutputRoom, TypeOK
<1>7. CASE Quit
  <2>1. {} \in Batch
    BY DEF Batch
  <2>2. LinesIn(hand) \in SUBSET Lines
    BY LinesInLines DEF TypeOK
  <2> QED
    BY <1>7, <2>1, <2>2 DEF Quit, TypeOK
<1>8. CASE Advance
  BY <1>8 DEF Advance, TypeOK
<1>9. CASE UNCHANGED vars
  BY <1>9 DEF vars, TypeOK
<1> QED
  BY <1>1, <1>2, <1>3, <1>4, <1>5, <1>6, <1>7, <1>8, <1>9 DEF Next, FlushLoop

\* A key's entry keeps its firstSeen, so a line is counted in it only while the
\* window since firstSeen lasts.
LEMMA EntriesInductive == TypeOK /\ EntriesByKey /\ [Next]_vars => EntriesByKey'
<1> SUFFICES ASSUME TypeOK, EntriesByKey, [Next]_vars PROVE EntriesByKey'
  OBVIOUS
<1> USE AggregatorAssumption
<1>1. ASSUME NEW line \in Lines, Process(line) PROVE EntriesByKey'
  <2>k. PICK k : k = KeyOf[line]
    OBVIOUS
  <2>1. now' = now
    BY <1>1 DEF Process
  <2>5. /\ DOMAIN entries' = (DOMAIN entries \ ExpiredKeys) \cup {k}
        /\ \A x \in DOMAIN entries' \ {k} : entries'[x] = entries[x]
        /\ entries'[k].lastSeen = now
        /\ k \in DOMAIN entries \ ExpiredKeys =>
             /\ entries'[k].lines = entries[k].lines \cup {line}
             /\ entries'[k].firstSeen = entries[k].firstSeen
        /\ k \notin DOMAIN entries \ ExpiredKeys =>
             /\ entries'[k].lines = {line}
             /\ entries'[k].firstSeen = now
    BY <1>1, <2>k, ProcessEntries
  <2>2. ASSUME NEW x \in DOMAIN entries' \ {k}
        PROVE  (OneWindow(entries[x]) /\ \A l \in entries[x].lines : KeyOf[l] = x)'
               /\ entries'[x].lastSeen <= now'
    BY <2>1, <2>2, <2>5 DEF EntriesByKey, OneWindow
  <2>3. CASE k \in DOMAIN entries \ ExpiredKeys
    <3>1. now <= entries[k].firstSeen + Window
      BY <2>3, ExpiredLemma
    <3>2. /\ entries[k] \in Entry
          /\ entries[k].firstSeen <= entries[k].lastSeen
          /\ entries[k].lastSeen <= now
          /\ \A l \in entries[k].lines : KeyOf[l] = k
      BY <2>3 DEF TypeOK, EntriesByKey, OneWindow
    <3>3. /\ entries'[k].lines = entries[k].lines \cup {line}
          /\ entries'[k].firstSeen = entries[k].firstSeen
          /\ entries'[k].lastSeen = now
      BY <2>3, <2>5
    <3>4. entries[k].firstSeen \in Nat /\ entries[k].lastSeen \in Nat /\ now \in Nat
      BY <3>2 DEF Entry, TypeOK
    <3>5. /\ entries'[k].firstSeen <= entries'[k].lastSeen
          /\ entries'[k].lastSeen <= entries'[k].firstSeen + Window
          /\ entries'[k].lastSeen <= now'
      BY <2>1, <3>1, <3>2, <3>3, <3>4
    <3> QED
      BY <2>k, <2>2, <3>2, <3>3, <3>5 DEF EntriesByKey, OneWindow
  <2>4. CASE k \notin DOMAIN entries \ ExpiredKeys
    <3>1. /\ entries'[k].lines = {line}
          /\ entries'[k].firstSeen = now
          /\ entries'[k].lastSeen = now
      BY <2>4, <2>5
    <3>2. now \in Nat
      BY DEF TypeOK
    <3> QED
      BY <2>k, <2>1, <2>2, <3>1, <3>2, AggregatorAssumption DEF EntriesByKey, OneWindow
  <2> QED
    BY <2>3, <2>4
<1>2. CASE Flush \/ Tick
  BY <1>2 DEF Flush, Tick, Uncollected, Without, EntriesByKey, OneWindow
<1>3. CASE Advance
  <2>1. \A k \in DOMAIN entries : entries[k].lastSeen \in Nat
    BY DEF TypeOK, Entry
  <2> QED
    BY <1>3, <2>1 DEF Advance, EntriesByKey, OneWindow, TypeOK
<1>4. CASE Stop \/ Receive \/ Send \/ Quit \/ UNCHANGED vars
  BY <1>4 DEF Stop, Receive, Send, Quit, vars, EntriesByKey, OneWindow
<1> QED
  BY <1>1, <1>2, <1>3, <1>4 DEF Next, FlushLoop

LEMMA BatchInductive == BatchInHand /\ [Next]_vars => BatchInHand'
  BY DEF Next, Process, Flush, Stop, Receive, FlushLoop, Tick, Send, Quit, Advance,
         vars, BatchInHand

\* Every line is in exactly one place: each action moves lines from one place
\* to the next, Process and Tick by taking whole entries out of the map.
LEMMA LinesInductive ==
  IInv /\ TypeOK' /\ [Next]_vars => NoLineLost' /\ NoLineTwice'
<1> SUFFICES ASSUME IInv, TypeOK', [Next]_vars PROVE NoLineLost' /\ NoLineTwice'
  OBVIOUS
<1> DEFINE S == LinesIn(Stored)
           H == LinesIn(hand)
           Apart == \A i, j \in 1..Len(output) :
                        i # j => LinesIn(output[i]) \cap LinesIn(output[j]) = {}
<1>0. /\ accepted = S \cup H \cup Channelled \cup returned \cup discarded
      /\ discarded # {} => done
      /\ S \cap (H \cup Channelled \cup returned \cup discarded) = {}
      /\ H \cap (Channelled \cup returned \cup discarded) = {}
      /\ Channelled \cap (returned \cup discarded) = {}
      /\ returned \cap discarded = {}
      /\ Apart
  BY DEF IInv, NoLineLost, NoLineTwice
<1>a. ASSUME UNCHANGED output PROVE Channelled' = Channelled /\ (Apart => Apart')
  BY <1>a DEF Channelled, LinesIn
<1>b. ASSUME UNCHANGED hand PROVE H' = H
  BY <1>b DEF LinesIn
<1>c. ASSUME UNCHANGED entries PROVE S' = S
  BY <1>c DEF LinesIn, Stored
<1>d. ASSUME hand' = {} PROVE H' = {}
  BY <1>d DEF LinesIn
<1> DEFINE Placed ==
        /\ accepted' = S' \cup H' \cup Channelled' \cup returned' \cup discarded'
        /\ discarded' # {} => done'
        /\ S' \cap (H' \cup Channelled' \cup returned' \cup discarded') = {}
        /\ H' \cap (Channelled' \cup returned' \cup discarded') = {}
        /\ Channelled' \cap (returned' \cup discarded') = {}
        /\ returned' \cap discarded' = {}
        /\ Apart'
<1> SUFFICES Placed
  BY DEF NoLineLost, NoLineTwice
<1>1. ASSUME NEW line \in Lines, Process(line) PROVE Placed
  <2>k. PICK k : k = KeyOf[line]
    OBVIOUS
  <2>1. /\ DOMAIN entries' = (DOMAIN entries \ ExpiredKeys) \cup {k}
        /\ \A x \in DOMAIN entries' \ {k} : entries'[x] = entries[x]
        /\ k \in DOMAIN entries \ ExpiredKeys =>
             entries'[k].lines = entries[k].lines \cup {line}
        /\ k \notin DOMAIN entries \ ExpiredKeys => entries'[k].lines = {line}
    BY <1>1, <2>k, ProcessEntries DEF IInv
  <2>2. ExpiredKeys \in SUBSET DOMAIN entries
    BY ExpiredLemma DEF IInv
  <2>3. Collected \subseteq S
    BY <2>2, StoredMember, EmitMember DEF Collected
  <2>4. ASSUME NEW l PROVE l \in S' <=> l \in (S \ Collected) \cup {line}
    <3>1. \A i, j \in DOMAIN entries :
              l \in entries[i].lines /\ l \in entries[j].lines => i = j
      BY DEF IInv, EntriesByKey
    <3>2. l \in S \ Collected <=> \E x \in DOMAIN entries \ ExpiredKeys : l \in entries[x].lines
      BY <2>2, <3>1, StoredMember, EmitMember DEF Collected
    <3>3. l \in S' <=> \E x \in DOMAIN entries' : l \in entries'[x].lines
      BY StoredMemberPrime
    <3>4. CASE k \in DOMAIN entries \ ExpiredKeys
      BY <2>1, <3>2, <3>3, <3>4
    <3>5. CASE k \notin DOMAIN entries \ ExpiredKeys
      BY <2>1, <3>2, <3>3, <3>5
    <3> QED
      BY <3>4, <3>5
  <2>5. S' = (S \ Collected) \cup {line}
    BY <2>4
  <2>6. /\ UNCHANGED <<output, hand, done, discarded>>
        /\ line \notin accepted
        /\ accepted' = accepted \cup {line}
        /\ returned' = returned \cup Collected
    BY <1>1 DEF Process
  <2>7. /\ Channelled' = Channelled
        /\ Apart'
        /\ H' = H
    BY <1>0, <1>a, <1>b, <2>6
  <2> HIDE DEF S, H, Apart
  <2> QED
    BY <1>0, <2>3, <2>5, <2>6, <2>7
<1>2. CASE Flush
  <2>1. /\ UNCHANGED <<output, hand, done, accepted, discarded>>
        /\ returned' = returned \cup S
    BY <1>2 DEF Flush
  <2>2. S' = {}
    BY <1>2 DEF Flush, Without, LinesIn, Stored
  <2> QED
    BY <1>0, <1>a, <1>b, <2>1, <2>2
<1>3. CASE Stop
  BY <1>0, <1>3, <1>a, <1>b, <1>c DEF Stop
<1>4. CASE Receive
  <2>1. /\ UNCHANGED <<entries, hand, done, accepted, discarded>>
        /\ returned' = returned \cup LinesIn(output[1])
    BY <1>4 DEF Receive, IInv, TypeOK
  <2>2. /\ output \in Seq(Batch)
        /\ output # <<>>
        /\ output' = Tail(output)
    BY <1>4 DEF Receive, IInv, TypeOK
  <2>3. /\ Len(output') = Len(output) - 1
        /\ Len(output) \in Nat
        /\ Len(output) >= 1
        /\ \A i \in 1..Len(output') : output'[i] = output[i + 1]
    BY <2>2
  <2>4. Channelled = Channelled' \cup LinesIn(output[1])
    <3>1. \A i \in 1..Len(output) : 
              i # 1 => i - 1 \in 1..Len(output') /\ output'[i - 1] = output[i]
      BY <2>3
    <3>2. \A i \in 1..Len(output') : i + 1 \in 1..Len(output)
      BY <2>3
    <3>3. 1 \in 1..Len(output)
      BY <2>3
    <3> QED
      BY <2>3, <3>1, <3>2, <3>3, ChannelMember, ChannelMemberPrime
  <2>5. Channelled' \cap LinesIn(output[1]) = {}
    <3>1. \A i \in 1..Len(output') : i + 1 \in 1..Len(output) /\ i + 1 # 1
      BY <2>3
    <3>2. 1 \in 1..Len(output)
      BY <2>3
    <3>3. \A i \in 1..Len(output') : LinesIn(output'[i]) \cap LinesIn(output[1]) = {}
      BY <1>0, <2>3, <3>1, <3>2
    <3> QED
      BY <3>3, ChannelMemberPrime
  <2>6. Apart'
    <3>1. \A i, j \in 1..Len(output') :
            i # j => /\ i + 1 \in 1..Len(output)
                     /\ j + 1 \in 1..Len(output)
                     /\ i + 1 # j + 1
      BY <2>3
    <3>2. \A i, j \in 1..Len(output') :
            i # j => LinesIn(output'[i]) \cap LinesIn(output'[j]) = {}
      BY <1>0, <2>3, <3>1
    <3> QED
      BY <3>2 DEF LinesIn
  <2> QED
    BY <1>0, <1>b, <1>c, <2>1, <2>4, <2>5, <2>6
<1>5. CASE Tick
  <2>1. /\ UNCHANGED <<output, done, accepted, returned, discarded>>
        /\ hand' = Emit(ExpiredKeys)
        /\ entries' = Without(ExpiredKeys)
        /\ hand = {}
    BY <1>5 DEF Tick, Uncollected, IInv, BatchInHand
  <2>2. ExpiredKeys \in SUBSET DOMAIN entries
    BY ExpiredLemma DEF IInv
  <2>3. /\ S' = S \ LinesIn(Emit(ExpiredKeys))
        /\ LinesIn(Emit(ExpiredKeys)) \subseteq S
    BY <2>1, <2>2, EmitMovesLines DEF IInv
  <2>4. H = {}
    BY <2>1, LinesInEmpty
  <2>5. H' = LinesIn(Emit(ExpiredKeys))
    BY <2>1 DEF LinesIn
  <2> QED
    BY <1>0, <1>a, <2>1, <2>3, <2>4, <2>5
<1>6. CASE Send
  <2>1. /\ UNCHANGED <<entries, done, accepted, returned, discarded>>
        /\ hand' = {}
        /\ output' = Append(output, hand)
        /\ output \in Seq(Batch)
        /\ hand \in Batch
    BY <1>6 DEF Send, IInv, TypeOK
  <2>2. /\ Len(output') = Len(output) + 1
        /\ Len(output) \in Nat
        /\ \A i \in 1..Len(output) : output'[i] = output[i]
        /\ output'[Len(output) + 1] = hand
    BY <2>1
  <2>3. Channelled' = Channelled \cup H
    <3>1. 1..Len(output') = 1..Len(output) \cup {Len(output) + 1}
      BY <2>2
    <3>2. \A l : l \in Channelled' <=> \/ \E i \in 1..Len(output) : l \in LinesIn(output[i])
                                       \/ l \in LinesIn(hand)
      <4>1. ASSUME NEW l
            PROVE  (\E i \in 1..Len(output') : l \in LinesIn(output'[i]))
                     <=> \/ \E i \in 1..Len(output) : l \in LinesIn(output[i])
                         \/ l \in LinesIn(hand)
        BY <2>2, <3>1, Zenon
      <4> QED
        BY <4>1, ChannelMemberPrime, Zenon
    <3> QED
      BY <2>2, <3>1, <3>2, ChannelMember
  <2>4. Apart'
    <3>1. \A i \in 1..Len(output) : LinesIn(output[i]) \cap H = {}
      BY <1>0, ChannelMember
    <3>2. ASSUME NEW i \in 1..Len(output'), NEW j \in 1..Len(output'), i # j
          PROVE  LinesIn(output'[i]) \cap LinesIn(output'[j]) = {}
      <4>1. CASE i \in 1..Len(output) /\ j \in 1..Len(output)
        BY <1>0, <2>2, <3>2, <4>1
      <4>2. CASE i \in 1..Len(output) /\ j = Len(output) + 1
        BY <2>2, <3>1, <4>2
      <4>3. CASE i = Len(output) + 1 /\ j \in 1..Len(output)
        BY <2>2, <3>1, <4>3
      <4> QED
        BY <2>2, <3>2, <4>1, <4>2, <4>3
    <3> QED
      BY <3>2 DEF LinesIn
  <2> QED
    BY <1>0, <1>c, <1>d, <2>1, <2>3, <2>4
<1>7. CASE Quit
  <2>1. /\ UNCHANGED <<entries, output, done, accepted, returned>>
        /\ done
        /\ hand' = {}
        /\ discarded' = discarded \cup H
    BY <1>7 DEF Quit
  <2> QED
    BY <1>0, <1>a, <1>c, <1>d, <2>1
<1>8. CASE Advance
  BY <1>0, <1>8, <1>a, <1>b, <1>c DEF Advance
<1>9. CASE UNCHANGED vars
  BY <1>0, <1>9, <1>a, <1>b, <1>c DEF vars
<1> QED
  BY <1>1, <1>2, <1>3, <1>4, <1>5, <1>6, <1>7, <1>8, <1>9 DEF Next, FlushLoop

\* The groups in flight are the entries of the map and the batches made of them.
LEMMA GroupsMember ==
  GroupIsOneWindow <=>
    /\ \A k \in DOMAIN entries : OneWindow(entries[k])
    /\ \A e \in hand : OneWindow(e)
    /\ \A i \in 1..Len(output) : \A e \in output[i] : OneWindow(e)
  BY DEF GroupIsOneWindow, Stored, OneWindow

LEMMA GroupsMemberPrime ==
  GroupIsOneWindow' <=>
    /\ \A k \in DOMAIN entries' : OneWindow(entries'[k])
    /\ \A e \in hand' : OneWindow(e)
    /\ \A i \in 1..Len(output') : \A e \in output'[i] : OneWindow(e)
  BY DEF GroupIsOneWindow, Stored, OneWindow

LEMMA GroupInductive ==
  IInv /\ EntriesByKey' /\ [Next]_vars => GroupIsOneWindow'
<1> SUFFICES ASSUME IInv, EntriesByKey', [Next]_vars PROVE GroupIsOneWindow'
  OBVIOUS
<1>0. /\ \A k \in DOMAIN entries' : OneWindow(entries'[k])
      /\ \A e \in hand : OneWindow(e)
      /\ \A i \in 1..Len(output) : \A e \in output[i] : OneWindow(e)
      /\ output \in Seq(Batch)
  <2>1. \A k \in DOMAIN entries' : OneWindow(entries'[k])
    BY DEF EntriesByKey, OneWindow
  <2> QED
    BY <2>1, GroupsMember DEF IInv, TypeOK
<1> SUFFICES /\ \A e \in hand' : OneWindow(e)
             /\ \A i \in 1..Len(output') : \A e \in output'[i] : OneWindow(e)
  BY <1>0, GroupsMemberPrime
<1>1. CASE UNCHANGED <<hand, output>>
  BY <1>0, <1>1
<1>2. CASE Receive
  BY <1>0, <1>2 DEF Receive
<1>3. CASE Tick
  <2>1. \A e \in Emit(ExpiredKeys) : OneWindow(e)
    BY ExpiredLemma, EmitBatch DEF IInv
  <2> QED
    BY <1>0, <1>3, <2>1 DEF Tick
<1>4. CASE Send
  <2>1. hand \in Batch
    BY DEF IInv, TypeOK
  <2>2. /\ Len(output') = Len(output) + 1
        /\ Len(output) \in Nat
        /\ \A i \in 1..Len(output) : output'[i] = output[i]
        /\ output'[Len(output) + 1] = hand
        /\ hand' = {}
    BY <1>0, <1>4, <2>1 DEF Send
  <2>3. 1..Len(output') = 1..Len(output) \cup {Len(output) + 1}
    BY <2>2
  <2> QED
    BY <1>0, <2>2, <2>3
<1>5. CASE Quit
  BY <1>0, <1>5 DEF Quit
<1> QED
  BY <1>1, <1>2, <1>3, <1>4, <1>5
     DEF Next, FlushLoop, Process, Flush, Stop, Advance, vars

LEMMA InvariantInit == Init => IInv
<1> SUFFICES ASSUME Init PROVE IInv
  OBVIOUS
<1>1. DOMAIN entries = {}
  BY DEF Init
<1>2. TypeOK
  <2>1. <<>> \in Seq(Batch) /\ Len(<<>>) = 0 /\ {} \in Batch
    BY DEF Batch
  <2>2. 0 \in Nat /\ 0 <= OutputCap
    BY AggregatorAssumption
  <2> QED
    BY <1>1, <2>1, <2>2 DEF Init, TypeOK
<1>3. EntriesByKey /\ BatchInHand
  BY <1>1 DEF Init, EntriesByKey, BatchInHand
<1>4. Stored = {} /\ Channelled = {} /\ LinesIn(hand) = {} /\ Len(output) = 0
  BY <1>1 DEF Init, Stored, Channelled, LinesIn
<1>5. LinesIn(Stored) = {}
  BY <1>4, LinesInEmpty
<1>6. NoLineLost /\ NoLineTwice
  BY <1>4, <1>5 DEF Init, NoLineLost, NoLineTwice
<1>7. GroupIsOneWindow
  BY <1>1, <1>4, GroupsMember DEF Init
<1> QED
  BY <1>2, <1>3, <1>6, <1>7 DEF IInv

LEMMA InvariantHolds == Spec => []IInv
<1>1. Init => IInv
  BY InvariantInit
<1>2. IInv /\ [Next]_vars => IInv'
  BY TypeInductive, EntriesInductive, BatchInductive, LinesInductive, GroupInductive
     DEF IInv
<1> QED
  BY <1>1, <1>2, PTL DEF Spec

-----------------------------------------------------------------------------
(* The theorems.                                                           *)

\* Process, Flush and the flusher's ticker lose no line and count none twice,
\* however they interleave; only a flusher stopped with a batch in hand gives
\* lines up.
THEOREM Counting == Spec => []CountedOnce
<1>1. IInv => CountedOnce
  BY DEF IInv, CountedOnce
<1> QED
  BY <1>1, InvariantHolds, PTL

\* Every aggregated line, in the map, in the flusher's hand or in the channel,
\* stands for equal lines seen within one window.
THEOREM Grouping == Spec => []GroupIsOneWindow
<1>1. IInv => GroupIsOneWindow
  BY DEF IInv
<1> QED
  BY <1>1, InvariantHolds, PTL

=============================================================================
