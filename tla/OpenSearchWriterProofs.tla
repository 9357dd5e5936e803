----------------------- MODULE OpenSearchWriterProofs -----------------------
(***************************************************************************)
(* The safety properties of OpenSearchWriter, proved for every number of   *)
(* documents, every bulk size, every bound of the retry queue and every    *)
(* number of retries.                                                      *)
(***************************************************************************)
EXTENDS OpenSearchWriter, FiniteSetTheorems, WellFoundedInduction, TLAPS

-----------------------------------------------------------------------------
(* Induction on the naturals, stated for sets so that the provers can      *)
(* instantiate it.                                                         *)

LEMMA NatMinimum ==
  ASSUME NEW T \in SUBSET Nat, T # {}
  PROVE  \E n \in T : \A m \in T : n <= m
<1>1. PICK R : R = OpToRel(<, Nat)
  OBVIOUS
<1>2. IsWellFoundedOn(R, Nat)
  BY <1>1, NatLessThanWellFounded
<1>3. \A x, y \in Nat : <<x, y>> \in R <=> x < y
  BY <1>1 DEF OpToRel
<1>4. PICK x \in T : \A y \in T : ~ (<<y, x>> \in R)
  BY <1>2, WFMin
<1>5. \A y \in T : y \in Nat /\ x \in Nat /\ ~ (y < x)
  BY <1>3, <1>4
<1>6. \A y \in T : x <= y
  BY <1>5
<1> QED
  BY <1>6

LEMMA NatSetInduction ==
  ASSUME NEW T \in SUBSET Nat, 0 \in T, \A n \in T : n + 1 \in T
  PROVE  T = Nat
<1> SUFFICES ASSUME Nat \ T # {} PROVE FALSE
  OBVIOUS
<1>1. PICK n \in Nat \ T : \A m \in Nat \ T : n <= m
  BY NatMinimum
<1>2. n - 1 \in Nat /\ n - 1 + 1 = n
  BY <1>1
<1> QED
  BY <1>1, <1>2

-----------------------------------------------------------------------------
(* Sequences of documents.                                                 *)

\* No document is in q twice.
NoRepeats(q) == \A i, j \in 1..Len(q) : i # j => q[i] # q[j]

LEMMA SeqDocsMember ==
  ASSUME NEW q, NEW d
  PROVE  d \in SeqDocs(q) <=> \E i \in 1..Len(q) : q[i] = d
  BY DEF SeqDocs

LEMMA SeqDocsEmpty ==
  ASSUME NEW S, NEW q \in Seq(S)
  PROVE  /\ SeqDocs(q) = {} <=> q = <<>>
         /\ SeqDocs(<<>>) = {}
         /\ NoRepeats(<<>>)
         /\ SeqDocs(q) \subseteq S
<1>1. SeqDocs(<<>>) = {} /\ NoRepeats(<<>>)
  BY DEF SeqDocs, NoRepeats
<1>2. ASSUME q # <<>> PROVE q[1] \in SeqDocs(q)
  <2>1. 1 \in 1..Len(q)
    BY <1>2
  <2> QED
    BY <2>1, SeqDocsMember
<1>3. SeqDocs(q) \subseteq S
  BY DEF SeqDocs
<1> QED
  BY <1>1, <1>2, <1>3

LEMMA SeqDocsAppend ==
  ASSUME NEW S, NEW q \in Seq(S), NEW e \in S
  PROVE  /\ Append(q, e) \in Seq(S)
         /\ Len(Append(q, e)) = Len(q) + 1
         /\ SeqDocs(Append(q, e)) = SeqDocs(q) \cup {e}
         /\ NoRepeats(q) /\ e \notin SeqDocs(q) => NoRepeats(Append(q, e))
<1> DEFINE r == Append(q, e)
<1>1. /\ r \in Seq(S)
      /\ Len(r) = Len(q) + 1
      /\ Len(q) \in Nat
      /\ \A i \in 1..Len(q) : r[i] = q[i]
      /\ r[Len(q) + 1] = e
  OBVIOUS
<1> HIDE DEF r
<1>2. 1..Len(r) = 1..Len(q) \cup {Len(q) + 1}
  BY <1>1
<1>3. SeqDocs(r) = SeqDocs(q) \cup {e}
  BY <1>1, <1>2, SeqDocsMember
<1>4. ASSUME NoRepeats(q), e \notin SeqDocs(q),
             NEW i \in 1..Len(r), NEW j \in 1..Len(r), i # j
      PROVE  r[i] # r[j]
  <2>1. \A k \in 1..Len(q) : q[k] # e
    BY <1>4, SeqDocsMember
  <2>2. \A k \in 1..Len(q) : k # Len(q) + 1
    BY <1>1
  <2> QED
    BY <1>1, <1>2, <1>4, <2>1, <2>2 DEF NoRepeats
<1> QED
  BY <1>1, <1>3, <1>4 DEF NoRepeats, r

LEMMA SeqDocsConcat ==
  ASSUME NEW S, NEW p \in Seq(S), NEW q \in Seq(S)
  PROVE  /\ p \o q \in Seq(S)
         /\ Len(p \o q) = Len(p) + Len(q)
         /\ SeqDocs(p \o q) = SeqDocs(p) \cup SeqDocs(q)
         /\ NoRepeats(p) /\ NoRepeats(q) /\ SeqDocs(p) \cap SeqDocs(q) = {} => NoRepeats(p \o q)
<1> DEFINE r == p \o q
<1>1. /\ r \in Seq(S)
      /\ Len(r) = Len(p) + Len(q)
      /\ Len(p) \in Nat /\ Len(q) \in Nat
      /\ \A i \in 1..Len(p) : i \in 1..Len(r) /\ r[i] = p[i]
      /\ \A i \in 1..Len(r) : i \in 1..Len(p) \/ (i - Len(p) \in 1..Len(q) /\ r[i] = q[i - Len(p)])
  OBVIOUS
<1>2. \A i \in 1..Len(q) : i + Len(p) \in 1..Len(r) /\ r[i + Len(p)] = q[i]
  OBVIOUS
<1> HIDE DEF r
<1>3. SeqDocs(r) = SeqDocs(p) \cup SeqDocs(q)
  <2>1. ASSUME NEW d PROVE d \in SeqDocs(r) <=> d \in SeqDocs(p) \/ d \in SeqDocs(q)
    <3>1. ASSUME NEW i \in 1..Len(r), r[i] = d PROVE d \in SeqDocs(p) \/ d \in SeqDocs(q)
      BY <1>1, <3>1, SeqDocsMember
    <3>2. ASSUME NEW i \in 1..Len(p), p[i] = d PROVE d \in SeqDocs(r)
      BY <1>1, <3>2, SeqDocsMember
    <3>3. ASSUME NEW i \in 1..Len(q), q[i] = d PROVE d \in SeqDocs(r)
      BY <1>2, <3>3, SeqDocsMember
    <3> QED
      BY <3>1, <3>2, <3>3, SeqDocsMember
  <2> QED
    BY <2>1
<1>4. ASSUME NoRepeats(p), NoRepeats(q), SeqDocs(p) \cap SeqDocs(q) = {},
             NEW i \in 1..Len(r), NEW j \in 1..Len(r), i # j
      PROVE  r[i] # r[j]
  <2>1. \A k \in 1..Len(p), m \in 1..Len(q) : p[k] # q[m]
    BY <1>4, SeqDocsMember
  <2>2. CASE i \in 1..Len(p) /\ j \in 1..Len(p)
    BY <1>1, <1>4, <2>2 DEF NoRepeats
  <2>3. CASE i \in 1..Len(p) /\ j \notin 1..Len(p)
    BY <1>1, <2>1, <2>3
  <2>4. CASE i \notin 1..Len(p) /\ j \in 1..Len(p)
    BY <1>1, <2>1, <2>4
  <2>5. CASE i \notin 1..Len(p) /\ j \notin 1..Len(p)
    <3>1. i - Len(p) # j - Len(p)
      BY <1>1, <1>4
    <3> QED
      BY <1>1, <1>4, <2>5, <3>1 DEF NoRepeats
  <2> QED
    BY <2>2, <2>3, <2>4, <2>5
<1> QED
  BY <1>1, <1>3, <1>4 DEF NoRepeats, r

\* enqueuePending cuts a queue in two: the oldest k documents and the rest.
LEMMA SeqDocsCut ==
  ASSUME NEW S, NEW q \in Seq(S), NoRepeats(q), NEW k \in 0..Len(q)
  PROVE  LET old == SubSeq(q, 1, k)
             new == SubSeq(q, k + 1, Len(q))
         IN  /\ old \in Seq(S) /\ Len(old) = k /\ NoRepeats(old)
             /\ new \in Seq(S) /\ Len(new) = Len(q) - k /\ NoRepeats(new)
             /\ SeqDocs(q) = SeqDocs(old) \cup SeqDocs(new)
             /\ SeqDocs(old) \cap SeqDocs(new) = {}
<1> DEFINE old == SubSeq(q, 1, k)
           new == SubSeq(q, k + 1, Len(q))
<1>1. /\ old \in Seq(S) /\ Len(old) = k
      /\ \A i \in 1..k : old[i] = q[i] /\ i \in 1..Len(q)
  OBVIOUS
<1>2. /\ new \in Seq(S) /\ Len(new) = Len(q) - k
      /\ \A i \in 1..Len(new) : new[i] = q[i + k] /\ i + k \in 1..Len(q)
  OBVIOUS
<1>3. Len(q) \in Nat /\ k \in Nat
  OBVIOUS
<1> HIDE DEF old, new
<1>4. NoRepeats(old)
  BY <1>1 DEF NoRepeats
<1>5. NoRepeats(new)
  <2>1. \A i, j \in 1..Len(new) : i # j => i + k # j + k
    BY <1>3
  <2> QED
    BY <1>2, <2>1 DEF NoRepeats
<1>6. SeqDocs(q) = SeqDocs(old) \cup SeqDocs(new)
  <2>1. \A i \in 1..Len(q) : i \in 1..k \/ (i - k \in 1..Len(new) /\ new[i - k] = q[i])
    BY <1>2, <1>3
  <2>2. ASSUME NEW i \in 1..Len(q) PROVE q[i] \in SeqDocs(old) \/ q[i] \in SeqDocs(new)
    BY <1>1, <2>1, SeqDocsMember
  <2>3. SeqDocs(old) \subseteq SeqDocs(q)
    BY <1>1, SeqDocsMember
  <2>4. SeqDocs(new) \subseteq SeqDocs(q)
    BY <1>2, SeqDocsMember
  <2> QED
    BY <2>2, <2>3, <2>4, SeqDocsMember
<1>7. SeqDocs(old) \cap SeqDocs(new) = {}
  <2>1. \A i \in 1..k, j \in 1..Len(new) : i # j + k
    BY <1>3
  <2>2. \A i \in 1..k, j \in 1..Len(new) : old[i] # new[j]
    BY <1>1, <1>2, <2>1 DEF NoRepeats
  <2> QED
    BY <1>1, <2>2, SeqDocsMember
<1> QED
  BY <1>1, <1>2, <1>4, <1>5, <1>6, <1>7 DEF old, new

\* A queue without repeats holds as many documents as it is long.
LEMMA SeqDocsCardinality ==
  ASSUME NEW S, NEW q \in Seq(S), NoRepeats(q)
  PROVE  IsFiniteSet(SeqDocs(q)) /\ Cardinality(SeqDocs(q)) = Len(q)
<1>1. IsFiniteSet(1..Len(q)) /\ Cardinality(1..Len(q)) = Len(q)
  <2>1. PICK n \in Nat : n = Len(q)
    OBVIOUS
  <2>2. IsFiniteSet(1..n) /\ Cardinality(1..n) = IF 1 > n THEN 0 ELSE n - 1 + 1
    BY FS_Interval
  <2> QED
    BY <2>1, <2>2
<1> DEFINE f == [i \in 1..Len(q) |-> q[i]]
<1>2. f \in Bijection(1..Len(q), SeqDocs(q))
  BY SeqDocsMember DEF Bijection, Injection, Surjection, IsInjective, NoRepeats, SeqDocs
<1>3. ExistsBijection(1..Len(q), SeqDocs(q))
  BY <1>2 DEF ExistsBijection
<1> QED
  BY <1>1, <1>3, FS_Bijection

-----------------------------------------------------------------------------
(* The loop of doRequest over the items of a response.                     *)

\* g computes the loop for the first n items.
CollectsTo(g, n, docs, ok) ==
    g = [i \in 0..n |-> IF i = 0 THEN <<>>
                        ELSE IF docs[i] \in ok THEN g[i - 1]
                        ELSE Append(g[i - 1], docs[i])]

LEMMA CollectsExists ==
  ASSUME NEW docs, NEW ok, NEW n \in Nat
  PROVE  \E g : CollectsTo(g, n, docs, ok)
<1> DEFINE T == {k \in Nat : \E g : CollectsTo(g, k, docs, ok)}
<1>1. 0 \in T
  <2>1. CollectsTo([i \in 0..0 |-> <<>>], 0, docs, ok)
    <3>1. \A i \in 0..0 : i = 0
      OBVIOUS
    <3> QED
      BY <3>1 DEF CollectsTo
  <2> QED
    BY <2>1
<1>2. ASSUME NEW k \in T PROVE k + 1 \in T
  <2>1. PICK g : CollectsTo(g, k, docs, ok)
    OBVIOUS
  <2>2. k \in Nat
    OBVIOUS
  <2> DEFINE last == IF docs[k + 1] \in ok THEN g[k] ELSE Append(g[k], docs[k + 1])
             h == [i \in 0..(k + 1) |-> IF i = k + 1 THEN last ELSE g[i]]
  <2>3. \A i \in 0..k : /\ g[i] = IF i = 0 THEN <<>>
                                  ELSE IF docs[i] \in ok THEN g[i - 1]
                                  ELSE Append(g[i - 1], docs[i])
                        /\ h[i] = g[i]
    <3>1. ASSUME NEW i \in 0..k
          PROVE  g[i] = IF i = 0 THEN <<>>
                        ELSE IF docs[i] \in ok THEN g[i - 1]
                        ELSE Append(g[i - 1], docs[i])
      BY <2>1, Zenon DEF CollectsTo
    <3>2. \A i \in 0..k : i \in 0..(k + 1) /\ i # k + 1
      BY <2>2
    <3>3. \A i \in 0..k : h[i] = g[i]
      BY <3>2, Zenon
    <3> QED
      BY <3>1, <3>3, Zenon
  <2>4. h[k + 1] = last
    BY <2>2
  <2> HIDE DEF h
  <2>5. ASSUME NEW i \in 0..(k + 1)
        PROVE  h[i] = IF i = 0 THEN <<>>
                      ELSE IF docs[i] \in ok THEN h[i - 1]
                      ELSE Append(h[i - 1], docs[i])
    <3>1. CASE i = k + 1
      <4>1. h[k] = g[k] /\ i # 0 /\ i - 1 = k
        BY <2>2, <2>3, <3>1
      <4> QED
        BY <2>4, <3>1, <4>1
    <3>2. CASE i \in 0..k /\ i # 0
      <4>1. i - 1 \in 0..k
        BY <2>2, <3>2
      <4> QED
        BY <2>3, <3>2, <4>1
    <3>3. CASE i = 0
      BY <2>2, <2>3, <3>3
    <3> QED
      BY <2>2, <3>1, <3>2, <3>3
  <2>6. CollectsTo(h, k + 1, docs, ok)
    BY <2>5 DEF CollectsTo, h
  <2> QED
    BY <2>2, <2>6
<1> HIDE DEF T
<1>3. T = Nat
  <2>1. T \in SUBSET Nat
    BY DEF T
  <2> QED
    BY <1>1, <1>2, <2>1, NatSetInduction
<1> QED
  BY <1>3 DEF T

LEMMA FailedCollects ==
  ASSUME NEW docs, NEW ok, Len(docs) \in Nat
  PROVE  \E g : CollectsTo(g, Len(docs), docs, ok) /\ Failed(docs, ok) = g[Len(docs)]
<1> DEFINE f == CHOOSE g : g = [i \in 0..Len(docs) |->
                    IF i = 0 THEN <<>>
                    ELSE IF docs[i] \in ok THEN g[i - 1]
                    ELSE Append(g[i - 1], docs[i])]
<1>1. Failed(docs, ok) = f[Len(docs)]
  BY DEF Failed
<1>2. \E g : g = [i \in 0..Len(docs) |->
                    IF i = 0 THEN <<>>
                    ELSE IF docs[i] \in ok THEN g[i - 1]
                    ELSE Append(g[i - 1], docs[i])]
  <2>1. PICK g : CollectsTo(g, Len(docs), docs, ok)
    BY CollectsExists
  <2> QED
    BY <2>1, Zenon DEF CollectsTo
<1>3. f = [i \in 0..Len(docs) |->
                    IF i = 0 THEN <<>>
                    ELSE IF docs[i] \in ok THEN f[i - 1]
                    ELSE Append(f[i - 1], docs[i])]
  BY <1>2
<1> HIDE DEF f
<1> QED
  BY <1>1, <1>3 DEF CollectsTo

\* What doRequest returns: the undelivered documents of the bulk, each once.
THEOREM FailedExact ==
  ASSUME NEW S, NEW docs \in Seq(S), NoRepeats(docs), NEW ok
  PROVE  /\ Failed(docs, ok) \in Seq(S)
         /\ NoRepeats(Failed(docs, ok))
         /\ SeqDocs(Failed(docs, ok)) = SeqDocs(docs) \ ok
<1>0. Len(docs) \in Nat
  OBVIOUS
<1>1. PICK g : CollectsTo(g, Len(docs), docs, ok) /\ Failed(docs, ok) = g[Len(docs)]
  BY <1>0, FailedCollects
<1>2. ASSUME NEW i \in 0..Len(docs)
      PROVE  g[i] = IF i = 0 THEN <<>>
                    ELSE IF docs[i] \in ok THEN g[i - 1]
                    ELSE Append(g[i - 1], docs[i])
  BY <1>1, Zenon DEF CollectsTo
<1> DEFINE Good(n) == /\ g[n] \in Seq(S)
                      /\ NoRepeats(g[n])
                      /\ \A d : d \in SeqDocs(g[n]) <=> d \notin ok /\ \E i \in 1..n : docs[i] = d
           T == {n \in Nat : n <= Len(docs) => Good(n)}
<1>3. 0 \in T
  <2>1. g[0] = <<>>
    BY <1>0, <1>2
  <2>2. <<>> \in Seq(S) /\ NoRepeats(<<>>) /\ SeqDocs(<<>>) = {}
    BY SeqDocsEmpty
  <2>3. \A d : ~ \E i \in 1..0 : docs[i] = d
    OBVIOUS
  <2> QED
    BY <2>1, <2>2, <2>3
<1>4. ASSUME NEW n \in T PROVE n + 1 \in T
  <2> SUFFICES ASSUME n + 1 <= Len(docs) PROVE Good(n + 1)
    OBVIOUS
  <2>1. n \in Nat /\ n + 1 \in 0..Len(docs) /\ n + 1 # 0 /\ n + 1 - 1 = n
    BY <1>0
  <2>2. Good(n)
    BY <1>0
  <2>3. g[n + 1] = IF docs[n + 1] \in ok THEN g[n] ELSE Append(g[n], docs[n + 1])
    BY <1>2, <2>1
  <2>4. 1..(n + 1) = 1..n \cup {n + 1} /\ n + 1 \in 1..Len(docs) /\ 1..n \subseteq 1..Len(docs)
    BY <1>0, <2>1
  <2>5. CASE docs[n + 1] \in ok
    BY <2>2, <2>3, <2>4, <2>5
  <2>6. CASE docs[n + 1] \notin ok
    <3>1. \A i \in 1..n : i # n + 1
      BY <2>1
    <3>2. \A i \in 1..n : docs[i] # docs[n + 1]
      BY <2>4, <3>1 DEF NoRepeats
    <3>3. docs[n + 1] \notin SeqDocs(g[n])
      BY <2>2, <3>2
    <3>4. docs[n + 1] \in S
      BY <2>4
    <3>5. /\ Append(g[n], docs[n + 1]) \in Seq(S)
          /\ NoRepeats(Append(g[n], docs[n + 1]))
          /\ SeqDocs(Append(g[n], docs[n + 1])) = SeqDocs(g[n]) \cup {docs[n + 1]}
      BY <2>2, <3>3, <3>4, SeqDocsAppend
    <3> QED
      BY <2>2, <2>3, <2>4, <2>6, <3>5
  <2> QED
    BY <2>5, <2>6
<1>5. Len(docs) \in T
  <2>1. T \in SUBSET Nat
    OBVIOUS
  <2> HIDE DEF T
  <2> QED
    BY <1>0, <1>3, <1>4, <2>1, NatSetInduction
<1>6. Good(Len(docs))
  BY <1>0, <1>5
<1> QED
  BY <1>1, <1>6, SeqDocsMember

-----------------------------------------------------------------------------
(* The inductive invariant.                                                *)

\* The documents a goroutine holds while it flushes.
Holds(r) == SeqDocs(r.cur) \cup SeqDocs(r.batch)

\* The documents 1..n are where they are: in one of the queues, with one of the
\* goroutines, acknowledged (a) or dropped (d), each in exactly one place.
Account(buf, pend, fl, a, d, n) ==
    /\ NoRepeats(buf) /\ NoRepeats(pend)
    /\ \A f \in Flushers : NoRepeats(fl[f].cur) /\ NoRepeats(fl[f].batch)
    /\ SeqDocs(buf) \cap SeqDocs(pend) = {}
    /\ \A f \in Flushers : SeqDocs(fl[f].cur) \cap SeqDocs(fl[f].batch) = {}
    /\ \A f \in Flushers : Holds(fl[f]) \cap (SeqDocs(buf) \cup SeqDocs(pend)) = {}
    /\ \A f, g \in Flushers : f # g => Holds(fl[f]) \cap Holds(fl[g]) = {}
    /\ a \cap d = {}
    /\ (a \cup d) \cap (SeqDocs(buf) \cup SeqDocs(pend)) = {}
    /\ \A f \in Flushers : (a \cup d) \cap Holds(fl[f]) = {}
    /\ 1..n = a \cup d \cup SeqDocs(buf) \cup SeqDocs(pend) \cup UNION {Holds(fl[f]) : f \in Flushers}

Accounted == Account(buffer, pending, flush, acked, discarded, count)

\* What a goroutine holds at each point of flush and finalFlush.
InPhase(r) ==
    /\ r.pc \in {"idle", "take", "exited"} => r.cur = <<>> /\ r.batch = <<>>
    /\ r.pc \in {"batch", "final"} => r.batch = <<>>

Phases == \A f \in Flushers : InPhase(flush[f])

\* finalFlush begins when flushLoop has returned, and leaves nothing behind.
CloseOrder ==
    /\ flush["loop"].pc # "final"
    /\ flush["output"].pc = "final" <=> closer = "final"
    /\ closer \in {"waiting", "closed"} => flush["output"].pc = "idle"
    /\ closer \in {"final", "closed"} =>
         flush["loop"].pc = "exited" /\ buffer = <<>> /\ pending = <<>>

\* The output goroutine leaves Write with room in the buffer.
BufferRoom == flush["output"].pc # "take" => Len(buffer) < BulkSize

IInv ==
    /\ TypeOK
    /\ Accounted
    /\ dropped = Cardinality(discarded)
    /\ Phases
    /\ CloseOrder
    /\ BufferRoom

-----------------------------------------------------------------------------
(* How documents move.                                                     *)

\* A step of one goroutine that keeps the documents it can reach, each in one
\* place, keeps all of them.
LEMMA Moves ==
  ASSUME NEW buf, NEW pend, NEW fl, NEW a, NEW d, NEW n, Account(buf, pend, fl, a, d, n),
         NEW f \in Flushers,
         NEW buf2, NEW pend2, NEW fl2, NEW a2, NEW d2,
         \A g \in Flushers \ {f} : fl2[g] = fl[g],
         NoRepeats(buf2), NoRepeats(pend2), NoRepeats(fl2[f].cur), NoRepeats(fl2[f].batch),
         SeqDocs(buf2) \cap SeqDocs(pend2) = {},
         SeqDocs(fl2[f].cur) \cap SeqDocs(fl2[f].batch) = {},
         Holds(fl2[f]) \cap (SeqDocs(buf2) \cup SeqDocs(pend2)) = {},
         a2 \cap d2 = {},
         (a2 \cup d2) \cap (SeqDocs(buf2) \cup SeqDocs(pend2)) = {},
         (a2 \cup d2) \cap Holds(fl2[f]) = {},
         a2 \cup d2 \cup SeqDocs(buf2) \cup SeqDocs(pend2) \cup Holds(fl2[f])
           = a \cup d \cup SeqDocs(buf) \cup SeqDocs(pend) \cup Holds(fl[f])
  PROVE  Account(buf2, pend2, fl2, a2, d2, n)
<1> DEFINE Old == a \cup d \cup SeqDocs(buf) \cup SeqDocs(pend) \cup Holds(fl[f])
<1>1. ASSUME NEW g \in Flushers \ {f}
      PROVE  /\ fl2[g] = fl[g]
             /\ Holds(fl2[g]) \cap Old = {}
             /\ NoRepeats(fl2[g].cur) /\ NoRepeats(fl2[g].batch)
             /\ SeqDocs(fl2[g].cur) \cap SeqDocs(fl2[g].batch) = {}
  BY DEF Account
<1>2. \A g, h \in Flushers : g # h => Holds(fl2[g]) \cap Holds(fl2[h]) = {}
  <2>1. SUFFICES ASSUME NEW g \in Flushers, NEW h \in Flushers, g # h
                 PROVE  Holds(fl2[g]) \cap Holds(fl2[h]) = {}
    OBVIOUS
  <2>2. Holds(fl2[f]) \subseteq Old
    OBVIOUS
  <2>3. CASE g = f
    BY <1>1, <2>1, <2>2, <2>3
  <2>4. CASE h = f
    BY <1>1, <2>1, <2>2, <2>4
  <2>5. CASE g # f /\ h # f
    BY <1>1, <2>1, <2>5 DEF Account
  <2> QED
    BY <2>3, <2>4, <2>5
<1>3. \A g \in Flushers : Holds(fl2[g]) \cap (SeqDocs(buf2) \cup SeqDocs(pend2)) = {}
  BY <1>1
<1>4. \A g \in Flushers : (a2 \cup d2) \cap Holds(fl2[g]) = {}
  BY <1>1
<1>5. ASSUME NEW x
      PROVE  x \in 1..n <=> \/ x \in a2 \cup d2 \cup SeqDocs(buf2) \cup SeqDocs(pend2)
                            \/ \E g \in Flushers : x \in Holds(fl2[g])
  <2>1. x \in 1..n <=> x \in Old \/ \E g \in Flushers \ {f} : x \in Holds(fl[g])
    BY DEF Account
  <2>2. (\E g \in Flushers : x \in Holds(fl2[g]))
          <=> x \in Holds(fl2[f]) \/ \E g \in Flushers \ {f} : x \in Holds(fl[g])
    BY <1>1
  <2> QED
    BY <2>1, <2>2
<1>6. 1..n = a2 \cup d2 \cup SeqDocs(buf2) \cup SeqDocs(pend2)
               \cup UNION {Holds(fl2[g]) : g \in Flushers}
  BY <1>5
<1> QED
  BY <1>1, <1>2, <1>3, <1>4, <1>6 DEF Account

\* A step that only moves program counters leaves the account as it was.
LEMMA Stays ==
  ASSUME NEW buf, NEW pend, NEW fl, NEW a, NEW d, NEW n, Account(buf, pend, fl, a, d, n),
         NEW fl2, \A g \in Flushers : fl2[g].cur = fl[g].cur /\ fl2[g].batch = fl[g].batch
  PROVE  Account(buf, pend, fl2, a, d, n)
<1>1. \A g \in Flushers : Holds(fl2[g]) = Holds(fl[g])
  BY DEF Holds
<1> QED
  BY <1>1 DEF Account

LEMMA AccountedPrime ==
  Accounted' <=> Account(buffer', pending', flush', acked', discarded', count')
  BY DEF Accounted, Account, Holds, SeqDocs, NoRepeats

LEMMA ProgressFields ==
  ASSUME NEW r \in Progress
  PROVE  /\ r.pc \in {"idle", "take", "pending", "batch", "requeue", "final", "exited"}
         /\ r.cur \in Seq(Docs) /\ r.batch \in Seq(Docs) /\ r.tries \in 0..MaxRetries
  BY DEF Progress

LEMMA IdleFields ==
  /\ Idle \in Progress
  /\ Idle.pc = "idle" /\ Idle.cur = <<>> /\ Idle.batch = <<>>
<1>1. <<>> \in Seq(Docs) /\ 0 \in 0..MaxRetries
  BY OpenSearchAssumption
<1> QED
  BY <1>1 DEF Idle, Progress

\* Replacing the progress of one goroutine.
LEMMA FlushUpdate ==
  ASSUME TypeOK, NEW f \in Flushers, NEW r \in Progress, flush' = [flush EXCEPT ![f] = r]
  PROVE  /\ flush' \in [Flushers -> Progress]
         /\ flush'[f] = r
         /\ \A g \in Flushers \ {f} : flush'[g] = flush[g]
  BY DEF TypeOK

\* Only the program counter and the tries of one goroutine change.
LEMMA PcUpdate ==
  ASSUME TypeOK, NEW f \in Flushers,
         NEW pc \in {"idle", "take", "pending", "batch", "requeue", "final", "exited"},
         flush' = [flush EXCEPT ![f].pc = pc]
  PROVE  /\ flush' \in [Flushers -> Progress]
         /\ flush'[f].pc = pc
         /\ flush'[f].cur = flush[f].cur /\ flush'[f].batch = flush[f].batch
         /\ \A g \in Flushers \ {f} : flush'[g] = flush[g]
<1>1. PICK r : r = flush[f]
  OBVIOUS
<1>2. PICK s : s = [r EXCEPT !.pc = pc]
  OBVIOUS
<1>3. r \in Progress
  BY <1>1 DEF TypeOK
<1>4. s \in Progress /\ s.pc = pc /\ s.cur = r.cur /\ s.batch = r.batch
  BY <1>2, <1>3 DEF Progress
<1>5. flush' = [flush EXCEPT ![f] = s]
  BY <1>1, <1>2
<1> QED
  BY <1>1, <1>4, <1>5, FlushUpdate

\* Every outcome of an attempt, and the documents it leaves undelivered.
Attempted(f, ok, failed) ==
    /\ acked' = acked \cup ok
    /\ UNCHANGED <<count, buffer, pending, cancelled>>
    /\ flush[f].pc \in {"pending", "batch", "final"}
    /\ \/ failed = <<>> /\ Delivered(f)
       \/ NextTry(f, failed)
       \/ GiveUp(f, failed)

LEMMA AttemptLemma ==
  ASSUME TypeOK, Accounted, NEW f \in Flushers,
         AttemptAnswered(f) \/ AttemptLost(f) \/ AttemptCancelled(f)
  PROVE  /\ indexed' \in SUBSET Docs
         /\ \E ok \in SUBSET SeqDocs(flush[f].cur), failed \in Seq(Docs) :
              /\ NoRepeats(failed)
              /\ SeqDocs(failed) = SeqDocs(flush[f].cur) \ ok
              /\ Attempted(f, ok, failed)
<1>1. /\ flush[f].cur \in Seq(Docs)
      /\ NoRepeats(flush[f].cur)
  BY ProgressFields DEF TypeOK, Accounted, Account
<1>2. SeqDocs(flush[f].cur) \subseteq Docs
  BY <1>1, SeqDocsEmpty
<1>3. CASE AttemptAnswered(f)
  <2>1. PICK ok \in SUBSET SeqDocs(flush[f].cur) :
          /\ indexed' = indexed \cup ok
          /\ acked' = acked \cup ok
          /\ IF Failed(flush[f].cur, ok) = <<>> THEN Delivered(f)
             ELSE NextTry(f, Failed(flush[f].cur, ok))
    BY <1>3 DEF AttemptAnswered
  <2>2. PICK failed : failed = Failed(flush[f].cur, ok)
    OBVIOUS
  <2>3. /\ failed \in Seq(Docs)
        /\ NoRepeats(failed)
        /\ SeqDocs(failed) = SeqDocs(flush[f].cur) \ ok
    BY <1>1, <2>2, FailedExact
  <2>4. Attempted(f, ok, failed)
    BY <1>3, <2>1, <2>2 DEF AttemptAnswered, Attempted
  <2> QED
    BY <1>2, <2>1, <2>3, <2>4 DEF TypeOK
<1>4. CASE AttemptLost(f)
  <2>1. Attempted(f, {}, flush[f].cur)
    BY <1>4 DEF AttemptLost, Attempted
  <2>2. {} \in SUBSET SeqDocs(flush[f].cur)
    OBVIOUS
  <2>3. indexed' \in SUBSET Docs
    BY <1>2, <1>4 DEF AttemptLost, TypeOK
  <2>4. SeqDocs(flush[f].cur) = SeqDocs(flush[f].cur) \ {}
    OBVIOUS
  <2> QED
    BY <1>1, <2>1, <2>2, <2>3, <2>4
<1>5. CASE AttemptCancelled(f)
  <2>1. Attempted(f, {}, flush[f].cur)
    BY <1>5 DEF AttemptCancelled, Attempted
  <2>2. {} \in SUBSET SeqDocs(flush[f].cur)
    OBVIOUS
  <2>3. indexed' \in SUBSET Docs
    BY <1>5 DEF AttemptCancelled, TypeOK
  <2>4. SeqDocs(flush[f].cur) = SeqDocs(flush[f].cur) \ {}
    OBVIOUS
  <2> QED
    BY <1>1, <2>1, <2>2, <2>3, <2>4
<1> QED
  BY <1>3, <1>4, <1>5

\* What becomes of the goroutine's progress after an attempt, by cases.
LEMMA OutcomeLemma ==
  ASSUME TypeOK, Phases, NEW f \in Flushers, NEW ok, NEW failed \in Seq(Docs),
         Attempted(f, ok, failed)
  PROVE  /\ flush' \in [Flushers -> Progress]
         /\ \A g \in Flushers \ {f} : flush'[g] = flush[g]
         /\ InPhase(flush'[f])
         /\ \/ /\ failed = <<>>                        \* delivered
               /\ flush'[f].cur = flush[f].batch /\ flush'[f].batch = <<>>
               /\ flush'[f].pc \in {"batch", "idle"}
               /\ flush[f].pc = "final" => flush'[f].pc = "idle"
               /\ closer' = IF flush[f].pc = "final" THEN "closed" ELSE closer
               /\ UNCHANGED <<dropped, discarded>>
            \/ /\ flush'[f].cur = failed               \* tried again
               /\ flush'[f].batch = flush[f].batch
               /\ flush'[f].pc = flush[f].pc
               /\ UNCHANGED <<closer, dropped, discarded>>
            \/ /\ flush'[f].cur = failed               \* queued again
               /\ flush'[f].batch = flush[f].batch
               /\ flush'[f].pc = "requeue"
               /\ flush[f].pc # "final"
               /\ UNCHANGED <<closer, dropped, discarded>>
            \/ /\ flush'[f] = Idle                     \* counted as lost
               /\ flush[f].pc = "final" /\ flush[f].batch = <<>>
               /\ closer' = "closed"
               /\ Lose(failed)
<1>0. PICK r : r = flush[f]
  OBVIOUS
<1>1. r \in Progress /\ InPhase(r)
  BY <1>0 DEF TypeOK, Phases
<1>2. /\ r.pc \in {"pending", "batch", "final"}
      /\ r.cur \in Seq(Docs) /\ r.batch \in Seq(Docs) /\ r.tries \in 0..MaxRetries
  BY <1>0, <1>1, ProgressFields DEF Attempted
<1>3. <<>> \in Seq(Docs) /\ 0 \in 0..MaxRetries
  BY OpenSearchAssumption
<1>4. CASE failed = <<>> /\ Delivered(f)
  <2>1. CASE r.pc = "pending" /\ r.batch # <<>>
    <3>1. PICK s : s = [pc |-> "batch", cur |-> r.batch, batch |-> <<>>, tries |-> 0]
      OBVIOUS
    <3>2. s \in Progress /\ s.pc = "batch" /\ s.cur = r.batch /\ s.batch = <<>>
      BY <1>2, <1>3, <3>1 DEF Progress
    <3>3. flush' = [flush EXCEPT ![f] = s]
      BY <1>0, <1>4, <2>1, <3>1 DEF Delivered
    <3>4. /\ flush' \in [Flushers -> Progress] /\ flush'[f] = s
          /\ \A g \in Flushers \ {f} : flush'[g] = flush[g]
      BY <3>2, <3>3, FlushUpdate
    <3> QED
      BY <1>0, <1>4, <2>1, <3>2, <3>4 DEF Delivered, InPhase
  <2>2. CASE ~(r.pc = "pending" /\ r.batch # <<>>)
    <3>1. flush' = [flush EXCEPT ![f] = Idle]
      BY <1>0, <1>4, <2>2 DEF Delivered
    <3>2. /\ flush' \in [Flushers -> Progress] /\ flush'[f] = Idle
          /\ \A g \in Flushers \ {f} : flush'[g] = flush[g]
      BY <3>1, IdleFields, FlushUpdate
    <3>3. r.batch = <<>>
      BY <1>1, <1>2, <2>2 DEF InPhase
    <3> QED
      BY <1>0, <1>4, <3>2, <3>3, IdleFields DEF Delivered, InPhase
  <2> QED
    BY <2>1, <2>2
<1>5. ASSUME GiveUp(f, failed)
      PROVE  \/ /\ flush' = [flush EXCEPT ![f] = Idle]
                /\ r.pc = "final"
                /\ closer' = "closed"
                /\ Lose(failed)
             \/ /\ flush' = [flush EXCEPT ![f].pc = "requeue", ![f].cur = failed, ![f].tries = 0]
                /\ r.pc # "final"
                /\ UNCHANGED <<closer, dropped, discarded>>
  BY <1>0, <1>5 DEF GiveUp
<1>6. CASE flush' = [flush EXCEPT ![f] = Idle] /\ r.pc = "final" /\ closer' = "closed" /\ Lose(failed)
  <2>1. /\ flush' \in [Flushers -> Progress] /\ flush'[f] = Idle
        /\ \A g \in Flushers \ {f} : flush'[g] = flush[g]
    BY <1>6, IdleFields, FlushUpdate
  <2>2. r.batch = <<>>
    BY <1>1, <1>6 DEF InPhase
  <2> QED
    BY <1>0, <1>6, <2>1, <2>2, IdleFields DEF InPhase
<1>7. CASE /\ flush' = [flush EXCEPT ![f].pc = "requeue", ![f].cur = failed, ![f].tries = 0]
           /\ r.pc # "final"
           /\ UNCHANGED <<closer, dropped, discarded>>
  <2>1. PICK s : s = [r EXCEPT !.pc = "requeue", !.cur = failed, !.tries = 0]
    OBVIOUS
  <2>2. s \in Progress /\ s.pc = "requeue" /\ s.cur = failed /\ s.batch = r.batch
    BY <1>1, <1>3, <2>1 DEF Progress
  <2>3. flush' = [flush EXCEPT ![f] = s]
    BY <1>0, <1>7, <2>1
  <2>4. /\ flush' \in [Flushers -> Progress] /\ flush'[f] = s
        /\ \A g \in Flushers \ {f} : flush'[g] = flush[g]
    BY <2>2, <2>3, FlushUpdate
  <2> QED
    BY <1>0, <1>7, <2>2, <2>4 DEF InPhase
<1>8. CASE /\ r.tries + 1 < MaxRetries
           /\ flush' = [flush EXCEPT ![f].cur = failed, ![f].tries = @ + 1]
           /\ UNCHANGED <<closer, dropped, discarded>>
  <2>1. PICK s : s = [r EXCEPT !.cur = failed, !.tries = r.tries + 1]
    OBVIOUS
  <2>2. r.tries + 1 \in 0..MaxRetries
    BY <1>2, <1>8, OpenSearchAssumption
  <2>3. s \in Progress /\ s.pc = r.pc /\ s.cur = failed /\ s.batch = r.batch
    BY <1>1, <2>1, <2>2 DEF Progress
  <2>4. flush' = [flush EXCEPT ![f] = s]
    BY <1>0, <1>8, <2>1
  <2>5. /\ flush' \in [Flushers -> Progress] /\ flush'[f] = s
        /\ \A g \in Flushers \ {f} : flush'[g] = flush[g]
    BY <2>3, <2>4, FlushUpdate
  <2>6. InPhase(s)
    BY <1>1, <1>2, <2>3 DEF InPhase
  <2> QED
    BY <1>0, <1>8, <2>3, <2>5, <2>6
<1> QED
  BY <1>0, <1>4, <1>5, <1>6, <1>7, <1>8 DEF Attempted, NextTry

\* Dropped documents are counted one by one.
LEMMA LoseLemma ==
  ASSUME TypeOK, dropped = Cardinality(discarded), NEW docs \in Seq(Docs), NoRepeats(docs),
         SeqDocs(docs) \cap discarded = {}, Lose(docs)
  PROVE  /\ dropped' \in Nat
         /\ discarded' \in SUBSET Docs
         /\ discarded' = discarded \cup SeqDocs(docs)
         /\ dropped' = Cardinality(discarded')
<1>1. IsFiniteSet(Docs)
  BY FS_Interval, OpenSearchAssumption DEF Docs
<1>2. IsFiniteSet(discarded)
  BY <1>1, FS_Subset DEF TypeOK
<1>3. IsFiniteSet(SeqDocs(docs)) /\ Cardinality(SeqDocs(docs)) = Len(docs)
  BY SeqDocsCardinality
<1>4. Cardinality(discarded \cap SeqDocs(docs)) = 0
  <2>1. discarded \cap SeqDocs(docs) = {}
    OBVIOUS
  <2> QED
    BY <2>1, FS_EmptySet
<1>5. Cardinality(discarded \cup SeqDocs(docs)) =
        Cardinality(discarded) + Cardinality(SeqDocs(docs)) - Cardinality(discarded \cap SeqDocs(docs))
  BY <1>2, <1>3, FS_Union
<1>6. Len(docs) \in Nat /\ dropped \in Nat
  BY DEF TypeOK
<1>7. /\ dropped' = dropped + Len(docs)
      /\ discarded' = discarded \cup SeqDocs(docs)
  BY DEF Lose
<1>8. SeqDocs(docs) \subseteq Docs
  BY SeqDocsEmpty
<1>9. dropped + Len(docs) = Cardinality(discarded \cup SeqDocs(docs))
  BY <1>3, <1>4, <1>5, <1>6
<1> QED
  BY <1>6, <1>7, <1>8, <1>9 DEF TypeOK

-----------------------------------------------------------------------------
(* Each action keeps the invariant.                                        *)

LEMMA WriteKeeps == IInv /\ Write => IInv'
<1> SUFFICES ASSUME IInv, Write PROVE IInv'
  OBVIOUS
<1>0. /\ TypeOK /\ Accounted /\ Phases /\ CloseOrder /\ BufferRoom
      /\ dropped = Cardinality(discarded)
  BY DEF IInv
<1>1. /\ closer = "open" /\ flush["output"].pc = "idle"
      /\ count' = count + 1 /\ count \in Nat /\ count + 1 \in Docs
      /\ buffer' = Append(buffer, count + 1)
      /\ UNCHANGED <<pending, cancelled, closer, dropped, indexed, acked, discarded>>
  BY <1>0, OpenSearchAssumption DEF Write, TypeOK, Docs
<1>2. PICK pc \in {"idle", "take"} :
        /\ pc = IF Len(buffer) + 1 >= BulkSize THEN "take" ELSE "idle"
        /\ flush' = [flush EXCEPT !["output"].pc = pc]
  BY DEF Write
<1>3. /\ flush' \in [Flushers -> Progress]
      /\ flush'["output"].pc = pc
      /\ flush'["output"].cur = flush["output"].cur
      /\ flush'["output"].batch = flush["output"].batch
      /\ flush'["loop"] = flush["loop"]
  BY <1>0, <1>2, PcUpdate DEF Flushers
<1>4. \A g \in Flushers : flush'[g].cur = flush[g].cur /\ flush'[g].batch = flush[g].batch
  BY <1>3 DEF Flushers
<1>5. Account(buffer, pending, flush', acked, discarded, count)
  BY <1>0, <1>4, Stays DEF Accounted
<1>6. buffer \in Seq(Docs) /\ Len(buffer) < BulkSize
  BY <1>0, <1>1 DEF TypeOK, BufferRoom
<1>7. count + 1 \notin 1..count /\ 1..(count + 1) = 1..count \cup {count + 1}
  BY <1>1
<1>8. count + 1 \notin SeqDocs(buffer)
  BY <1>5, <1>7 DEF Account
<1>9. /\ buffer' \in Seq(Docs)
      /\ Len(buffer') = Len(buffer) + 1
      /\ SeqDocs(buffer') = SeqDocs(buffer) \cup {count + 1}
      /\ NoRepeats(buffer')
  <2>1. NoRepeats(buffer)
    BY <1>5 DEF Account
  <2> QED
    BY <1>1, <1>6, <1>8, <2>1, SeqDocsAppend
<1>10. Accounted'
  <2>1. /\ count + 1 \notin acked /\ count + 1 \notin discarded /\ count + 1 \notin SeqDocs(pending)
        /\ \A f \in Flushers : count + 1 \notin Holds(flush'[f])
    BY <1>5, <1>7 DEF Account
  <2>2. Account(buffer', pending, flush', acked, discarded, count')
    <3>1. 1..count' = acked \cup discarded \cup SeqDocs(buffer') \cup SeqDocs(pending)
                        \cup UNION {Holds(flush'[f]) : f \in Flushers}
      <4>1. 1..count = acked \cup discarded \cup SeqDocs(buffer) \cup SeqDocs(pending)
                         \cup UNION {Holds(flush'[f]) : f \in Flushers}
        BY <1>5 DEF Account
      <4>2. PICK u : u = UNION {Holds(flush'[f]) : f \in Flushers}
        OBVIOUS
      <4>3. 1..count = acked \cup discarded \cup SeqDocs(buffer) \cup SeqDocs(pending) \cup u
        BY <4>1, <4>2, Zenon
      <4>4. 1..count' = acked \cup discarded \cup SeqDocs(buffer') \cup SeqDocs(pending) \cup u
        BY <1>1, <1>7, <1>9, <4>3
      <4> QED
        BY <4>2, <4>4, Zenon
    <3>2. \A f \in Flushers : Holds(flush'[f]) \cap (SeqDocs(buffer') \cup SeqDocs(pending)) = {}
      BY <1>5, <1>9, <2>1 DEF Account
    <3>3. /\ SeqDocs(buffer') \cap SeqDocs(pending) = {}
          /\ (acked \cup discarded) \cap (SeqDocs(buffer') \cup SeqDocs(pending)) = {}
      BY <1>5, <1>9, <2>1 DEF Account
    <3> QED
      BY <1>5, <1>9, <3>1, <3>2, <3>3 DEF Account
  <2> QED
    BY <1>1, <2>2, AccountedPrime
<1>11. Phases'
  BY <1>0, <1>1, <1>2, <1>3 DEF Phases, InPhase, Flushers
<1>12. CloseOrder'
  BY <1>0, <1>1, <1>2, <1>3 DEF CloseOrder
<1>13. BufferRoom'
  BY <1>2, <1>3, <1>6, <1>9, OpenSearchAssumption DEF BufferRoom
<1>14. TypeOK'
  BY <1>0, <1>1, <1>3, <1>6, <1>9, OpenSearchAssumption DEF TypeOK, Docs
<1> QED
  BY <1>0, <1>1, <1>10, <1>11, <1>12, <1>13, <1>14 DEF IInv

\* Tick and LoopExit move only the program counter of flushLoop.
LEMMA LoopKeeps == IInv /\ (Tick \/ LoopExit) => IInv'
<1> SUFFICES ASSUME IInv, Tick \/ LoopExit PROVE IInv'
  OBVIOUS
<1>0. /\ TypeOK /\ Accounted /\ Phases /\ CloseOrder /\ BufferRoom
      /\ dropped = Cardinality(discarded)
  BY DEF IInv
<1>1. PICK pc \in {"take", "exited"} :
        /\ flush["loop"].pc = "idle"
        /\ pc = "take" \/ pc = "exited"
        /\ flush' = [flush EXCEPT !["loop"].pc = pc]
        /\ UNCHANGED <<count, buffer, pending, cancelled, closer, dropped, indexed, acked, discarded>>
  BY DEF Tick, LoopExit
<1>2. /\ flush' \in [Flushers -> Progress]
      /\ flush'["loop"].pc = pc
      /\ flush'["loop"].cur = flush["loop"].cur
      /\ flush'["loop"].batch = flush["loop"].batch
      /\ flush'["output"] = flush["output"]
  BY <1>0, <1>1, PcUpdate DEF Flushers
<1>3. \A g \in Flushers : flush'[g].cur = flush[g].cur /\ flush'[g].batch = flush[g].batch
  BY <1>2 DEF Flushers
<1>4. Accounted'
  BY <1>0, <1>1, <1>3, Stays, AccountedPrime DEF Accounted
<1>5. Phases'
  BY <1>0, <1>1, <1>2 DEF Phases, InPhase, Flushers
<1>6. CloseOrder' /\ BufferRoom'
  BY <1>0, <1>1, <1>2 DEF CloseOrder, BufferRoom
<1>7. TypeOK'
  BY <1>0, <1>1, <1>2 DEF TypeOK
<1> QED
  BY <1>0, <1>1, <1>4, <1>5, <1>6, <1>7 DEF IInv

LEMMA TakeKeeps == ASSUME IInv, NEW f \in Flushers, Take(f) PROVE IInv'
<1>0. /\ TypeOK /\ Accounted /\ Phases /\ CloseOrder /\ BufferRoom
      /\ dropped = Cardinality(discarded)
  BY DEF IInv
<1>1. /\ flush[f].pc = "take"
      /\ pending' = <<>> /\ buffer' = <<>>
      /\ UNCHANGED <<count, cancelled, closer, dropped, indexed, acked, discarded>>
  BY DEF Take, PendingTaken
<1>2. PICK r : r = IF pending # <<>>
                   THEN [pc |-> "pending", cur |-> pending, batch |-> buffer, tries |-> 0]
                   ELSE [pc |-> "batch", cur |-> buffer, batch |-> <<>>, tries |-> 0]
  OBVIOUS
<1>3. /\ <<>> \in Seq(Docs) /\ 0 \in 0..MaxRetries /\ Len(<<>>) = 0
      /\ buffer \in Seq(Docs) /\ pending \in Seq(Docs)
  BY <1>0, OpenSearchAssumption DEF TypeOK
<1>4. /\ r \in Progress
      /\ \/ r.pc = "pending" /\ r.cur = pending /\ r.batch = buffer
         \/ r.pc = "batch" /\ r.cur = buffer /\ r.batch = <<>> /\ pending = <<>>
  BY <1>2, <1>3 DEF Progress
<1>5. flush' = [flush EXCEPT ![f] = r]
  BY <1>2 DEF Take
<1>6. /\ flush' \in [Flushers -> Progress] /\ flush'[f] = r
      /\ \A g \in Flushers \ {f} : flush'[g] = flush[g]
  BY <1>0, <1>4, <1>5, FlushUpdate
<1>7. flush[f].cur = <<>> /\ flush[f].batch = <<>>
  BY <1>0, <1>1 DEF Phases, InPhase
<1>8. SeqDocs(<<>>) = {} /\ NoRepeats(<<>>)
  BY <1>3, SeqDocsEmpty
<1>9. Accounted'
  <2>1. Account(buffer, pending, flush, acked, discarded, count)
    BY <1>0 DEF Accounted
  <2>2. Holds(flush[f]) = {}
    BY <1>7, <1>8 DEF Holds
  <2>3. /\ Holds(r) = SeqDocs(buffer) \cup SeqDocs(pending)
        /\ SeqDocs(r.cur) \cap SeqDocs(r.batch) = {}
        /\ NoRepeats(r.cur) /\ NoRepeats(r.batch)
    BY <1>4, <1>8, <2>1 DEF Holds, Account
  <2>4. /\ acked \cap discarded = {}
        /\ (acked \cup discarded) \cap (SeqDocs(buffer) \cup SeqDocs(pending)) = {}
    BY <2>1 DEF Account
  <2>5. Account(<<>>, <<>>, flush', acked, discarded, count)
    BY <1>6, <1>8, <2>1, <2>2, <2>3, <2>4, Moves
  <2> QED
    BY <1>1, <2>5, AccountedPrime
<1>10. Phases'
  BY <1>0, <1>4, <1>6 DEF Phases, InPhase
<1>11. closer \notin {"waiting", "final", "closed"} \/ f = "loop"
  BY <1>0, <1>1 DEF CloseOrder, Flushers
<1>12. closer \notin {"final", "closed"}
  BY <1>0, <1>1, <1>11 DEF CloseOrder
<1>13. CloseOrder'
  BY <1>0, <1>1, <1>4, <1>6, <1>11, <1>12 DEF CloseOrder, Flushers
<1>14. BufferRoom'
  BY <1>1, <1>3, OpenSearchAssumption DEF BufferRoom
<1>15. TypeOK'
  <2>1. 0 <= BulkSize /\ 0 <= MaxPending
    BY OpenSearchAssumption
  <2> QED
    BY <1>0, <1>1, <1>3, <1>6, <2>1 DEF TypeOK
<1> QED
  BY <1>0, <1>1, <1>9, <1>10, <1>13, <1>14, <1>15 DEF IInv

LEMMA AttemptKeeps ==
  ASSUME IInv, NEW f \in Flushers, AttemptAnswered(f) \/ AttemptLost(f) \/ AttemptCancelled(f)
  PROVE  IInv'
<1>0. /\ TypeOK /\ Accounted /\ Phases /\ CloseOrder /\ BufferRoom
      /\ dropped = Cardinality(discarded)
  BY DEF IInv
<1>1. indexed' \in SUBSET Docs
  BY <1>0, AttemptLemma
<1>2. PICK ok \in SUBSET SeqDocs(flush[f].cur), failed \in Seq(Docs) :
        /\ NoRepeats(failed)
        /\ SeqDocs(failed) = SeqDocs(flush[f].cur) \ ok
        /\ Attempted(f, ok, failed)
  BY <1>0, AttemptLemma
<1>3. /\ acked' = acked \cup ok
      /\ UNCHANGED <<count, buffer, pending, cancelled>>
      /\ flush[f].pc \in {"pending", "batch", "final"}
  BY <1>2 DEF Attempted
<1>4. /\ flush' \in [Flushers -> Progress]
      /\ \A g \in Flushers \ {f} : flush'[g] = flush[g]
      /\ InPhase(flush'[f])
  BY <1>0, <1>2, OutcomeLemma
<1>5. PICK r, s : r = flush[f] /\ s = flush'[f]
  OBVIOUS
<1>6. \/ /\ failed = <<>>
         /\ s.cur = r.batch /\ s.batch = <<>>
         /\ s.pc \in {"batch", "idle"}
         /\ r.pc = "final" => s.pc = "idle"
         /\ closer' = IF r.pc = "final" THEN "closed" ELSE closer
         /\ UNCHANGED <<dropped, discarded>>
      \/ /\ s.cur = failed /\ s.batch = r.batch
         /\ s.pc = r.pc
         /\ UNCHANGED <<closer, dropped, discarded>>
      \/ /\ s.cur = failed /\ s.batch = r.batch
         /\ s.pc = "requeue" /\ r.pc # "final"
         /\ UNCHANGED <<closer, dropped, discarded>>
      \/ /\ s = Idle
         /\ r.pc = "final" /\ r.batch = <<>>
         /\ closer' = "closed"
         /\ Lose(failed)
  BY <1>0, <1>2, <1>5, OutcomeLemma
<1>7. Account(buffer, pending, flush, acked, discarded, count)
  BY <1>0 DEF Accounted
<1>8. /\ NoRepeats(buffer) /\ NoRepeats(pending) /\ NoRepeats(r.cur) /\ NoRepeats(r.batch)
      /\ SeqDocs(buffer) \cap SeqDocs(pending) = {}
      /\ SeqDocs(r.cur) \cap SeqDocs(r.batch) = {}
      /\ (SeqDocs(r.cur) \cup SeqDocs(r.batch)) \cap (SeqDocs(buffer) \cup SeqDocs(pending)) = {}
      /\ acked \cap discarded = {}
      /\ (acked \cup discarded) \cap (SeqDocs(buffer) \cup SeqDocs(pending)) = {}
      /\ (acked \cup discarded) \cap (SeqDocs(r.cur) \cup SeqDocs(r.batch)) = {}
  BY <1>5, <1>7 DEF Account, Holds
<1>9. SeqDocs(<<>>) = {} /\ NoRepeats(<<>>)
  BY <1>2, SeqDocsEmpty
<1>10. /\ dropped' \in Nat /\ discarded' \in SUBSET Docs
       /\ dropped' = Cardinality(discarded')
  <2>1. CASE UNCHANGED <<dropped, discarded>>
    BY <1>0, <2>1 DEF TypeOK
  <2>2. CASE Lose(failed)
    <3>1. SeqDocs(failed) \cap discarded = {}
      BY <1>2, <1>5, <1>8
    <3> QED
      BY <1>0, <1>2, <2>2, <3>1, LoseLemma
  <2> QED
    BY <1>6, <2>1, <2>2
<1>11. /\ NoRepeats(s.cur) /\ NoRepeats(s.batch)
       /\ SeqDocs(s.cur) \cap SeqDocs(s.batch) = {}
       /\ Holds(s) \cap (SeqDocs(buffer) \cup SeqDocs(pending)) = {}
       /\ acked' \cap discarded' = {}
       /\ (acked' \cup discarded') \cap (SeqDocs(buffer) \cup SeqDocs(pending)) = {}
       /\ (acked' \cup discarded') \cap Holds(s) = {}
       /\ acked' \cup discarded' \cup Holds(s) = acked \cup discarded \cup Holds(r)
  <2>1. SeqDocs(failed) = SeqDocs(r.cur) \ ok /\ ok \subseteq SeqDocs(r.cur)
    BY <1>2, <1>5
  <2>2. CASE failed = <<>> /\ s.cur = r.batch /\ s.batch = <<>> /\ discarded' = discarded
    BY <1>3, <1>8, <1>9, <2>1, <2>2 DEF Holds
  <2>3. CASE s.cur = failed /\ s.batch = r.batch /\ discarded' = discarded
    BY <1>2, <1>3, <1>8, <2>1, <2>3 DEF Holds
  <2>4. CASE s = Idle /\ r.batch = <<>> /\ Lose(failed)
    <3>1. discarded' = discarded \cup SeqDocs(failed)
      BY <2>4 DEF Lose
    <3> QED
      BY <1>2, <1>3, <1>8, <1>9, <2>1, <2>4, <3>1, IdleFields DEF Holds
  <2> QED
    BY <1>6, <2>2, <2>3, <2>4
<1>12. Accounted'
  <2>1. acked' \cup discarded' \cup SeqDocs(buffer) \cup SeqDocs(pending) \cup Holds(s)
          = acked \cup discarded \cup SeqDocs(buffer) \cup SeqDocs(pending) \cup Holds(r)
    BY <1>11
  <2>2. Account(buffer, pending, flush', acked', discarded', count)
    BY <1>4, <1>5, <1>7, <1>8, <1>11, <2>1, Moves
  <2> QED
    BY <1>3, <2>2, AccountedPrime
<1>13. Phases'
  BY <1>0, <1>4 DEF Phases, InPhase
<1>14. s.pc \in {"pending", "batch", "final", "idle", "requeue"} /\ s.pc # "take"
  BY <1>3, <1>5, <1>6, IdleFields
<1>15. BufferRoom'
  <2>1. flush[f].pc # "take"
    BY <1>3
  <2> QED
    BY <1>0, <1>3, <1>4, <1>5, <1>14, <2>1 DEF BufferRoom, Flushers
<1>16. CloseOrder'
  <2>1. CASE f = "loop"
    <3>1. /\ flush'["output"] = flush["output"]
          /\ r.pc # "final" /\ s.pc # "final"
          /\ closer' = closer /\ closer \notin {"final", "closed"}
      BY <1>0, <1>3, <1>4, <1>5, <1>6, <2>1, IdleFields DEF CloseOrder, Flushers
    <3> QED
      BY <1>0, <1>3, <1>5, <2>1, <3>1 DEF CloseOrder
  <2>2. CASE f = "output"
    <3>1. flush'["loop"] = flush["loop"]
      BY <1>4, <2>2 DEF Flushers
    <3>2. closer \notin {"waiting", "closed"}
      BY <1>0, <1>3, <2>2 DEF CloseOrder
    <3>3. CASE r.pc = "final"
      <4>1. closer = "final"
        BY <1>0, <1>5, <2>2, <3>3 DEF CloseOrder
      <4>2. \/ s.pc = "final" /\ closer' = "final"
            \/ s.pc = "idle" /\ closer' = "closed"
        BY <1>6, <3>3, <4>1, IdleFields
      <4> QED
        BY <1>0, <1>3, <1>5, <2>2, <3>1, <4>1, <4>2 DEF CloseOrder
    <3>4. CASE r.pc # "final"
      <4>1. closer # "final"
        BY <1>0, <1>5, <2>2, <3>4 DEF CloseOrder
      <4>2. s.pc # "final" /\ closer' = closer
        BY <1>6, <3>4
      <4> QED
        BY <1>0, <1>3, <1>5, <2>2, <3>1, <3>2, <4>1, <4>2 DEF CloseOrder
    <3> QED
      BY <3>3, <3>4
  <2> QED
    BY <2>1, <2>2 DEF Flushers
<1>17. TypeOK'
  <2>1. acked' \in SUBSET Docs
    <3>1. flush[f].cur \in Seq(Docs)
      BY <1>0, ProgressFields DEF TypeOK
    <3>2. SeqDocs(flush[f].cur) \subseteq Docs
      BY <3>1, SeqDocsEmpty
    <3> QED
      BY <1>0, <1>3, <3>2 DEF TypeOK
  <2>2. closer' \in {"open", "waiting", "final", "closed"}
    BY <1>0, <1>6 DEF TypeOK
  <2> QED
    BY <1>0, <1>1, <1>3, <1>4, <1>10, <2>1, <2>2 DEF TypeOK
<1> QED
  BY <1>10, <1>12, <1>13, <1>15, <1>16, <1>17 DEF IInv

LEMMA RequeueKeeps == ASSUME IInv, NEW f \in Flushers, Requeue(f) PROVE IInv'
<1>0. /\ TypeOK /\ Accounted /\ Phases /\ CloseOrder /\ BufferRoom
      /\ dropped = Cardinality(discarded)
  BY DEF IInv
<1>1. PICK r, all, ex : r = flush[f] /\ all = pending \o r.cur /\ ex = Excess(Len(all))
  OBVIOUS
<1>2. /\ r.pc = "requeue"
      /\ pending' = SubSeq(all, ex + 1, Len(all))
      /\ Lose(SubSeq(all, 1, ex))
      /\ UNCHANGED <<count, buffer, cancelled, closer, indexed, acked>>
  BY <1>1 DEF Requeue
<1>3. /\ r \in Progress /\ r.cur \in Seq(Docs) /\ r.batch \in Seq(Docs)
      /\ pending \in Seq(Docs) /\ buffer \in Seq(Docs)
  BY <1>0, <1>1, ProgressFields DEF TypeOK
<1>4. Account(buffer, pending, flush, acked, discarded, count)
  BY <1>0 DEF Accounted
<1>5. /\ NoRepeats(buffer) /\ NoRepeats(pending) /\ NoRepeats(r.cur) /\ NoRepeats(r.batch)
      /\ SeqDocs(buffer) \cap SeqDocs(pending) = {}
      /\ SeqDocs(r.cur) \cap SeqDocs(r.batch) = {}
      /\ (SeqDocs(r.cur) \cup SeqDocs(r.batch)) \cap (SeqDocs(buffer) \cup SeqDocs(pending)) = {}
      /\ acked \cap discarded = {}
      /\ (acked \cup discarded) \cap (SeqDocs(buffer) \cup SeqDocs(pending)) = {}
      /\ (acked \cup discarded) \cap (SeqDocs(r.cur) \cup SeqDocs(r.batch)) = {}
  BY <1>1, <1>4 DEF Account, Holds
<1>6. /\ all \in Seq(Docs) /\ NoRepeats(all)
      /\ SeqDocs(all) = SeqDocs(pending) \cup SeqDocs(r.cur)
  <2>1. SeqDocs(pending) \cap SeqDocs(r.cur) = {}
    BY <1>5
  <2> QED
    BY <1>1, <1>3, <1>5, <2>1, SeqDocsConcat
<1>7. ex \in 0..Len(all) /\ Len(all) - ex <= MaxPending
  BY <1>1, <1>6, OpenSearchAssumption DEF Excess
<1>8. PICK old, new : old = SubSeq(all, 1, ex) /\ new = SubSeq(all, ex + 1, Len(all))
  OBVIOUS
<1>9. /\ old \in Seq(Docs) /\ NoRepeats(old)
      /\ new \in Seq(Docs) /\ Len(new) = Len(all) - ex /\ NoRepeats(new)
      /\ SeqDocs(all) = SeqDocs(old) \cup SeqDocs(new)
      /\ SeqDocs(old) \cap SeqDocs(new) = {}
  BY <1>6, <1>7, <1>8, SeqDocsCut
<1>10. pending' = new /\ Lose(old)
  BY <1>2, <1>8
<1>11. /\ dropped' \in Nat /\ discarded' \in SUBSET Docs
       /\ discarded' = discarded \cup SeqDocs(old)
       /\ dropped' = Cardinality(discarded')
  <2>1. SeqDocs(old) \cap discarded = {}
    BY <1>5, <1>6, <1>9
  <2> QED
    BY <1>0, <1>9, <1>10, <2>1, LoseLemma
<1>12. PICK s : s = IF r.batch = <<>> THEN Idle
                    ELSE [pc |-> "requeue", cur |-> r.batch, batch |-> <<>>, tries |-> 0]
  OBVIOUS
<1>13. /\ s \in Progress /\ s.pc \in {"idle", "requeue"}
       /\ s.cur = r.batch /\ s.batch = <<>>
       /\ s.pc = "idle" => s.cur = <<>>
  <2>1. <<>> \in Seq(Docs) /\ 0 \in 0..MaxRetries
    BY OpenSearchAssumption
  <2>2. CASE r.batch = <<>>
    BY <1>12, <2>2, IdleFields
  <2>3. CASE r.batch # <<>>
    BY <1>3, <1>12, <2>1, <2>3 DEF Progress
  <2> QED
    BY <2>2, <2>3
<1>14. flush' = [flush EXCEPT ![f] = s]
  BY <1>1, <1>12 DEF Requeue
<1>15. /\ flush' \in [Flushers -> Progress] /\ flush'[f] = s
       /\ \A g \in Flushers \ {f} : flush'[g] = flush[g]
  BY <1>0, <1>13, <1>14, FlushUpdate
<1>16. Accounted'
  <2>1. SeqDocs(<<>>) = {} /\ NoRepeats(<<>>)
    BY <1>3, SeqDocsEmpty
  <2>2. Holds(s) = SeqDocs(r.batch) /\ Holds(r) = SeqDocs(r.cur) \cup SeqDocs(r.batch)
    BY <1>13, <2>1 DEF Holds
  <2>3. /\ NoRepeats(s.cur) /\ NoRepeats(s.batch)
        /\ SeqDocs(s.cur) \cap SeqDocs(s.batch) = {}
        /\ SeqDocs(buffer) \cap SeqDocs(new) = {}
        /\ Holds(s) \cap (SeqDocs(buffer) \cup SeqDocs(new)) = {}
        /\ acked \cap discarded' = {}
        /\ (acked \cup discarded') \cap (SeqDocs(buffer) \cup SeqDocs(new)) = {}
        /\ (acked \cup discarded') \cap Holds(s) = {}
        /\ acked \cup discarded' \cup SeqDocs(buffer) \cup SeqDocs(new) \cup Holds(s)
             = acked \cup discarded \cup SeqDocs(buffer) \cup SeqDocs(pending) \cup Holds(r)
    BY <1>5, <1>6, <1>9, <1>11, <1>13, <2>1, <2>2
  <2>4. Account(buffer, new, flush', acked, discarded', count)
    <3>1. PICK fl2, d2 : fl2 = flush' /\ d2 = discarded'
      OBVIOUS
    <3>2. Account(buffer, pending, flush, acked, discarded, count) /\ f \in Flushers
      BY <1>1, <1>4
    <3>3. NoRepeats(buffer) /\ NoRepeats(new)
      BY <1>5, <1>9
    <3>4. fl2[f] = s /\ flush[f] = r /\ \A g \in Flushers \ {f} : fl2[g] = flush[g]
      BY <1>1, <1>15, <3>1
    <3>5. Account(buffer, new, fl2, acked, d2, count)
      BY <2>3, <3>1, <3>2, <3>3, <3>4, Moves
    <3> QED
      BY <3>1, <3>5
  <2> QED
    BY <1>2, <1>10, <2>4, AccountedPrime
<1>17. Phases'
  BY <1>0, <1>13, <1>15 DEF Phases, InPhase
<1>18. CloseOrder'
  <2>1. closer \notin {"waiting", "final", "closed"} \/ f = "loop"
    BY <1>0, <1>1, <1>2 DEF CloseOrder, Flushers
  <2>2. closer \notin {"final", "closed"}
    BY <1>0, <1>1, <1>2, <2>1 DEF CloseOrder
  <2> QED
    BY <1>0, <1>1, <1>2, <1>13, <1>15, <2>1, <2>2 DEF CloseOrder, Flushers
<1>19. BufferRoom'
  BY <1>0, <1>1, <1>2, <1>13, <1>15 DEF BufferRoom, Flushers
<1>20. TypeOK'
  BY <1>0, <1>2, <1>7, <1>9, <1>10, <1>11, <1>15 DEF TypeOK
<1> QED
  BY <1>11, <1>16, <1>17, <1>18, <1>19, <1>20 DEF IInv

LEMMA CloseKeeps == IInv /\ (CloseCancel \/ FinalFlush) => IInv'
<1> SUFFICES ASSUME IInv, CloseCancel \/ FinalFlush PROVE IInv'
  OBVIOUS
<1>0. /\ TypeOK /\ Accounted /\ Phases /\ CloseOrder /\ BufferRoom
      /\ dropped = Cardinality(discarded)
  BY DEF IInv
<1>1. CASE CloseCancel
  <2>1. /\ UNCHANGED <<count, buffer, pending, flush, dropped, indexed, acked, discarded>>
        /\ closer = "open" /\ closer' = "waiting" /\ cancelled' = TRUE
        /\ flush["output"].pc = "idle"
    BY <1>1 DEF CloseCancel
  <2>2. Accounted'
    BY <1>0, <2>1, AccountedPrime DEF Accounted
  <2>3. TypeOK'
    BY <1>0, <2>1 DEF TypeOK
  <2> QED
    BY <1>0, <2>1, <2>2, <2>3 DEF IInv, Phases, InPhase, CloseOrder, BufferRoom
<1>2. CASE FinalFlush
  <2>1. PICK docs : docs = pending \o buffer
    OBVIOUS
  <2>2. /\ closer = "waiting" /\ flush["loop"].pc = "exited"
        /\ pending' = <<>> /\ buffer' = <<>>
        /\ UNCHANGED <<count, cancelled, dropped, indexed, acked, discarded>>
        /\ flush["output"].pc = "idle"
    BY <1>0, <1>2 DEF FinalFlush, LoopGone, CloseOrder
  <2>3. pending \in Seq(Docs) /\ buffer \in Seq(Docs) /\ <<>> \in Seq(Docs) /\ Len(<<>>) = 0
    BY <1>0 DEF TypeOK
  <2>4. Account(buffer, pending, flush, acked, discarded, count)
    BY <1>0 DEF Accounted
  <2>5. /\ NoRepeats(buffer) /\ NoRepeats(pending)
        /\ SeqDocs(buffer) \cap SeqDocs(pending) = {}
        /\ acked \cap discarded = {}
        /\ (acked \cup discarded) \cap (SeqDocs(buffer) \cup SeqDocs(pending)) = {}
    BY <2>4 DEF Account
  <2>6. /\ docs \in Seq(Docs) /\ NoRepeats(docs)
        /\ SeqDocs(docs) = SeqDocs(pending) \cup SeqDocs(buffer)
    <3>1. SeqDocs(pending) \cap SeqDocs(buffer) = {}
      BY <2>5
    <3> QED
      BY <2>1, <2>3, <2>5, <3>1, SeqDocsConcat
  <2>7. PICK r : r = IF docs = <<>> THEN flush["output"]
                     ELSE [pc |-> "final", cur |-> docs, batch |-> <<>>, tries |-> 0]
    OBVIOUS
  <2>8. flush["output"].cur = <<>> /\ flush["output"].batch = <<>> /\ flush["output"] \in Progress
    BY <1>0, <2>2 DEF Phases, InPhase, Flushers, TypeOK
  <2>9. /\ r \in Progress
        /\ r.cur = docs /\ r.batch = <<>>
        /\ \/ docs = <<>> /\ r.pc = "idle" /\ closer' = "closed"
           \/ docs # <<>> /\ r.pc = "final" /\ closer' = "final"
    <3>1. 0 \in 0..MaxRetries
      BY OpenSearchAssumption
    <3>2. CASE docs = <<>>
      BY <1>2, <2>1, <2>2, <2>7, <2>8, <3>2 DEF FinalFlush
    <3>3. CASE docs # <<>>
      <4>1. closer' = "final"
        BY <1>2, <2>1, <3>3 DEF FinalFlush
      <4> QED
        BY <2>3, <2>6, <2>7, <3>1, <3>3, <4>1 DEF Progress
    <3> QED
      BY <3>2, <3>3
  <2>10. flush' = [flush EXCEPT !["output"] = r]
    <3>1. CASE docs = <<>>
      BY <1>0, <1>2, <2>1, <2>7, <3>1 DEF FinalFlush, TypeOK
    <3>2. CASE docs # <<>>
      BY <1>2, <2>1, <2>7, <3>2 DEF FinalFlush
    <3> QED
      BY <3>1, <3>2
  <2>11. /\ flush' \in [Flushers -> Progress] /\ flush'["output"] = r
         /\ \A g \in Flushers \ {"output"} : flush'[g] = flush[g]
    BY <1>0, <2>9, <2>10, FlushUpdate DEF Flushers
  <2>12. Accounted'
    <3>1. SeqDocs(<<>>) = {} /\ NoRepeats(<<>>)
      BY <2>3, SeqDocsEmpty
    <3>2. Holds(r) = SeqDocs(buffer) \cup SeqDocs(pending) /\ Holds(flush["output"]) = {}
      BY <2>6, <2>8, <2>9, <3>1 DEF Holds
    <3>3. "output" \in Flushers
      BY DEF Flushers
    <3>4. NoRepeats(r.cur) /\ NoRepeats(r.batch) /\ SeqDocs(r.cur) \cap SeqDocs(r.batch) = {}
      BY <2>6, <2>9, <3>1
    <3>5. Account(<<>>, <<>>, flush', acked, discarded, count)
      BY <2>4, <2>5, <2>11, <3>1, <3>2, <3>3, <3>4, Moves
    <3> QED
      BY <2>2, <3>5, AccountedPrime
  <2>13. Phases'
    BY <1>0, <2>9, <2>11 DEF Phases, InPhase
  <2>14. flush'["loop"] = flush["loop"]
    BY <2>11 DEF Flushers
  <2>15. CloseOrder'
    BY <2>2, <2>9, <2>11, <2>14 DEF CloseOrder
  <2>16. BufferRoom' /\ 0 <= BulkSize /\ 0 <= MaxPending
    BY <2>2, <2>3, OpenSearchAssumption DEF BufferRoom
  <2>17. TypeOK'
    BY <1>0, <2>2, <2>3, <2>9, <2>11, <2>16 DEF TypeOK
  <2> QED
    BY <1>0, <2>2, <2>12, <2>13, <2>15, <2>16, <2>17 DEF IInv
<1> QED
  BY <1>1, <1>2

LEMMA InvariantInit == Init => IInv
<1> SUFFICES ASSUME Init PROVE IInv
  OBVIOUS
<1>0. <<>> \in Seq(Docs) /\ Len(<<>>) = 0
  OBVIOUS
<1>1. SeqDocs(<<>>) = {} /\ NoRepeats(<<>>)
  BY <1>0 DEF SeqDocs, NoRepeats
<1>2. \A f \in Flushers : flush[f] = Idle
  BY DEF Init
<1>3. 0 \in 0..MaxDocs /\ 0 <= BulkSize /\ 0 < BulkSize /\ 0 <= MaxPending /\ 1..0 = {}
  BY OpenSearchAssumption
<1>4. TypeOK
  BY <1>0, <1>1, <1>2, <1>3, IdleFields DEF Init, TypeOK
<1>5. \A f \in Flushers : Holds(flush[f]) = {}
  BY <1>0, <1>1, <1>2, IdleFields DEF Holds
<1>6. Account(buffer, pending, flush, acked, discarded, count)
  BY <1>0, <1>1, <1>2, <1>3, <1>5, IdleFields DEF Init, Account
<1>7. dropped = Cardinality(discarded)
  BY FS_EmptySet DEF Init
<1>8. Phases /\ CloseOrder /\ BufferRoom
  BY <1>0, <1>1, <1>2, <1>3, IdleFields DEF Init, Phases, InPhase, CloseOrder, BufferRoom, Flushers
<1> QED
  BY <1>4, <1>6, <1>7, <1>8 DEF IInv, Accounted

LEMMA InvariantHolds == Spec => []IInv
<1>1. IInv /\ [Next]_vars => IInv'
  <2> SUFFICES ASSUME IInv, [Next]_vars PROVE IInv'
    OBVIOUS
  <2>1. CASE UNCHANGED vars
    <3>1. Accounted'
      BY <2>1, AccountedPrime DEF IInv, Accounted, vars
    <3> QED
      BY <2>1, <3>1 DEF IInv, TypeOK, Phases, InPhase, CloseOrder, BufferRoom, vars
  <2> QED
    BY <2>1, WriteKeeps, LoopKeeps, TakeKeeps, AttemptKeeps, RequeueKeeps, CloseKeeps
       DEF Next, Send
<1> QED
  BY <1>1, InvariantInit, PTL DEF Spec

-----------------------------------------------------------------------------
(* The theorems.                                                           *)

\* Every document written is held, acknowledged or dropped and counted, and a
\* closed writer holds none; the buffer and the retry queue are bounded.
THEOREM LossIsCounted == Spec => []NoSilentLoss
<1>1. IInv => NoSilentLoss
  <2> SUFFICES ASSUME IInv PROVE NoSilentLoss
    OBVIOUS
  <2>1. Account(buffer, pending, flush, acked, discarded, count)
    BY DEF IInv, Accounted
  <2>2. InFlight = UNION {Holds(flush[f]) : f \in Flushers}
    BY DEF InFlight, Holds
  <2>3. 1..count = Kept \cup acked \cup discarded
    BY <2>1, <2>2 DEF Account, Kept
  <2>4. ASSUME closer = "closed" PROVE Kept = {}
    <3>1. buffer = <<>> /\ pending = <<>> /\ \A f \in Flushers : flush[f].pc \in {"idle", "exited"}
      BY <2>4 DEF IInv, CloseOrder, Flushers
    <3>2. \A f \in Flushers : flush[f].cur = <<>> /\ flush[f].batch = <<>>
      BY <3>1 DEF IInv, Phases, InPhase
    <3>3. SeqDocs(<<>>) = {}
      BY DEF SeqDocs
    <3> QED
      BY <3>1, <3>2, <3>3 DEF Kept, InFlight
  <2> QED
    BY <2>3, <2>4 DEF IInv, NoSilentLoss
<1> QED
  BY <1>1, InvariantHolds, PTL

\* No document is held in two places or twice in one, though the flushes of the
\* two goroutines overlap, and none that is acknowledged is sent again or dropped.
THEOREM SingleCopy == Spec => []HeldOnce
<1>1. IInv => HeldOnce
  <2> SUFFICES ASSUME IInv PROVE HeldOnce
    OBVIOUS
  <2>1. Account(buffer, pending, flush, acked, discarded, count)
    BY DEF IInv, Accounted
  <2> DEFINE held == <<buffer, pending, flush["output"].cur, flush["output"].batch,
                       flush["loop"].cur, flush["loop"].batch>>
  <2>2. /\ buffer \in Seq(Docs) /\ pending \in Seq(Docs)
        /\ \A f \in Flushers : flush[f].cur \in Seq(Docs) /\ flush[f].batch \in Seq(Docs)
    BY ProgressFields DEF IInv, TypeOK
  <2>3. \A i \in 1..6 : held[i] \in Seq(Docs) /\ NoRepeats(held[i])
    <3>1. \A i \in 1..6 : i \in {1, 2, 3, 4, 5, 6}
      OBVIOUS
    <3> QED
      BY <2>1, <2>2, <3>1 DEF Account, Flushers
  <2>4. \A i \in 1..6 : Cardinality(SeqDocs(held[i])) = Len(held[i])
    BY <2>3, SeqDocsCardinality
  <2>5. ASSUME NEW i \in 1..6, NEW j \in 1..6, i < j
        PROVE  SeqDocs(held[i]) \cap SeqDocs(held[j]) = {}
    <3>1. /\ SeqDocs(buffer) \cap SeqDocs(pending) = {}
          /\ \A f \in Flushers :
               /\ SeqDocs(flush[f].cur) \cap SeqDocs(flush[f].batch) = {}
               /\ SeqDocs(buffer) \cap SeqDocs(flush[f].cur) = {}
               /\ SeqDocs(buffer) \cap SeqDocs(flush[f].batch) = {}
               /\ SeqDocs(pending) \cap SeqDocs(flush[f].cur) = {}
               /\ SeqDocs(pending) \cap SeqDocs(flush[f].batch) = {}
      BY <2>1 DEF Account, Holds
    <3>2. /\ SeqDocs(flush["output"].cur) \cap SeqDocs(flush["loop"].cur) = {}
          /\ SeqDocs(flush["output"].cur) \cap SeqDocs(flush["loop"].batch) = {}
          /\ SeqDocs(flush["output"].batch) \cap SeqDocs(flush["loop"].cur) = {}
          /\ SeqDocs(flush["output"].batch) \cap SeqDocs(flush["loop"].batch) = {}
      BY <2>1 DEF Account, Holds, Flushers
    <3>3. "output" \in Flushers /\ "loop" \in Flushers
      BY DEF Flushers
    <3>4. CASE i = 1
      BY <2>5, <3>1, <3>3, <3>4
    <3>5. CASE i = 2
      BY <2>5, <3>1, <3>3, <3>5
    <3>6. CASE i = 3
      BY <2>5, <3>1, <3>2, <3>3, <3>6
    <3>7. CASE i = 4
      BY <2>5, <3>2, <3>7
    <3>8. CASE i = 5
      BY <2>5, <3>1, <3>3, <3>8
    <3> QED
      BY <2>5, <3>4, <3>5, <3>6, <3>7, <3>8
  <2>6. \A i, j \in 1..6 : i # j => SeqDocs(held[i]) \cap SeqDocs(held[j]) = {}
    <3> HIDE DEF held
    <3>1. SUFFICES ASSUME NEW i \in 1..6, NEW j \in 1..6, i # j
                   PROVE  SeqDocs(held[i]) \cap SeqDocs(held[j]) = {}
      OBVIOUS
    <3>2. i < j \/ j < i
      BY <3>1
    <3> QED
      BY <2>5, <3>2
  <2>7. acked \cap (Kept \cup discarded) = {}
    <3>1. InFlight = UNION {Holds(flush[f]) : f \in Flushers}
      BY DEF InFlight, Holds
    <3> QED
      BY <2>1, <3>1 DEF Account, Kept
  <2> QED
    BY <2>4, <2>6, <2>7 DEF HeldOnce
<1> QED
  BY <1>1, InvariantHolds, PTL

=============================================================================
