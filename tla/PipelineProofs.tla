--------------------------- MODULE PipelineProofs ---------------------------
(***************************************************************************)
(* The safety properties of Pipeline, proved for any sources, any number   *)
(* of lines and any capacities.  What the aggregator does with the lines   *)
(* it is given comes from its own proofs: AggregatorProofs.                *)
(***************************************************************************)
EXTENDS Pipeline, TLAPS

AggProof == INSTANCE AggregatorProofs

-----------------------------------------------------------------------------
(* The inductive invariant.                                                *)

\* In the queue q, the lines of a source are in the order of the source.
Ordered(q) ==
    \A i, j \in 1..Len(q) : i < j /\ q[i][1] = q[j][1] => q[i][2] < q[j][2]

\* The lines of w come before those of q, source by source.
Before(w, q) ==
    \A i \in 1..Len(w), j \in 1..Len(q) : w[i][1] = q[j][1] => w[i][2] < q[j][2]

\* The lines received are written or have come before those in the channel.
InOrder == Ordered(written) /\ Ordered(logChan) /\ Before(written, logChan)

\* A tailer has sent the lines it read, except the one in its hand; its offset counts
\* them, and does not count the one just sent.
Reading ==
    \A s \in Sources :
        /\ offset[s] <= read[s]
        /\ tailer[s] \in {"sending", "sent"} => offset[s] < read[s]
        /\ \A n \in 1..MaxLines :
              <<s, n>> \in sent => /\ n <= read[s]
                                   /\ tailer[s] = "sending" => n < read[s]

\* A line that was sent is in the channel, with the aggregator, written or filtered
\* out; without the aggregator nothing is with it, with it nothing is written here.
Places ==
    /\ sent = SeqLines(logChan) \cup SeqLines(written) \cup filtered \cup accepted
    /\ SeqLines(logChan) \cap (SeqLines(written) \cup filtered \cup accepted) = {}
    /\ accepted \cap (SeqLines(written) \cup filtered) = {}
    /\ aggregate => written = <<>>
    /\ ~aggregate => accepted = {}

\* The sweep starts when tm.stopped is closed and ends with an empty channel: what
\* comes into it afterwards was not sent in time.
Sweeping ==
    /\ inTime \subseteq sent
    /\ pipe \in {"sweeping", "returned", "exit"} => stopped
    /\ pipe \in {"returned", "exit"} => inTime \cap SeqLines(logChan) = {}

OwnTypes ==
    /\ aggregate \in Modes
    /\ logChan \in Seq(Lines)
    /\ Len(logChan) <= LogCap
    /\ errChan \in 0..ErrCap
    /\ tailer \in [Sources -> {"reading", "sending", "sent", "failing", "exited"}]
    /\ read \in [Sources -> 0..MaxLines]
    /\ offset \in [Sources -> 0..MaxLines]
    /\ ctxDone \in BOOLEAN
    /\ stopped \in BOOLEAN
    /\ pipe \in {"running", "flushed", "draining", "sweeping", "returned", "exit"}
    /\ saved \in [Sources -> 0..MaxLines]
    /\ written \in Seq(Lines)
    /\ filtered \in SUBSET Lines
    /\ sent \in SUBSET Lines
    /\ inTime \in SUBSET Lines

\* The pipeline's part; the aggregator's is AggProof!IInv.
IInv == OwnTypes /\ Reading /\ InOrder /\ Places /\ Sweeping

-----------------------------------------------------------------------------
(* Queues of lines.                                                        *)

LEMMA AppendOf ==
  ASSUME NEW S, NEW q \in Seq(S), NEW e \in S
  PROVE  /\ Append(q, e) \in Seq(S)
         /\ Len(q) \in Nat
         /\ Len(Append(q, e)) = Len(q) + 1
         /\ \A i \in 1..Len(q) : Append(q, e)[i] = q[i]
         /\ Append(q, e)[Len(q) + 1] = e
  OBVIOUS

LEMMA TailOf ==
  ASSUME NEW S, NEW q \in Seq(S), q # <<>>
  PROVE  /\ Tail(q) \in Seq(S)
         /\ Head(q) = q[1] /\ Head(q) \in S
         /\ Len(q) \in Nat /\ 1 <= Len(q)
         /\ Len(Tail(q)) = Len(q) - 1
         /\ \A i \in 1..Len(Tail(q)) : Tail(q)[i] = q[i + 1]
  OBVIOUS

LEMMA LinesOfEmpty == SeqLines(<<>>) = {}
  BY DEF SeqLines

LEMMA LinesOfAppend ==
  ASSUME NEW S, NEW q \in Seq(S), NEW e \in S
  PROVE  SeqLines(Append(q, e)) = SeqLines(q) \cup {e}
<1>1. PICK g : g = Append(q, e)
  OBVIOUS
<1>2. /\ Len(q) \in Nat
      /\ Len(g) = Len(q) + 1
      /\ \A i \in 1..Len(q) : g[i] = q[i]
      /\ g[Len(q) + 1] = e
  BY <1>1, AppendOf
<1>3. 1..Len(g) = 1..Len(q) \cup {Len(q) + 1}
  BY <1>2
<1>4. SeqLines(g) = SeqLines(q) \cup {e}
  BY <1>2, <1>3 DEF SeqLines
<1> QED
  BY <1>1, <1>4

LEMMA LinesOfTail ==
  ASSUME NEW S, NEW q \in Seq(S), q # <<>>
  PROVE  SeqLines(q) = SeqLines(Tail(q)) \cup {Head(q)}
<1>1. PICK t, h : t = Tail(q) /\ h = Head(q)
  OBVIOUS
<1>2. /\ h = q[1] /\ Len(q) \in Nat /\ 1 <= Len(q) /\ Len(t) = Len(q) - 1
      /\ \A i \in 1..Len(t) : t[i] = q[i + 1]
  BY <1>1, TailOf
<1>3. ASSUME NEW x \in SeqLines(q) PROVE x \in SeqLines(t) \cup {h}
  <2>1. PICK i \in 1..Len(q) : x = q[i]
    BY DEF SeqLines
  <2>2. i = 1 \/ (i - 1 \in 1..Len(t) /\ t[i - 1] = q[i])
    <3>1. i = 1 \/ (i - 1 \in 1..Len(t) /\ (i - 1) + 1 = i)
      BY <1>2
    <3> QED
      BY <1>2, <3>1
  <2> QED
    BY <1>2, <2>1, <2>2 DEF SeqLines
<1>4. ASSUME NEW x \in SeqLines(t) \cup {h} PROVE x \in SeqLines(q)
  <2>1. CASE x = h
    <3>1. 1 \in 1..Len(q)
      BY <1>2
    <3> QED
      BY <1>2, <2>1, <3>1 DEF SeqLines
  <2>2. CASE x \in SeqLines(t)
    <3>1. PICK i \in 1..Len(t) : x = t[i]
      BY <2>2 DEF SeqLines
    <3>2. i + 1 \in 1..Len(q) /\ x = q[i + 1]
      BY <1>2, <3>1
    <3> QED
      BY <3>2 DEF SeqLines
  <2> QED
    BY <2>1, <2>2
<1> QED
  BY <1>1, <1>3, <1>4

\* The order says more than that: no line is twice in a queue.
LEMMA OrderedTail ==
  ASSUME NEW q \in Seq(Lines), q # <<>>, Ordered(q), MaxLines \in Nat
  PROVE  /\ Ordered(Tail(q))
         /\ Head(q) \notin SeqLines(Tail(q))
         /\ \A j \in 1..Len(Tail(q)) : Head(q)[1] = Tail(q)[j][1] => Head(q)[2] < Tail(q)[j][2]
<1>1. PICK t, h : t = Tail(q) /\ h = Head(q)
  OBVIOUS
<1>2. /\ h = q[1] /\ h \in Lines /\ Len(q) \in Nat /\ 1 <= Len(q) /\ Len(t) = Len(q) - 1
      /\ \A i \in 1..Len(t) : t[i] = q[i + 1]
  BY <1>1, TailOf
<1>3. h[2] \in Nat
  BY <1>2 DEF Lines
<1>4. \A i \in 1..Len(t) : i + 1 \in 1..Len(q) /\ 1 < i + 1 /\ 1 \in 1..Len(q)
  BY <1>2
<1>5. \A j \in 1..Len(t) : h[1] = t[j][1] => h[2] < t[j][2]
  BY <1>2, <1>4 DEF Ordered
<1>6. h \notin SeqLines(t)
  BY <1>3, <1>5 DEF SeqLines
<1>7. Ordered(t)
  <2> SUFFICES ASSUME NEW i \in 1..Len(t), NEW j \in 1..Len(t), i < j, t[i][1] = t[j][1]
               PROVE  t[i][2] < t[j][2]
    BY DEF Ordered
  <2>1. i + 1 \in 1..Len(q) /\ j + 1 \in 1..Len(q) /\ i + 1 < j + 1
    BY <1>2
  <2>2. t[i] = q[i + 1] /\ t[j] = q[j + 1]
    BY <1>2
  <2> QED
    BY <2>1, <2>2 DEF Ordered
<1> QED
  BY <1>1, <1>5, <1>6, <1>7

LEMMA OrderedAppend ==
  ASSUME NEW S, NEW q \in Seq(S), NEW e \in S, Ordered(q),
         \A i \in 1..Len(q) : q[i][1] = e[1] => q[i][2] < e[2]
  PROVE  Ordered(Append(q, e))
<1>1. PICK g : g = Append(q, e)
  OBVIOUS
<1>2. /\ Len(q) \in Nat /\ Len(g) = Len(q) + 1
      /\ \A i \in 1..Len(q) : g[i] = q[i]
      /\ g[Len(q) + 1] = e
  BY <1>1, AppendOf
<1>3. \A i \in 1..Len(g) : i \in 1..Len(q) \/ i = Len(q) + 1
  BY <1>2
<1> SUFFICES ASSUME NEW i \in 1..Len(g), NEW j \in 1..Len(g), i < j, g[i][1] = g[j][1]
             PROVE  g[i][2] < g[j][2]
  BY <1>1 DEF Ordered
<1>4. i \in 1..Len(q) /\ g[i] = q[i]
  BY <1>2, <1>3
<1>5. CASE j = Len(q) + 1
  BY <1>2, <1>4, <1>5
<1>6. CASE j \in 1..Len(q)
  BY <1>2, <1>4, <1>6 DEF Ordered
<1> QED
  BY <1>3, <1>5, <1>6

LEMMA BeforeAppendRight ==
  ASSUME NEW S, NEW w, NEW q \in Seq(S), NEW e \in S, Before(w, q),
         \A i \in 1..Len(w) : w[i][1] = e[1] => w[i][2] < e[2]
  PROVE  Before(w, Append(q, e))
<1>1. PICK g : g = Append(q, e)
  OBVIOUS
<1>2. /\ Len(q) \in Nat /\ Len(g) = Len(q) + 1
      /\ \A i \in 1..Len(q) : g[i] = q[i]
      /\ g[Len(q) + 1] = e
  BY <1>1, AppendOf
<1>3. \A i \in 1..Len(g) : i \in 1..Len(q) \/ i = Len(q) + 1
  BY <1>2
<1> QED
  BY <1>1, <1>2, <1>3 DEF Before

LEMMA BeforeAppendLeft ==
  ASSUME NEW S, NEW w \in Seq(S), NEW e \in S, NEW q, Before(w, q),
         \A j \in 1..Len(q) : e[1] = q[j][1] => e[2] < q[j][2]
  PROVE  Before(Append(w, e), q)
<1>1. PICK g : g = Append(w, e)
  OBVIOUS
<1>2. /\ Len(w) \in Nat /\ Len(g) = Len(w) + 1
      /\ \A i \in 1..Len(w) : g[i] = w[i]
      /\ g[Len(w) + 1] = e
  BY <1>1, AppendOf
<1>3. \A i \in 1..Len(g) : i \in 1..Len(w) \/ i = Len(w) + 1
  BY <1>2
<1> QED
  BY <1>1, <1>2, <1>3 DEF Before

LEMMA BeforeTail ==
  ASSUME NEW S, NEW w, NEW q \in Seq(S), q # <<>>, Before(w, q)
  PROVE  /\ Before(w, Tail(q))
         /\ \A i \in 1..Len(w) : w[i][1] = Head(q)[1] => w[i][2] < Head(q)[2]
<1>1. PICK t, h : t = Tail(q) /\ h = Head(q)
  OBVIOUS
<1>2. /\ h = q[1] /\ Len(q) \in Nat /\ 1 <= Len(q) /\ Len(t) = Len(q) - 1
      /\ \A i \in 1..Len(t) : t[i] = q[i + 1]
  BY <1>1, TailOf
<1>3. 1 \in 1..Len(q) /\ \A i \in 1..Len(t) : i + 1 \in 1..Len(q)
  BY <1>2
<1> QED
  BY <1>1, <1>2, <1>3 DEF Before

-----------------------------------------------------------------------------
(* The steps, by what they do to the pipeline's own variables.             *)

\* No line moves: errors, the signal, the phases of the shutdown, and all that the
\* aggregator does on its own.
Steady ==
    /\ UNCHANGED <<aggregate, logChan, tailer, read, offset, written, filtered, sent, inTime,
                   accepted>>
    /\ errChan' \in 0..ErrCap
    /\ ctxDone' \in BOOLEAN /\ stopped' \in BOOLEAN /\ (stopped => stopped')
    /\ saved' \in {saved, offset}
    /\ \/ pipe' = pipe
       \/ pipe' \in {"flushed", "draining"}
       \/ pipe' = "sweeping" /\ stopped
       \/ pipe' = "returned" /\ pipe = "sweeping" /\ logChan = <<>>
       \/ pipe' = "exit" /\ pipe = "returned"

\* A tailer that has no line in its hand, or gives it up, goes on, ends or fails.
Moves(s) ==
    /\ UNCHANGED <<aggregate, logChan, read, offset, written, filtered, sent, inTime, accepted,
                   ctxDone, stopped, saved, pipe>>
    /\ errChan' \in 0..ErrCap
    /\ \E there \in {"reading", "failing", "exited"} : tailer' = [tailer EXCEPT ![s] = there]

LEMMA Assumptions ==
  /\ MaxLines \in Nat
  /\ LogCap \in Nat
  /\ ErrCap \in Nat
  /\ Modes \subseteq BOOLEAN
  BY PipelineAssumption

LEMMA TailerFrame ==
  ASSUME OwnTypes, NEW s \in Sources,
         TailerQuit(s) \/ SendErr(s) \/ TailerEnds(s) \/ TailerFails(s)
  PROVE  Moves(s)
  BY Assumptions
     DEF TailerQuit, SendErr, TailerEnds, TailerFails, At, Moves, OwnTypes, chanVars, mainVars,
         pipeVars, aggVars

LEMMA AggregatorFrame ==
  ASSUME Agg!Receive \/ Agg!Flush \/ Agg!Stop \/ Agg!FlushLoop \/ Agg!Advance \/ UNCHANGED aggVars
  PROVE  accepted' = accepted
  BY DEF Agg!Receive, Agg!Flush, Agg!Stop, Agg!FlushLoop, Agg!Advance, Agg!Tick, Agg!Send,
         Agg!Quit, aggVars

LEMMA SteadyFrame ==
  ASSUME OwnTypes,
         \/ Signal \/ StopAll \/ ReceiveErr \/ ReceiveExpired \/ StartDrain \/ StopAggregator
         \/ StartSweep \/ EndSweep \/ SaveBookmark \/ AggregatorFlusher \/ AggregatorClock
         \/ UNCHANGED vars
  PROVE  Steady
<1>1. accepted' = accepted
  <2>1. \/ Agg!Receive \/ Agg!Flush \/ Agg!Stop \/ Agg!FlushLoop \/ Agg!Advance
        \/ UNCHANGED aggVars
    BY DEF Signal, StopAll, ReceiveErr, ReceiveExpired, StartDrain, StopAggregator, StartSweep,
           EndSweep, SaveBookmark, AggregatorFlusher, AggregatorClock, vars
  <2> QED
    BY <2>1, AggregatorFrame
<1>2. errChan' \in 0..ErrCap
  BY Assumptions
     DEF OwnTypes, Signal, StopAll, ReceiveErr, ReceiveExpired, StartDrain, StopAggregator,
         StartSweep, EndSweep, SaveBookmark, AggregatorFlusher, AggregatorClock, vars, chanVars
<1> QED
  BY <1>1, <1>2
     DEF Steady, OwnTypes, Signal, StopAll, ReceiveErr, ReceiveExpired, StartDrain,
         StopAggregator, StartSweep, EndSweep, Swept, SaveBookmark, AggregatorFlusher,
         AggregatorClock, vars, chanVars, tailVars, mainVars, pipeVars

LEMMA Steps ==
  ASSUME OwnTypes, [Next]_vars
  PROVE  \/ Steady
         \/ ReceiveLine
         \/ \E s \in Sources : ReadLine(s) \/ SendLine(s) \/ AddOffset(s) \/ Moves(s)
  BY SteadyFrame, TailerFrame DEF Next, Tailer, RunPipeline

-----------------------------------------------------------------------------
(* Each step keeps the invariant.                                          *)

LEMMA SteadyKeeps ==
  ASSUME IInv, Steady
  PROVE  IInv'
<1>1. OwnTypes'
  BY DEF IInv, OwnTypes, Steady
<1>2. Reading' /\ InOrder' /\ Places'
  BY DEF IInv, Reading, InOrder, Places, Steady
<1>3. Sweeping'
  BY LinesOfEmpty DEF IInv, Sweeping, Steady
<1> QED
  BY <1>1, <1>2, <1>3 DEF IInv

LEMMA MovesKeeps ==
  ASSUME IInv, NEW s \in Sources, Moves(s)
  PROVE  IInv'
<1>1. OwnTypes'
  BY DEF IInv, OwnTypes, Moves
<1>2. InOrder' /\ Places' /\ Sweeping'
  BY DEF IInv, InOrder, Places, Sweeping, Moves
<1>3. Reading'
  <2>1. \A r \in Sources : tailer'[r] \in {"sending", "sent"} => tailer'[r] = tailer[r]
    BY DEF IInv, OwnTypes, Moves
  <2>2. read' = read /\ offset' = offset /\ sent' = sent
    BY DEF Moves
  <2> QED
    BY <2>1, <2>2 DEF IInv, Reading
<1> QED
  BY <1>1, <1>2, <1>3 DEF IInv

LEMMA ReadKeeps ==
  ASSUME IInv, NEW s \in Sources, ReadLine(s)
  PROVE  IInv'
<1>1. /\ UNCHANGED <<aggregate, logChan, errChan, offset, written, filtered, sent, inTime, accepted,
                     ctxDone, stopped, saved, pipe>>
      /\ tailer[s] = "reading" /\ tailer' = [tailer EXCEPT ![s] = "sending"]
      /\ read[s] < MaxLines /\ read' = [read EXCEPT ![s] = read[s] + 1]
  BY DEF ReadLine, At, chanVars, mainVars, pipeVars, aggVars
<1>2. read[s] \in 0..MaxLines /\ read[s] + 1 \in 0..MaxLines
  BY <1>1, Assumptions DEF IInv, OwnTypes
<1>3. OwnTypes'
  BY <1>1, <1>2 DEF IInv, OwnTypes
<1>4. InOrder' /\ Places' /\ Sweeping'
  BY <1>1 DEF IInv, InOrder, Places, Sweeping
<1>5. Reading'
  <2> SUFFICES ASSUME NEW r \in Sources
               PROVE  /\ offset[r] <= read'[r]
                      /\ tailer'[r] \in {"sending", "sent"} => offset[r] < read'[r]
                      /\ \A n \in 1..MaxLines :
                            <<r, n>> \in sent => /\ n <= read'[r]
                                                 /\ tailer'[r] = "sending" => n < read'[r]
    BY <1>1 DEF Reading
  <2>1. /\ offset[r] <= read[r]
        /\ tailer[r] \in {"sending", "sent"} => offset[r] < read[r]
        /\ \A n \in 1..MaxLines :
              <<r, n>> \in sent => n <= read[r] /\ (tailer[r] = "sending" => n < read[r])
    BY DEF IInv, Reading
  <2>2. CASE r # s
    BY <1>1, <2>1, <2>2 DEF IInv, OwnTypes
  <2>3. CASE r = s
    <3>1. read'[r] = read[r] + 1 /\ read[r] \in Nat /\ offset[r] \in Nat
      BY <1>1, <1>2, <2>3, Assumptions DEF IInv, OwnTypes
    <3> QED
      BY <2>1, <3>1
  <2> QED
    BY <2>2, <2>3
<1> QED
  BY <1>3, <1>4, <1>5 DEF IInv

LEMMA OffsetKeeps ==
  ASSUME IInv, NEW s \in Sources, AddOffset(s)
  PROVE  IInv'
<1>1. /\ UNCHANGED <<aggregate, logChan, errChan, read, written, filtered, sent, inTime, accepted,
                     ctxDone, stopped, saved, pipe>>
      /\ tailer[s] = "sent" /\ tailer' = [tailer EXCEPT ![s] = "reading"]
      /\ offset' = [offset EXCEPT ![s] = offset[s] + 1]
  BY DEF AddOffset, At, chanVars, mainVars, pipeVars, aggVars
<1>2. /\ offset[s] \in 0..MaxLines /\ read[s] \in 0..MaxLines /\ offset[s] < read[s]
      /\ offset[s] + 1 \in 0..MaxLines /\ offset[s] + 1 <= read[s]
  BY <1>1, Assumptions DEF IInv, OwnTypes, Reading
<1>3. OwnTypes'
  BY <1>1, <1>2 DEF IInv, OwnTypes
<1>4. InOrder' /\ Places' /\ Sweeping'
  BY <1>1 DEF IInv, InOrder, Places, Sweeping
<1>5. Reading'
  <2> SUFFICES ASSUME NEW r \in Sources
               PROVE  /\ offset'[r] <= read[r]
                      /\ tailer'[r] \in {"sending", "sent"} => offset'[r] < read[r]
                      /\ \A n \in 1..MaxLines :
                            <<r, n>> \in sent => /\ n <= read[r]
                                                 /\ tailer'[r] = "sending" => n < read[r]
    BY <1>1 DEF Reading
  <2>1. /\ offset[r] <= read[r]
        /\ tailer[r] \in {"sending", "sent"} => offset[r] < read[r]
        /\ \A n \in 1..MaxLines :
              <<r, n>> \in sent => n <= read[r] /\ (tailer[r] = "sending" => n < read[r])
    BY DEF IInv, Reading
  <2>2. CASE r # s
    BY <1>1, <2>1, <2>2 DEF IInv, OwnTypes
  <2>3. CASE r = s
    BY <1>1, <1>2, <2>1, <2>3 DEF IInv, OwnTypes
  <2> QED
    BY <2>2, <2>3
<1> QED
  BY <1>3, <1>4, <1>5 DEF IInv

LEMMA SendKeeps ==
  ASSUME IInv, NEW s \in Sources, SendLine(s)
  PROVE  IInv'
<1>1. PICK l : l = <<s, read[s]>>
  OBVIOUS
<1>2. /\ UNCHANGED <<aggregate, errChan, read, offset, written, filtered, accepted, ctxDone, stopped,
                     saved, pipe>>
      /\ tailer[s] = "sending" /\ tailer' = [tailer EXCEPT ![s] = "sent"]
      /\ Len(logChan) < LogCap /\ logChan' = Append(logChan, l)
      /\ sent' = sent \cup {l}
      /\ inTime' = inTime \/ (~stopped /\ inTime' = inTime \cup {l})
  BY <1>1 DEF SendLine, LogRoom, At, chanVars, mainVars, pipeVars, aggVars
<1>3. OwnTypes /\ Reading /\ InOrder /\ Places /\ Sweeping
  BY DEF IInv
<1>4. read[s] \in 1..MaxLines
  BY <1>2, <1>3, Assumptions DEF OwnTypes, Reading
<1>5. l \in Lines /\ l[1] = s /\ l[2] = read[s]
  BY <1>1, <1>4 DEF Lines
<1>6. l \notin sent
  <2>1. ~(read[s] < read[s])
    BY <1>4, Assumptions
  <2> QED
    BY <1>1, <1>2, <1>3, <1>4, <2>1 DEF Reading
<1>7. /\ logChan' \in Seq(Lines) /\ Len(logChan') = Len(logChan) + 1 /\ Len(logChan) \in Nat
      /\ SeqLines(logChan') = SeqLines(logChan) \cup {l}
  BY <1>2, <1>3, <1>5, AppendOf, LinesOfAppend DEF OwnTypes
<1>8. OwnTypes'
  <2>1. Len(logChan') <= LogCap
    BY <1>2, <1>7, Assumptions
  <2> QED
    BY <1>2, <1>3, <1>5, <1>7, <2>1 DEF OwnTypes
<1>9. Places'
  <2>1. /\ written' = written /\ filtered' = filtered /\ accepted' = accepted
        /\ aggregate' = aggregate
    BY <1>2
  <2>2. l \notin SeqLines(written) \cup filtered \cup accepted
    BY <1>3, <1>6 DEF Places
  <2> QED
    BY <1>2, <1>3, <1>7, <2>1, <2>2 DEF Places
<1>10. Sweeping'
  BY <1>2, <1>3, <1>6, <1>7 DEF Sweeping
<1>11. Reading'
  <2> SUFFICES ASSUME NEW r \in Sources
               PROVE  /\ offset[r] <= read[r]
                      /\ tailer'[r] \in {"sending", "sent"} => offset[r] < read[r]
                      /\ \A n \in 1..MaxLines :
                            <<r, n>> \in sent' => /\ n <= read[r]
                                                  /\ tailer'[r] = "sending" => n < read[r]
    BY <1>2 DEF Reading
  <2>1. /\ offset[r] <= read[r]
        /\ tailer[r] \in {"sending", "sent"} => offset[r] < read[r]
        /\ \A n \in 1..MaxLines :
              <<r, n>> \in sent => n <= read[r] /\ (tailer[r] = "sending" => n < read[r])
    BY <1>3 DEF Reading
  <2>2. CASE r # s
    <3>1. tailer'[r] = tailer[r]
      BY <1>2, <1>3, <2>2 DEF OwnTypes
    <3>2. \A n : <<r, n>> \in sent' => <<r, n>> \in sent
      BY <1>1, <1>2, <2>2
    <3> QED
      BY <2>1, <3>1, <3>2
  <2>3. CASE r = s
    <3>1. tailer'[r] = "sent" /\ tailer[r] = "sending"
      BY <1>2, <1>3, <2>3 DEF OwnTypes
    <3>2. \A n : <<r, n>> \in sent' => <<r, n>> \in sent \/ n = read[r]
      BY <1>1, <1>2, <2>3
    <3>3. read[r] \in Nat /\ \A n \in 1..MaxLines : n < read[r] => n <= read[r]
      BY <1>4, <2>3, Assumptions
    <3> QED
      BY <2>1, <3>1, <3>2, <3>3
  <2> QED
    BY <2>2, <2>3
<1>12. ASSUME NEW x \in SeqLines(logChan) \cup SeqLines(written)
       PROVE  x[1] = l[1] => x[2] < l[2]
  <2>1. x \in sent /\ x \in Lines
    BY <1>3 DEF Places, OwnTypes
  <2>2. PICK r \in Sources, n \in 1..MaxLines : x = <<r, n>>
    BY <2>1 DEF Lines
  <2> QED
    BY <1>2, <1>3, <1>5, <2>1, <2>2 DEF Reading
<1>13. InOrder'
  <2>1. \A i \in 1..Len(logChan) : logChan[i][1] = l[1] => logChan[i][2] < l[2]
    BY <1>12 DEF SeqLines
  <2>2. \A i \in 1..Len(written) : written[i][1] = l[1] => written[i][2] < l[2]
    BY <1>12 DEF SeqLines
  <2>3. Ordered(logChan') /\ Before(written, logChan')
    BY <1>2, <1>3, <1>5, <2>1, <2>2, OrderedAppend, BeforeAppendRight DEF OwnTypes, InOrder
  <2> QED
    BY <1>2, <1>3, <2>3 DEF InOrder
<1> QED
  BY <1>8, <1>9, <1>10, <1>11, <1>13 DEF IInv

LEMMA ReceiveKeeps ==
  ASSUME IInv, ReceiveLine
  PROVE  IInv'
<1>1. PICK l : l = Head(logChan)
  OBVIOUS
<1>2. /\ UNCHANGED <<aggregate, errChan, tailer, read, offset, sent, inTime, ctxDone, stopped, saved,
                     pipe>>
      /\ logChan # <<>> /\ logChan' = Tail(logChan)
      /\ pipe \notin {"returned", "exit"}
      /\ \/ filtered' = filtered \cup {l} /\ UNCHANGED <<written, accepted>>
         \/ aggregate /\ accepted' = accepted \cup {l} /\ UNCHANGED <<written, filtered>>
         \/ ~aggregate /\ written' = Append(written, l) /\ UNCHANGED <<filtered, accepted>>
  BY <1>1 DEF ReceiveLine, Received, Remaining, Process, Agg!Process, tailVars, mainVars, aggVars
<1>3. OwnTypes /\ Reading /\ InOrder /\ Places /\ Sweeping
  BY DEF IInv
<1>4. logChan \in Seq(Lines) /\ written \in Seq(Lines) /\ Len(logChan) <= LogCap
  BY <1>3 DEF OwnTypes
<1>5. /\ l \in Lines /\ logChan' \in Seq(Lines) /\ Len(logChan') = Len(logChan) - 1
      /\ Len(logChan) \in Nat
  BY <1>1, <1>2, <1>4, TailOf
<1>6. /\ SeqLines(logChan) = SeqLines(logChan') \cup {l}
      /\ l \notin SeqLines(logChan')
      /\ Ordered(logChan')
      /\ \A j \in 1..Len(logChan') : l[1] = logChan'[j][1] => l[2] < logChan'[j][2]
  BY <1>1, <1>2, <1>3, <1>4, LinesOfTail, OrderedTail, Assumptions DEF InOrder
<1>7. /\ Before(written, logChan')
      /\ \A i \in 1..Len(written) : written[i][1] = l[1] => written[i][2] < l[2]
  BY <1>1, <1>2, <1>3, <1>4, BeforeTail DEF InOrder
<1>8. l \notin SeqLines(written) \cup filtered \cup accepted
  BY <1>3, <1>6 DEF Places
<1>9. /\ written' \in Seq(Lines)
      /\ \/ SeqLines(written') = SeqLines(written) /\ written' = written
         \/ SeqLines(written') = SeqLines(written) \cup {l} /\ ~aggregate
      /\ Ordered(written') /\ Before(written', logChan')
  <2>1. CASE written' = written
    BY <1>3, <1>4, <1>7, <2>1 DEF InOrder
  <2>2. CASE written' = Append(written, l) /\ ~aggregate
    <3>1. written' \in Seq(Lines) /\ SeqLines(written') = SeqLines(written) \cup {l}
      BY <1>4, <1>5, <2>2, AppendOf, LinesOfAppend
    <3>2. Ordered(written')
      BY <1>3, <1>4, <1>5, <1>7, <2>2, OrderedAppend DEF InOrder
    <3>3. Before(written', logChan')
      BY <1>4, <1>5, <1>6, <1>7, <2>2, BeforeAppendLeft
    <3> QED
      BY <2>2, <3>1, <3>2, <3>3
  <2> QED
    BY <1>2, <2>1, <2>2
<1>10. OwnTypes'
  <2>1. Len(logChan') <= LogCap
    BY <1>4, <1>5, Assumptions
  <2>2. filtered' \in SUBSET Lines
    BY <1>2, <1>3, <1>5 DEF OwnTypes
  <2> QED
    BY <1>2, <1>3, <1>5, <1>9, <2>1, <2>2 DEF OwnTypes
<1>11. Reading' /\ InOrder'
  BY <1>2, <1>3, <1>6, <1>9 DEF Reading, InOrder
<1>12. Sweeping'
  BY <1>2, <1>3 DEF Sweeping
<1>13. Places'
  <2>1. aggregate' = aggregate /\ sent' = sent
    BY <1>2
  <2>2. CASE filtered' = filtered \cup {l} /\ UNCHANGED <<written, accepted>>
    BY <1>3, <1>6, <1>8, <2>1, <2>2 DEF Places
  <2>3. CASE aggregate /\ accepted' = accepted \cup {l} /\ UNCHANGED <<written, filtered>>
    BY <1>3, <1>6, <1>8, <2>1, <2>3 DEF Places
  <2>4. CASE ~aggregate /\ written' = Append(written, l) /\ UNCHANGED <<filtered, accepted>>
    <3>1. SeqLines(written') = SeqLines(written) \cup {l}
      BY <1>4, <1>5, <2>4, LinesOfAppend
    <3> QED
      BY <1>3, <1>6, <1>8, <2>1, <2>4, <3>1 DEF Places
  <2> QED
    BY <1>2, <2>2, <2>3, <2>4
<1> QED
  BY <1>10, <1>11, <1>12, <1>13 DEF IInv

LEMMA InvariantInit == Init => IInv
<1> SUFFICES ASSUME Init PROVE IInv
  OBVIOUS
<1>1. /\ aggregate \in Modes /\ logChan = <<>> /\ errChan = 0
      /\ tailer = [s \in Sources |-> "reading"]
      /\ read = [s \in Sources |-> 0] /\ offset = [s \in Sources |-> 0]
      /\ saved = [s \in Sources |-> 0]
      /\ ctxDone = FALSE /\ stopped = FALSE /\ pipe = "running"
      /\ written = <<>> /\ filtered = {} /\ sent = {} /\ inTime = {} /\ accepted = {}
  BY DEF Init, Unsaved, Agg!Init
<1>2. <<>> \in Seq(Lines) /\ Len(<<>>) = 0 /\ 0 \in 0..MaxLines /\ 0 \in 0..ErrCap /\ 0 <= LogCap
  BY Assumptions
<1>3. OwnTypes
  BY <1>1, <1>2 DEF OwnTypes
<1>4. Reading
  <2>1. \A s \in Sources : read[s] = 0 /\ offset[s] = 0 /\ tailer[s] = "reading"
    BY <1>1
  <2>2. 0 <= 0
    OBVIOUS
  <2> QED
    BY <1>1, <2>1, <2>2 DEF Reading
<1>5. InOrder
  BY <1>1 DEF InOrder, Ordered, Before
<1>6. Places /\ Sweeping
  BY <1>1, LinesOfEmpty DEF Places, Sweeping
<1> QED
  BY <1>3, <1>4, <1>5, <1>6 DEF IInv

LEMMA InvariantNext == IInv /\ [Next]_vars => IInv'
<1> SUFFICES ASSUME IInv, [Next]_vars PROVE IInv'
  OBVIOUS
<1>1. OwnTypes
  BY DEF IInv
<1> QED
  BY <1>1, Steps, SteadyKeeps, MovesKeeps, ReadKeeps, OffsetKeeps, SendKeeps, ReceiveKeeps

LEMMA Invariant == Spec => []IInv
  BY InvariantInit, InvariantNext, PTL DEF Spec

-----------------------------------------------------------------------------
(* The pipeline runs the aggregator as the aggregator's own specification  *)
(* says, so all that is proved there holds here.                           *)

LEMMA AggregatorStep ==
  ASSUME IInv, [Next]_vars
  PROVE  [Agg!Next]_aggVars
<1>1. ASSUME ReceiveLine PROVE (\E line \in Lines : Agg!Process(line)) \/ UNCHANGED aggVars
  <2>1. PICK line : line = Head(logChan)
    OBVIOUS
  <2>2. logChan # <<>> /\ Process(line)
    BY <1>1, <2>1 DEF ReceiveLine, Received
  <2>3. line \in Lines
    BY <2>1, <2>2, TailOf DEF IInv, OwnTypes
  <2> QED
    BY <2>2, <2>3 DEF Process
<1>2. ASSUME NEW s \in Sources, Tailer(s) \/ TailerEnds(s) \/ TailerFails(s)
      PROVE  UNCHANGED aggVars
  BY <1>2 DEF Tailer, ReadLine, SendLine, AddOffset, TailerQuit, SendErr, TailerEnds, TailerFails
<1>3. CASE Signal \/ StopAll \/ ReceiveErr \/ StartSweep \/ EndSweep \/ SaveBookmark \/ UNCHANGED vars
  BY <1>3 DEF Signal, StopAll, ReceiveErr, StartSweep, EndSweep, SaveBookmark, vars
<1>4. CASE ReceiveExpired \/ StartDrain \/ StopAggregator \/ AggregatorFlusher \/ AggregatorClock
  BY <1>4 DEF ReceiveExpired, StartDrain, StopAggregator, AggregatorFlusher, AggregatorClock, Agg!Next
<1> QED
  BY <1>1, <1>2, <1>3, <1>4 DEF Next, RunPipeline, Agg!Next

\* The calls of runPipeline, of its drain and of main on the aggregator, and the steps
\* of its flusher, are a behaviour of Aggregator: what runPipeline calls, and when,
\* stays within what that module allows, and a line is never given to Process twice.
THEOREM RunsAggregator == Spec => Agg!Spec
<1>1. Init => Agg!Init
  BY DEF Init
<1>2. IInv /\ [Next]_vars => [Agg!Next]_Agg!vars
  BY AggregatorStep DEF aggVars, Agg!vars
<1> QED
  BY <1>1, <1>2, Invariant, PTL DEF Spec, Agg!Spec

LEMMA AggregatorHolds == Spec => []AggProof!CountedOnce
<1>1. AggProof!AggregatorAssumption
  BY PipelineAssumption DEF AggProof!AggregatorAssumption, AggProof!Keys
<1>2. AggProof!Spec => []AggProof!CountedOnce
  BY <1>1, AggProof!Counting
<1>3. Agg!Spec => AggProof!Spec
  <2>1. Agg!Init => AggProof!Init
    BY DEF Agg!Init, AggProof!Init
  <2>2. [Agg!Next]_Agg!vars => [AggProof!Next]_AggProof!vars
    BY DEF Agg!Next, Agg!Process, Agg!Flush, Agg!Stop, Agg!Receive, Agg!FlushLoop, Agg!Tick,
           Agg!Send, Agg!Quit, Agg!Advance, Agg!vars, Agg!Without, Agg!Emit, Agg!ExpiredKeys,
           Agg!Counted, Agg!Collected, Agg!LinesIn, Agg!Stored, Agg!Uncollected, Agg!TickDue,
           Agg!OutputRoom,
           AggProof!Next, AggProof!Process, AggProof!Flush, AggProof!Stop, AggProof!Receive,
           AggProof!FlushLoop, AggProof!Tick, AggProof!Send, AggProof!Quit, AggProof!Advance,
           AggProof!vars, AggProof!Without, AggProof!Emit, AggProof!ExpiredKeys,
           AggProof!Counted, AggProof!Collected, AggProof!LinesIn, AggProof!Stored,
           AggProof!Uncollected, AggProof!TickDue, AggProof!OutputRoom
  <2> QED
    BY <2>1, <2>2, PTL DEF Agg!Spec, AggProof!Spec
<1> QED
  BY <1>2, <1>3, RunsAggregator, PTL

LEMMA AggregatorFacts ==
  ASSUME AggProof!CountedOnce
  PROVE  /\ Agg!TypeOK
         /\ accepted = Held \cup returned \cup discarded
         /\ Held \cap (returned \cup discarded) = {}
<1>1. AggProof!TypeOK /\ AggProof!NoLineLost /\ AggProof!NoLineTwice
  BY DEF AggProof!CountedOnce
<1>2. Agg!TypeOK
  BY <1>1 DEF Agg!TypeOK, Agg!Keys, Agg!Entry, Agg!Batch, AggProof!TypeOK, AggProof!Keys,
              AggProof!Entry, AggProof!Batch
<1>3. PICK S, H, C : /\ S = AggProof!LinesIn(AggProof!Stored)
                     /\ H = AggProof!LinesIn(hand)
                     /\ C = AggProof!Channelled
  OBVIOUS
<1>4. Held = S \cup H \cup C
  BY <1>3 DEF Held, Agg!LinesIn, Agg!Stored, Agg!Channelled, AggProof!LinesIn, AggProof!Stored,
              AggProof!Channelled
<1>5. /\ accepted = S \cup H \cup C \cup returned \cup discarded
      /\ S \cap (H \cup C \cup returned \cup discarded) = {}
      /\ H \cap (C \cup returned \cup discarded) = {}
      /\ C \cap (returned \cup discarded) = {}
  BY <1>1, <1>3 DEF AggProof!NoLineLost, AggProof!NoLineTwice
<1> QED
  BY <1>2, <1>4, <1>5

-----------------------------------------------------------------------------
(* The theorems.                                                           *)

LEMMA Both == Spec => [](IInv /\ AggProof!CountedOnce)
  BY Invariant, AggregatorHolds, PTL

\* Both channels stay within their capacities, a tailer's offset within the lines of
\* its source, and every variable keeps its type.
THEOREM Types == Spec => []TypeOK
<1>1. IInv /\ AggProof!CountedOnce => TypeOK
  BY AggregatorFacts DEF IInv, OwnTypes, TypeOK
<1> QED
  BY <1>1, Both, PTL

\* A line that a tailer sent is in logChan, with the aggregator, written, returned,
\* filtered out or given up by a flusher that was stopped: in one of these places, and
\* written once, for any interleaving of tailers, pipeline, flusher and shutdown.
THEOREM Accounted == Spec => []SentAccounted
<1>1. IInv /\ AggProof!CountedOnce => SentAccounted
  <2> SUFFICES ASSUME IInv, AggProof!CountedOnce PROVE SentAccounted
    OBVIOUS
  <2>1. /\ accepted = Held \cup returned \cup discarded
        /\ Held \cap (returned \cup discarded) = {}
    BY AggregatorFacts
  <2>2. PICK Q, W : Q = SeqLines(logChan) /\ W = SeqLines(written)
    OBVIOUS
  <2>3. /\ sent = Q \cup W \cup filtered \cup accepted
        /\ Q \cap (W \cup filtered \cup accepted) = {}
        /\ accepted \cap (W \cup filtered) = {}
    BY <2>2 DEF IInv, Places
  <2>4. Finished = W \cup returned \cup filtered
    BY <2>2 DEF Finished
  <2>5. /\ sent = Q \cup Held \cup Finished \cup discarded
        /\ Q \cap (Held \cup Finished \cup discarded) = {}
        /\ Held \cap (Finished \cup discarded) = {}
    BY <2>1, <2>3, <2>4
  <2>6. \A i, j \in 1..Len(written) : i # j => written[i] # written[j]
    <3> SUFFICES ASSUME NEW i \in 1..Len(written), NEW j \in 1..Len(written), i < j
                 PROVE  written[i] # written[j]
      <4>1. \A i, j \in 1..Len(written) : i # j => i < j \/ j < i
        BY DEF IInv, OwnTypes
      <4> QED
        BY <4>1
    <3>1. written[i] \in Lines
      BY DEF IInv, OwnTypes
    <3>2. written[i][2] \in Nat
      BY <3>1, Assumptions DEF Lines
    <3>3. ~(written[i][2] < written[i][2])
      BY <3>2
    <3> QED
      BY <3>3 DEF IInv, InOrder, Ordered
  <2> QED
    BY <2>2, <2>5, <2>6 DEF SentAccounted
<1> QED
  BY <1>1, Both, PTL

\* The lines of a source are written in the order of the source, however many tailers
\* share the channel.
THEOREM SourcesInOrder == Spec => []SourceOrder
<1>1. IInv => SourceOrder
  <2> SUFFICES ASSUME IInv PROVE SourceOrder
    OBVIOUS
  <2>1. PICK w, q, f : w = written /\ q = logChan /\ f = w \o q
    OBVIOUS
  <2>2. w \in Seq(Lines) /\ q \in Seq(Lines) /\ Ordered(w) /\ Ordered(q) /\ Before(w, q)
    BY <2>1 DEF IInv, OwnTypes, InOrder
  <2>3. Len(w) \in Nat /\ Len(q) \in Nat /\ Len(f) = Len(w) + Len(q)
    BY <2>1, <2>2
  <2>4. \A i \in 1..Len(f) :
           \/ i \in 1..Len(w) /\ f[i] = w[i]
           \/ i > Len(w) /\ i - Len(w) \in 1..Len(q) /\ f[i] = q[i - Len(w)]
    BY <2>1, <2>2, <2>3
  <2>5. ASSUME NEW i \in 1..Len(f), NEW j \in 1..Len(f), i < j, f[i][1] = f[j][1]
        PROVE  f[i][2] < f[j][2]
    <3>1. CASE i \in 1..Len(w) /\ f[i] = w[i] /\ j \in 1..Len(w) /\ f[j] = w[j]
      BY <2>2, <2>5, <3>1 DEF Ordered
    <3>2. CASE /\ i \in 1..Len(w) /\ f[i] = w[i]
               /\ j - Len(w) \in 1..Len(q) /\ f[j] = q[j - Len(w)]
      BY <2>2, <2>5, <3>2 DEF Before
    <3>3. CASE /\ i - Len(w) \in 1..Len(q) /\ f[i] = q[i - Len(w)]
               /\ j - Len(w) \in 1..Len(q) /\ f[j] = q[j - Len(w)]
      <4>1. i - Len(w) < j - Len(w)
        BY <2>3, <2>5
      <4> QED
        BY <2>2, <2>5, <3>3, <4>1 DEF Ordered
    <3>4. ~(i > Len(w) /\ j \in 1..Len(w))
      BY <2>3, <2>5
    <3> QED
      BY <2>4, <3>1, <3>2, <3>3, <3>4
  <2> QED
    BY <2>1, <2>5 DEF SourceOrder
<1> QED
  BY <1>1, Invariant, PTL

\* Without --aggregate, the shutdown loses no line that was sent before tm.stopped was
\* closed: it is written or filtered out when runPipeline returns, whatever was in the
\* channel when the signal came.
THEOREM Drained == Spec => []DrainedInTime
<1>1. IInv => DrainedInTime
  BY DEF IInv, Places, Sweeping, DrainedInTime, Finished
<1> QED
  BY <1>1, Invariant, PTL

=============================================================================
