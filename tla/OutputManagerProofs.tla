------------------------ MODULE OutputManagerProofs ------------------------
(***************************************************************************)
(* The safety properties of OutputManager, proved for every set of lines,  *)
(* every queue capacity and any number of writes and swaps.                *)
(***************************************************************************)
EXTENDS OutputManager, TLAPS

-----------------------------------------------------------------------------
(* The inductive invariant.                                                *)

\* Shutdown runs in one order: the pipeline returns, Close cancels, the writer
\* goroutine drains and exits, Close closes the writer in place.
ShutdownOrder ==
    /\ ctxDone = (closer # "open")
    /\ ctxDone => pipeline = "returned"
    /\ draining => ctxDone
    /\ loop = "exited" => draining
    /\ closer = "closed" => loop = "exited"

\* What the writer goroutine holds at each of its program points.
InHand ==
    /\ loop = "write" => hand # Swap /\ target = writer
    /\ loop \in {"swap", "closeOld"} => hand = Swap
    /\ loop = "closeOld" => writer = target + 1

\* Exactly the writers replaced by a finished swap are closed.
ClosedWriters ==
    \A w \in Nat :
        w \in closed <=>
            \/ w < writer /\ (loop = "closeOld" => w # target)
            \/ w = writer /\ closer = "closed"

\* Once the writer goroutine is gone only the watcher can reach the queue.
OnlySwapsLeft == loop = "exited" => \A i \in 1..Len(queue) : queue[i] = Swap

\* The writer in place is the one the last handled event left.
LastWriter ==
    writer = WriterBefore(Len(handled) + 1) + (IF loop = "closeOld" THEN 1 ELSE 0)

IInv ==
    /\ TypeOK
    /\ ShutdownOrder
    /\ InHand
    /\ ClosedWriters
    /\ OnlySwapsLeft
    /\ LastWriter
    /\ HandledInOrder
    /\ SwapSplitsStream

-----------------------------------------------------------------------------
(* Each part of the invariant is inductive relative to the others.         *)

\* Appending one event keeps a history of events one and makes it one longer.
LEMMA EnqueueLemma ==
  ASSUME TypeOK, NEW ev \in Event, Enqueue(ev)
  PROVE  /\ queue' \in Seq(Event)
         /\ enqueued' \in Seq(Event)
         /\ Len(queue') = Len(queue) + 1
         /\ Len(enqueued') = Len(enqueued) + 1
         /\ \A i \in 1..Len(queue) : queue'[i] = queue[i]
         /\ \A i \in 1..Len(enqueued) : enqueued'[i] = enqueued[i]
         /\ queue'[Len(queue) + 1] = ev
         /\ enqueued'[Len(enqueued) + 1] = ev
  BY DEF TypeOK, Enqueue

\* Finishing an event adds it, with its writer, at the end of handled.
LEMMA DoneLemma ==
  ASSUME TypeOK, NEW w \in Nat, Done(w)
  PROVE  /\ handled' \in Seq(Outcome)
         /\ Len(handled') = Len(handled) + 1
         /\ \A i \in 1..Len(handled) : handled'[i] = handled[i]
         /\ handled'[Len(handled) + 1] = [ev |-> hand, writer |-> w]
  <1>1. [ev |-> hand, writer |-> w] \in Outcome
    BY DEF TypeOK, Outcome
  <1> QED
    BY <1>1 DEF TypeOK, Done

LEMMA TypeInductive == TypeOK /\ [Next]_vars => TypeOK'
<1> SUFFICES ASSUME TypeOK, [Next]_vars PROVE TypeOK'
  OBVIOUS
<1> USE OutputManagerAssumption DEF TypeOK
<1>1. ASSUME NEW line \in Lines, Write(line) PROVE TypeOK'
  <2>1. line \in Event
    BY DEF Event
  <2>2. CASE HasRoom /\ Enqueue(line) /\ UNCHANGED dropped
    BY <1>1, <2>1, <2>2, EnqueueLemma DEF Write, HasRoom
  <2>3. CASE UNCHANGED <<queue, enqueued>> /\ dropped' = dropped + 1
    BY <1>1, <2>3 DEF Write
  <2> QED
    BY <1>1, <2>2, <2>3 DEF Write
<1>2. CASE PipelineReturn
  BY <1>2 DEF PipelineReturn
<1>3. CASE SwapCall
  BY <1>3 DEF SwapCall
<1>4. CASE SwapEnqueue
  <2>1. Swap \in Event
    BY DEF Event
  <2> QED
    BY <1>4, <2>1, EnqueueLemma DEF SwapEnqueue, HasRoom
<1>5. CASE SwapGiveUp
  BY <1>5 DEF SwapGiveUp
<1>6. CASE TakeEvent
  BY <1>6 DEF TakeEvent
<1>7. CASE WriteOne
  BY <1>7, DoneLemma DEF WriteOne
<1>8. CASE SwapFails
  BY <1>8, DoneLemma DEF SwapFails
<1>9. CASE SwapInstall
  BY <1>9 DEF SwapInstall
<1>10. CASE SwapCloseOld
  BY <1>10, DoneLemma DEF SwapCloseOld
<1>11. CASE StartDrain
  BY <1>11 DEF StartDrain, ShutdownSeen
<1>12. CASE DrainDone
  BY <1>12 DEF DrainDone, Drained
<1>13. CASE CloseCancel
  BY <1>13 DEF CloseCancel
<1>14. CASE CloseWriter
  BY <1>14 DEF CloseWriter
<1>15. CASE UNCHANGED vars
  BY <1>15 DEF vars
<1> QED
  BY <1>1, <1>2, <1>3, <1>4, <1>5, <1>6, <1>7, <1>8, <1>9, <1>10, <1>11,
     <1>12, <1>13, <1>14, <1>15 DEF Next, WriterLoop, SwapReturns, Closing

LEMMA TypeInit == Init => TypeOK
<1> SUFFICES ASSUME Init PROVE TypeOK
  OBVIOUS
<1>1. <<>> \in Seq(Event) /\ <<>> \in Seq(Outcome) /\ Len(<<>>) = 0
  OBVIOUS
<1>2. Swap \in Event
  BY DEF Event
<1>3. 0 \in Nat /\ 0 <= QueueCap
  BY OutputManagerAssumption
<1> QED
  BY <1>1, <1>2, <1>3 DEF Init, TypeOK

\* The state of OutputManager keeps its types: in particular the queue never
\* holds more events than its capacity (Write and Swap enqueue only into room).
THEOREM TypeCorrect == Spec => []TypeOK
  BY TypeInit, TypeInductive, PTL DEF Spec

-----------------------------------------------------------------------------
LEMMA ControlInductive ==
  ASSUME TypeOK, ShutdownOrder, InHand, ClosedWriters, OnlySwapsLeft, [Next]_vars
  PROVE  ShutdownOrder' /\ InHand' /\ ClosedWriters' /\ OnlySwapsLeft'
<1> USE DEF TypeOK, ShutdownOrder, InHand, ClosedWriters, OnlySwapsLeft
<1>1. ASSUME NEW line \in Lines, Write(line)
      PROVE  ShutdownOrder' /\ InHand' /\ ClosedWriters' /\ OnlySwapsLeft'
  BY <1>1 DEF Write
<1>2. CASE PipelineReturn
  BY <1>2 DEF PipelineReturn
<1>3. CASE SwapCall
  BY <1>3 DEF SwapCall
<1>4. CASE SwapEnqueue
  <2>1. OnlySwapsLeft'
    BY <1>4, EnqueueLemma DEF SwapEnqueue, Event
  <2> QED
    BY <1>4, <2>1 DEF SwapEnqueue
<1>5. CASE SwapGiveUp
  BY <1>5 DEF SwapGiveUp
<1>6. CASE TakeEvent
  BY <1>6 DEF TakeEvent
<1>7. CASE WriteOne
  BY <1>7 DEF WriteOne
<1>8. CASE SwapFails
  BY <1>8 DEF SwapFails
<1>9. CASE SwapInstall
  BY <1>9 DEF SwapInstall
<1>10. CASE SwapCloseOld
  BY <1>10 DEF SwapCloseOld
<1>11. CASE StartDrain
  BY <1>11 DEF StartDrain, ShutdownSeen
<1>12. CASE DrainDone
  BY <1>12 DEF DrainDone, Drained
<1>13. CASE CloseCancel
  BY <1>13 DEF CloseCancel
<1>14. CASE CloseWriter
  BY <1>14 DEF CloseWriter
<1>15. CASE UNCHANGED vars
  BY <1>15 DEF vars
<1> QED
  BY <1>1, <1>2, <1>3, <1>4, <1>5, <1>6, <1>7, <1>8, <1>9, <1>10, <1>11,
     <1>12, <1>13, <1>14, <1>15 DEF Next, WriterLoop, SwapReturns, Closing

\* One more event in the queue: the histories grow at the end together.
LEMMA EnqueueKeepsOrder ==
  ASSUME TypeOK, HandledInOrder, NEW ev \in Event, Enqueue(ev),
         UNCHANGED <<loop, hand, handled>>
  PROVE  HandledInOrder'
<1>1. Taken' = Taken /\ Taken \in Nat /\ Len(handled) <= Taken
  BY DEF Taken, TypeOK
<1>2. Len(queue) \in Nat /\ Len(enqueued) \in Nat /\ Len(handled) \in Nat
  BY DEF TypeOK
<1>3. Len(enqueued') = Taken' + Len(queue')
  BY <1>1, <1>2, EnqueueLemma DEF HandledInOrder
<1>4. ASSUME NEW i \in 1..Len(queue') PROVE queue'[i] = enqueued'[Taken' + i]
  <2>1. CASE i = Len(queue) + 1
    BY <1>1, <1>2, <2>1, EnqueueLemma DEF HandledInOrder
  <2>2. CASE i \in 1..Len(queue)
    BY <1>1, <1>2, <2>2, EnqueueLemma DEF HandledInOrder
  <2> QED
    BY <1>2, <2>1, <2>2, EnqueueLemma
<1>5. \A i \in 1..Len(handled) : i \in 1..Len(enqueued)
  BY <1>1, <1>2 DEF HandledInOrder
<1>6. Taken > Len(handled) => Taken \in 1..Len(enqueued)
  BY <1>1, <1>2 DEF HandledInOrder
<1> QED
  BY <1>1, <1>3, <1>4, <1>5, <1>6, EnqueueLemma DEF HandledInOrder

\* An event handled: what was in hand becomes the end of handled.
LEMMA DoneKeepsOrder ==
  ASSUME TypeOK, HandledInOrder, NEW w \in Nat, Done(w),
         loop \in {"write", "swap", "closeOld"}, loop' = "select",
         UNCHANGED <<queue, enqueued>>
  PROVE  HandledInOrder'
<1> DEFINE new == [ev |-> hand, writer |-> w]
<1>0. /\ Len(handled') = Len(handled) + 1
      /\ \A i \in 1..Len(handled) : handled'[i] = handled[i]
      /\ handled'[Len(handled) + 1].ev = hand
  <2> HIDE DEF new
  <2>1. Len(handled') = Len(handled) + 1 /\ handled'[Len(handled) + 1] = new
        /\ \A i \in 1..Len(handled) : handled'[i] = handled[i]
    BY DoneLemma DEF new
  <2> QED
    BY <2>1 DEF new
<1>1. Taken = Len(handled) + 1 /\ Taken' = Len(handled')
  BY <1>0 DEF Taken, TypeOK
<1>2. Len(handled') = Len(handled) + 1 /\ Len(handled) \in Nat
  BY <1>0 DEF TypeOK
<1>3. hand = enqueued[Len(handled) + 1]
  BY <1>1, <1>2 DEF HandledInOrder
<1>4. ASSUME NEW i \in 1..Len(handled') PROVE handled'[i].ev = enqueued'[i]
  <2>1. CASE i = Len(handled) + 1
    BY <1>0, <1>3, <2>1
  <2>2. CASE i \in 1..Len(handled)
    BY <1>0, <2>2 DEF HandledInOrder
  <2> QED
    BY <1>2, <2>1, <2>2
<1> QED
  BY <1>1, <1>2, <1>4 DEF HandledInOrder, TypeOK

LEMMA OrderInductive ==
  ASSUME TypeOK, HandledInOrder, [Next]_vars
  PROVE  HandledInOrder'
<1>1. ASSUME NEW line \in Lines, Write(line) PROVE HandledInOrder'
  <2>1. CASE Enqueue(line)
    <3>1. line \in Event /\ UNCHANGED <<loop, hand, handled>>
      BY <1>1 DEF Write, Event
    <3> QED
      BY <2>1, <3>1, EnqueueKeepsOrder
  <2>2. CASE UNCHANGED <<queue, enqueued>>
    BY <1>1, <2>2 DEF Write, HandledInOrder, Taken
  <2> QED
    BY <1>1, <2>1, <2>2 DEF Write
<1>2. CASE SwapEnqueue
  BY <1>2, EnqueueKeepsOrder DEF SwapEnqueue, Event
<1>3. CASE TakeEvent
  <2>1. Taken = Len(handled) /\ Taken' = Taken + 1
    BY <1>3 DEF TakeEvent, Taken, TypeOK
  <2>2. /\ Len(queue) \in Nat \ {0}
        /\ Len(handled) \in Nat
        /\ Len(queue') = Len(queue) - 1
        /\ hand' = queue[1]
        /\ \A i \in 1..Len(queue') : queue'[i] = queue[i + 1]
        /\ UNCHANGED <<handled, enqueued>>
    BY <1>3 DEF TakeEvent, TypeOK
  <2>3. Len(enqueued') = Taken' + Len(queue')
    <3>1. Len(enqueued) = Taken + Len(queue)
      BY DEF HandledInOrder
    <3>2. enqueued' = enqueued /\ Taken \in Nat
      BY <2>1, <2>2
    <3> QED
      BY <2>1, <2>2, <3>1, <3>2
  <2>4. ASSUME NEW i \in 1..Len(queue') PROVE queue'[i] = enqueued'[Taken' + i]
    <3>1. i + 1 \in 1..Len(queue) /\ Taken' + i = Taken + (i + 1)
      BY <2>1, <2>2
    <3> QED
      BY <2>2, <3>1 DEF HandledInOrder
  <2>5. hand' = enqueued'[Taken']
    BY <2>1, <2>2 DEF HandledInOrder
  <2> QED
    BY <2>2, <2>3, <2>4, <2>5 DEF HandledInOrder
<1>4. CASE WriteOne
  BY <1>4, DoneKeepsOrder DEF WriteOne, TypeOK
<1>5. CASE SwapFails
  BY <1>5, DoneKeepsOrder DEF SwapFails, TypeOK
<1>6. CASE SwapInstall
  BY <1>6 DEF SwapInstall, HandledInOrder, Taken
<1>7. CASE SwapCloseOld
  BY <1>7, DoneKeepsOrder DEF SwapCloseOld, TypeOK
<1>8. CASE DrainDone
  BY <1>8 DEF DrainDone, HandledInOrder, Taken
<1>9. CASE UNCHANGED <<queue, loop, hand, enqueued, handled>>
  BY <1>9 DEF HandledInOrder, Taken
<1> QED
  BY <1>1, <1>2, <1>3, <1>4, <1>5, <1>6, <1>7, <1>8, <1>9
  DEF Next, WriterLoop, SwapReturns, Closing, vars, PipelineReturn, SwapCall,
      SwapGiveUp, StartDrain, CloseCancel, CloseWriter

\* The writer left by the last handled event is a writer.
LEMMA WriterType == TypeOK => WriterBefore(Len(handled) + 1) \in Nat
<1> SUFFICES ASSUME TypeOK PROVE WriterBefore(Len(handled) + 1) \in Nat
  OBVIOUS
<1>1. handled \in Seq(Outcome)
  BY DEF TypeOK
<1>2. \A i \in 1..Len(handled) : handled[i] \in Outcome
  BY <1>1
<1> QED
  BY <1>1, <1>2 DEF Outcome, WriterBefore

\* A line goes to the writer in place, and that is the writer the previous
\* event left.
LEMMA SplitInductive ==
  ASSUME TypeOK, InHand, LastWriter, SwapSplitsStream, [Next]_vars
  PROVE  LastWriter' /\ SwapSplitsStream'
<1>0. WriterBefore(Len(handled) + 1) \in Nat /\ writer \in Nat
  BY WriterType DEF TypeOK
<1>1. ASSUME NEW w \in Nat, Done(w),
             w = writer,
             writer' = writer,
             loop = "closeOld" => hand = Swap,
             loop' = "select"
      PROVE  LastWriter' /\ SwapSplitsStream'
  <2> DEFINE n == Len(handled)
  <2>1. /\ Len(handled') = n + 1
        /\ n \in Nat
        /\ \A i \in 1..n : handled'[i] = handled[i]
        /\ handled'[n + 1].ev = hand
        /\ handled'[n + 1].writer = w
    <3>1. /\ Len(handled') = n + 1
          /\ \A i \in 1..n : handled'[i] = handled[i]
          /\ handled'[n + 1] = [ev |-> hand, writer |-> w]
      BY <1>1, DoneLemma
    <3>2. n \in Nat
      BY DEF TypeOK
    <3> QED
      BY <3>1, <3>2
  <2>2. \A i \in 1..(n + 1) : WriterBefore(i)' = WriterBefore(i)
    BY <2>1 DEF WriterBefore
  <2>3. WriterBefore(Len(handled) + 1)' = w
    BY <2>1 DEF WriterBefore
  <2>4. LastWriter'
    BY <1>1, <2>3 DEF LastWriter
  <2>5. w = WriterBefore(n + 1) + (IF loop = "closeOld" THEN 1 ELSE 0)
    BY <1>1 DEF LastWriter
  <2>6. ASSUME NEW i \in 1..Len(handled')
        PROVE  IF handled'[i].ev = Swap
               THEN handled'[i].writer \in {WriterBefore(i)', WriterBefore(i)' + 1}
               ELSE handled'[i].writer = WriterBefore(i)'
    <3>1. CASE i = n + 1
      <4>1. handled'[i].ev = hand /\ handled'[i].writer = w
            /\ WriterBefore(i)' = WriterBefore(n + 1)
        BY <2>1, <2>2, <3>1
      <4> QED
        BY <1>0, <1>1, <2>5, <4>1
    <3>2. CASE i \in 1..n
      BY <2>1, <2>2, <3>2 DEF SwapSplitsStream
    <3> QED
      BY <2>1, <3>1, <3>2
  <2> QED
    BY <2>4, <2>6 DEF SwapSplitsStream
<1>2. CASE WriteOne
  BY <1>0, <1>1, <1>2 DEF WriteOne, InHand
<1>3. CASE SwapFails
  BY <1>0, <1>1, <1>3 DEF SwapFails
<1>4. CASE SwapCloseOld
  BY <1>0, <1>1, <1>4 DEF SwapCloseOld, InHand
<1>5. CASE SwapInstall
  <2>1. \A i : WriterBefore(i)' = WriterBefore(i)
    BY <1>5 DEF SwapInstall, WriterBefore
  <2>2. SwapSplitsStream'
    BY <1>5, <2>1 DEF SwapInstall, SwapSplitsStream
  <2>3. LastWriter'
    BY <1>0, <1>5, <2>1 DEF SwapInstall, LastWriter
  <2> QED
    BY <2>2, <2>3
<1>6. CASE UNCHANGED <<writer, handled>> /\ (loop' = "closeOld") = (loop = "closeOld")
  BY <1>6 DEF LastWriter, SwapSplitsStream, WriterBefore
<1>7. [\E line \in Lines : Write(line)]_vars \/ PipelineReturn \/ SwapCall
      \/ SwapReturns \/ TakeEvent \/ StartDrain \/ DrainDone \/ Closing
      => UNCHANGED <<writer, handled>> /\ (loop' = "closeOld") = (loop = "closeOld")
  BY DEF Write, PipelineReturn, SwapCall, SwapReturns, SwapEnqueue, SwapGiveUp,
         TakeEvent, StartDrain, DrainDone, Closing, CloseCancel, CloseWriter, vars
<1> QED
  BY <1>2, <1>3, <1>4, <1>5, <1>6, <1>7 DEF Next, WriterLoop

-----------------------------------------------------------------------------
LEMMA InvInit == Init => IInv
<1> SUFFICES ASSUME Init PROVE IInv
  OBVIOUS
<1>1. TypeOK
  BY TypeInit
<1>2. Len(queue) = 0 /\ Len(enqueued) = 0 /\ Len(handled) = 0 /\ loop = "select"
  BY DEF Init
<1>3. HandledInOrder /\ Taken = 0
  BY <1>2 DEF HandledInOrder, Taken
<1>4. LastWriter /\ SwapSplitsStream
  BY <1>2 DEF Init, LastWriter, WriterBefore, SwapSplitsStream
<1>5. ClosedWriters
  BY DEF Init, ClosedWriters
<1>6. ShutdownOrder
  BY DEF Init, ShutdownOrder
<1>7. InHand /\ OnlySwapsLeft
  BY DEF Init, InHand, OnlySwapsLeft
<1> QED
  BY <1>1, <1>3, <1>4, <1>5, <1>6, <1>7 DEF IInv

LEMMA InvNext == IInv /\ [Next]_vars => IInv'
  BY TypeInductive, ControlInductive, OrderInductive, SplitInductive DEF IInv

LEMMA Invariance == Spec => []IInv
  BY InvInit, InvNext, PTL DEF Spec

\* Every accepted event is handled exactly once and in the order of acceptance
\* (writerLoop and drainQueue are the only receivers of om.queue).
THEOREM Order == Spec => []HandledInOrder
<1>1. IInv => HandledInOrder
  BY DEF IInv
<1> QED
  BY <1>1, Invariance, PTL

\* A line is written by the writer that the swaps queued before it left.
THEOREM Split == Spec => []SwapSplitsStream
<1>1. IInv => SwapSplitsStream
  BY DEF IInv
<1> QED
  BY <1>1, Invariance, PTL

\* No line is handed to a writer that performSwap or Close has closed.
THEOREM OpenWriter == Spec => []NoWriteToClosed
<1>1. IInv => NoWriteToClosed
  BY DEF IInv, TypeOK, ShutdownOrder, InHand, ClosedWriters, NoWriteToClosed
<1> QED
  BY <1>1, Invariance, PTL

\* Close returns with every accepted line written and every writer closed.
THEOREM Drains == Spec => []CloseDrains
<1>1. IInv => CloseDrains
  <2> SUFFICES ASSUME IInv, closer = "closed"
               PROVE  /\ \A i \in 1..Len(queue) : queue[i] = Swap
                      /\ closed = 0..writer
    BY DEF CloseDrains
  <2>1. loop = "exited" /\ \A i \in 1..Len(queue) : queue[i] = Swap
    BY DEF IInv, ShutdownOrder, OnlySwapsLeft
  <2>2. \A w \in Nat : w \in closed <=> w <= writer
    BY <2>1 DEF IInv, TypeOK, ClosedWriters
  <2>3. closed \subseteq Nat /\ writer \in Nat
    BY DEF IInv, TypeOK
  <2>4. \A w \in 0..writer : w \in closed
    BY <2>2, <2>3
  <2>5. \A w \in closed : w \in 0..writer
    BY <2>2, <2>3
  <2> QED
    BY <2>1, <2>4, <2>5
<1> QED
  BY <1>1, Invariance, PTL

\* A writer is closed after the lines accepted for it, and the writer in place
\* by Close alone.
THEOREM CloseOrder == Spec => ClosedAfterItsLines
<1> DEFINE A == closed' # closed =>
         /\ \A i \in (Len(handled) + 1)..Len(enqueued) :
               enqueued[i] # Swap =>
                 \E j \in (Len(handled) + 1)..(i - 1) : enqueued[j] = Swap
         /\ writer \in closed' => closer' = "closed"
<1>1. IInv /\ [Next]_vars => A
  <2> SUFFICES ASSUME IInv, Next, closed' # closed PROVE A
    BY DEF vars
  <2>1. Len(handled) \in Nat /\ Len(enqueued) \in Nat /\ Len(queue) \in Nat
    BY DEF IInv, TypeOK
  <2>2. CASE SwapCloseOld
    <3>1. enqueued[Len(handled) + 1] = Swap
      BY <2>1, <2>2 DEF SwapCloseOld, IInv, HandledInOrder, Taken, InHand
    <3>2. writer \notin closed' 
      BY <2>2 DEF SwapCloseOld, IInv, TypeOK, ClosedWriters, InHand, ShutdownOrder
    <3> QED
      BY <2>1, <3>1, <3>2
  <2>3. CASE CloseWriter
    <3>1. \A i \in 1..Len(queue) : enqueued[Len(handled) + i] = Swap
      BY <2>1, <2>3 DEF CloseWriter, IInv, HandledInOrder, Taken, OnlySwapsLeft
    <3>2. Len(enqueued) = Len(handled) + Len(queue)
      BY <2>1, <2>3 DEF CloseWriter, IInv, HandledInOrder, Taken
    <3>3. ASSUME NEW i \in (Len(handled) + 1)..Len(enqueued) PROVE enqueued[i] = Swap
      <4>1. i - Len(handled) \in 1..Len(queue) /\ i = Len(handled) + (i - Len(handled))
        BY <2>1, <3>2
      <4> QED
        BY <3>1, <4>1
    <3> QED
      BY <2>3, <3>3 DEF CloseWriter
  <2> QED
    BY <2>2, <2>3 DEF Next, WriterLoop, SwapReturns, Closing, Write, PipelineReturn,
       SwapCall, SwapEnqueue, SwapGiveUp, TakeEvent, WriteOne, SwapFails,
       SwapInstall, StartDrain, DrainDone, CloseCancel
<1> QED
  BY <1>1, Invariance, PTL DEF Spec, ClosedAfterItsLines

-----------------------------------------------------------------------------
(* The manager implements OutputStream.                                    *)

\* An event that is finished is the next one of the stream, and the writer it
\* leaves is what Deliver allows.
LEMMA FinishDelivers ==
  ASSUME IInv, NEW w \in Nat, Taken = Len(handled) + 1, Done(w),
         w = WriterBefore(Len(handled) + 1)
           \/ (hand = Swap /\ w = WriterBefore(Len(handled) + 1) + 1),
         UNCHANGED <<enqueued, dropped>>, closer # "closed", closer' # "closed"
  PROVE  Stream!Deliver
<1>1. /\ Len(handled) \in Nat /\ Len(enqueued) \in Nat /\ Len(queue) \in Nat
      /\ handled \in Seq(Outcome)
  BY DEF IInv, TypeOK
<1>2. enqueued[Len(handled) + 1] = hand /\ Len(handled) + 1 <= Len(enqueued)
  BY <1>1 DEF IInv, HandledInOrder
<1>3. Len(handled) + 1 \in (Len(handled) + 1)..Len(enqueued)
  BY <1>1, <1>2
<1>4. handled' = Append(handled, [ev |-> hand, writer |-> w])
  BY DEF Done
<1>5. WriterBefore(Len(handled) + 1)' = w
  <2>1. hand \in Event
    BY DEF IInv, TypeOK
  <2>2. [ev |-> hand, writer |-> w] \in Outcome
    BY <2>1 DEF Outcome
  <2>3. Len(handled') = Len(handled) + 1 /\ handled'[Len(handled) + 1] = [ev |-> hand, writer |-> w]
    BY <1>1, <1>4, <2>2
  <2> QED
    BY <1>1, <2>3 DEF WriterBefore
<1> QED
  BY <1>2, <1>3, <1>4, <1>5 DEF Stream!Deliver, Stream!Undelivered

\* A step that leaves the history and the flag alone is not seen.
LEMMA Unseen ==
  UNCHANGED <<enqueued, handled, dropped>> /\ (closer' = "closed") = (closer = "closed")
    => UNCHANGED Stream!streamVars
  BY DEF Stream!streamVars, WriterBefore

LEMMA StepSimulation == IInv /\ [Next]_vars => [Stream!StreamNext]_(Stream!streamVars)
<1> SUFFICES ASSUME IInv, [Next]_vars PROVE Stream!StreamNext \/ UNCHANGED Stream!streamVars
  OBVIOUS
<1> USE DEF IInv
<1>0. WriterBefore(Len(handled) + 1) \in Nat
  BY WriterType
<1>1. ASSUME NEW line \in Lines, Write(line) PROVE Stream!StreamNext
  <2>1. closer # "closed" /\ closer' # "closed"
    BY <1>1 DEF Write, ShutdownOrder
  <2>2. UNCHANGED <<handled, WriterBefore(Len(handled) + 1)>>
    BY <1>1 DEF Write, WriterBefore
  <2>3. CASE HasRoom
    BY <1>1, <2>1, <2>2, <2>3 DEF Write, Enqueue, Stream!StreamNext, Stream!AcceptLine
  <2>4. CASE ~HasRoom
    BY <1>1, <2>1, <2>2, <2>4 DEF Write, Stream!StreamNext, Stream!Refuse
  <2> QED
    BY <2>3, <2>4
<1>2. CASE SwapEnqueue
  BY <1>2 DEF SwapEnqueue, Enqueue, WriterBefore, Stream!StreamNext, Stream!AcceptSwap
<1>3. CASE WriteOne
  <2>1. /\ Taken = Len(handled) + 1
        /\ closer # "closed" /\ closer' # "closed"
        /\ target = WriterBefore(Len(handled) + 1) /\ target \in Nat
    BY <1>0, <1>3 DEF WriteOne, Taken, ShutdownOrder, InHand, LastWriter, TypeOK
  <2> QED
    BY <1>3, <2>1, FinishDelivers DEF WriteOne, Stream!StreamNext
<1>4. CASE SwapFails
  <2>1. /\ Taken = Len(handled) + 1
        /\ closer # "closed" /\ closer' # "closed"
        /\ writer = WriterBefore(Len(handled) + 1) /\ writer \in Nat
    BY <1>0, <1>4 DEF SwapFails, Taken, ShutdownOrder, LastWriter, TypeOK
  <2> QED
    BY <1>4, <2>1, FinishDelivers DEF SwapFails, Stream!StreamNext
<1>5. CASE SwapCloseOld
  <2>1. /\ Taken = Len(handled) + 1
        /\ closer # "closed" /\ closer' # "closed" /\ hand = Swap
        /\ writer = WriterBefore(Len(handled) + 1) + 1 /\ writer \in Nat
    BY <1>5 DEF SwapCloseOld, Taken, ShutdownOrder, LastWriter, InHand, TypeOK
  <2> QED
    BY <1>5, <2>1, FinishDelivers DEF SwapCloseOld, Stream!StreamNext
<1>6. CASE CloseWriter
  <2>1. Len(handled) \in Nat /\ Len(enqueued) \in Nat /\ Len(queue) \in Nat
    BY DEF TypeOK
  <2>2. Len(enqueued) = Len(handled) + Len(queue)
    BY <1>6, <2>1 DEF CloseWriter, HandledInOrder, Taken
  <2>3. ASSUME NEW i \in (Len(handled) + 1)..Len(enqueued) PROVE enqueued[i] = Swap
    <3>1. /\ i - Len(handled) \in 1..Len(queue)
          /\ i = Len(handled) + (i - Len(handled))
      BY <2>1, <2>2
    <3>2. enqueued[Len(handled) + (i - Len(handled))] = queue[i - Len(handled)]
      BY <1>6, <3>1 DEF CloseWriter, HandledInOrder, Taken
    <3> QED
      BY <1>6, <3>1, <3>2 DEF CloseWriter, OnlySwapsLeft
  <2>4. ~Stream!LineWaits
    BY <2>3 DEF Stream!LineWaits, Stream!Undelivered
  <2> QED
    BY <1>6, <2>4 DEF CloseWriter, WriterBefore, Stream!StreamNext, Stream!End
<1>7. CASE PipelineReturn \/ SwapCall \/ SwapGiveUp \/ TakeEvent \/ SwapInstall
           \/ StartDrain \/ DrainDone \/ CloseCancel \/ UNCHANGED vars
  <2>1. UNCHANGED <<enqueued, handled, dropped>> /\ (closer' = "closed") = (closer = "closed")
    BY <1>7 DEF PipelineReturn, SwapCall, SwapGiveUp, TakeEvent, SwapInstall,
                StartDrain, DrainDone, CloseCancel, vars
  <2> QED
    BY <2>1, Unseen
<1> QED
  BY <1>1, <1>2, <1>3, <1>4, <1>5, <1>6, <1>7 DEF Next, WriterLoop, SwapReturns, Closing

\* Every step of the output manager is a step of the stream its callers see, or
\* invisible to them.
THEOREM Refinement == Spec => Stream!StreamSpec
<1>1. Init => Stream!StreamInit
  BY DEF Init, WriterBefore, Stream!StreamInit
<1> QED
  BY <1>1, StepSimulation, Invariance, PTL DEF Spec, Stream!StreamSpec

=============================================================================
