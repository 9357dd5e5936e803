----------------------------- MODULE SinkProofs -----------------------------
(***************************************************************************)
(* The safety properties of the sinks of the log lines: Hub, for every set *)
(* of clients, every filter and every capacity of the channels, and        *)
(* Writers, for every configuration, every set of lines and every number   *)
(* of lines and seconds.                                                   *)
(***************************************************************************)
EXTENDS Hub, Writers, FiniteSetTheorems, TLAPS

-----------------------------------------------------------------------------
(* Hub.  The inductive invariant.                                          *)

\* A client is registered once in its life, by its handler: what waits in the
\* register channel is in the map or closed neither now nor twice later.
RegisteredOnce ==
    /\ \A c \in Clients : handler[c] # "registered" =>
          /\ c \notin clients
          /\ c \notin closed
          /\ \A i \in 1..Len(register) : register[i] # c
    /\ \A i \in 1..Len(register) : register[i] \notin clients /\ register[i] \notin closed
    /\ \A i, j \in 1..Len(register) : i # j => register[i] # register[j]

\* The lines on their way to the browser of client c.
Flow(c) == seen[c] \o send[c]

\* The lines of the broadcast channel are in order, and come after all that
\* were delivered.
BroadcastAhead ==
    /\ \A i, j \in 1..Len(broadcast) : i < j => broadcast[i] < broadcast[j]
    /\ \A i \in 1..Len(broadcast) : broadcast[i] <= lines
    /\ \A c \in Clients : \A i \in 1..Len(Flow(c)) :
          /\ Flow(c)[i] <= lines
          /\ \A j \in 1..Len(broadcast) : Flow(c)[i] < broadcast[j]

IInv ==
    /\ TypeOK
    /\ clients \cap closed = {}
    /\ RegisteredOnce
    /\ BroadcastAhead
    /\ InBroadcastOrder

-----------------------------------------------------------------------------
(* Lemmas about sequences.                                                 *)

LEMMA TailOf ==
  ASSUME NEW S, NEW q \in Seq(S), q # <<>>
  PROVE  /\ Tail(q) \in Seq(S)
         /\ Len(Tail(q)) = Len(q) - 1
         /\ Len(q) \in Nat /\ Len(q) >= 1
         /\ \A i \in 1..Len(Tail(q)) : i + 1 \in 1..Len(q) /\ Tail(q)[i] = q[i + 1]
         /\ 1 \in 1..Len(q)
         /\ Head(q) = q[1] /\ q[1] \in S
  OBVIOUS

LEMMA ElementOf ==
  ASSUME NEW S, NEW q \in Seq(S), NEW i \in 1..Len(q)
  PROVE  q[i] \in S
  OBVIOUS

LEMMA AppendOf ==
  ASSUME NEW S, NEW q \in Seq(S), NEW e \in S
  PROVE  /\ Append(q, e) \in Seq(S)
         /\ Len(Append(q, e)) = Len(q) + 1
         /\ Len(q) \in Nat
         /\ \A i \in 1..Len(q) : Append(q, e)[i] = q[i]
         /\ Append(q, e)[Len(q) + 1] = e
         /\ 1..Len(Append(q, e)) = 1..Len(q) \cup {Len(q) + 1}
  OBVIOUS

\* A channel that is sent to only while it has room stays within its capacity.
LEMMA BoundedAppend ==
  ASSUME NEW S, NEW q \in Seq(S), NEW e \in S, NEW cap \in Nat, Len(q) <= cap,
         NEW q2, q2 = IF Len(q) < cap THEN Append(q, e) ELSE q
  PROVE  q2 \in Seq(S) /\ Len(q2) <= cap
  BY AppendOf

\* Writing the first queued line leaves the flow as it was.
LEMMA FlowOfWrite ==
  ASSUME NEW S, NEW s \in Seq(S), NEW q \in Seq(S), q # <<>>
  PROVE  Append(s, Head(q)) \o Tail(q) = s \o q
  OBVIOUS

\* Queueing a line adds it at the end of the flow.
LEMMA FlowOfDeliver ==
  ASSUME NEW S, NEW s \in Seq(S), NEW q \in Seq(S), NEW e \in S
  PROVE  /\ s \o q \in Seq(S)
         /\ s \o Append(q, e) = Append(s \o q, e)
  OBVIOUS

LEMMA Capacities ==
  /\ ConnCap \in Nat
  /\ SendCap \in Nat
  /\ BroadcastCap \in Nat
  /\ MaxLines \in Nat
  BY HubAssumption

\* Register and Unregister put a client into room, or give up after Stop.
LEMMA PutLemma ==
  ASSUME NEW chan \in Seq(Clients), Len(chan) <= ConnCap,
         NEW chan2, NEW c \in Clients, Put(chan, chan2, c)
  PROVE  chan2 \in Seq(Clients) /\ Len(chan2) <= ConnCap
<1>1. CASE Len(chan) < ConnCap /\ chan2 = Append(chan, c)
  BY <1>1, AppendOf, Capacities
<1>2. CASE chan2 = chan
  BY <1>2
<1> QED
  BY <1>1, <1>2 DEF Put

-----------------------------------------------------------------------------
(* Each part of the invariant is inductive relative to the others.         *)

LEMMA TypeInductive == TypeOK /\ [Next]_vars => TypeOK'
<1> SUFFICES ASSUME TypeOK, [Next]_vars PROVE TypeOK'
  OBVIOUS
<1> USE Capacities DEF hubVars
<1>1. CASE RunRegister
  <2>1. /\ Tail(register) \in Seq(Clients)
        /\ Len(Tail(register)) <= ConnCap
        /\ Head(register) \in Clients
    BY <1>1, TailOf DEF RunRegister, TypeOK
  <2> QED
    BY <1>1, <2>1 DEF RunRegister, TypeOK
<1>2. CASE RunUnregister
  <2>1. /\ Tail(unregister) \in Seq(Clients)
        /\ Len(Tail(unregister)) <= ConnCap
    BY <1>2, TailOf DEF RunUnregister, TypeOK
  <2> QED
    BY <1>2, <2>1 DEF RunUnregister, TypeOK
<1>3. CASE RunBroadcast
  <2>1. /\ Tail(broadcast) \in Seq(1..MaxLines)
        /\ Len(Tail(broadcast)) <= BroadcastCap
        /\ Head(broadcast) \in 1..MaxLines
    BY <1>3, TailOf DEF RunBroadcast, TypeOK
  <2>2. ASSUME NEW c \in Clients
        PROVE  /\ Deliver(send[c], Head(broadcast)) \in Seq(1..MaxLines)
               /\ Len(Deliver(send[c], Head(broadcast))) <= SendCap
    <3>1. send[c] \in Seq(1..MaxLines) /\ Len(send[c]) <= SendCap
      BY DEF TypeOK
    <3> QED
      BY <2>1, <3>1, BoundedAppend DEF Deliver
  <2>3. /\ send' \in [Clients -> Seq(1..MaxLines)]
        /\ \A c \in Clients : Len(send'[c]) <= SendCap
    BY <1>3, <2>1, <2>2 DEF RunBroadcast, TypeOK
  <2> QED
    BY <1>3, <2>1, <2>3 DEF RunBroadcast, TypeOK
<1>4. CASE RunDone
  BY <1>4 DEF RunDone, TypeOK
<1>5. CASE Broadcast
  <2>1. lines + 1 \in 1..MaxLines
    BY <1>5 DEF Broadcast, TypeOK
  <2>2. broadcast' \in Seq(1..MaxLines) /\ Len(broadcast') <= BroadcastCap
    <3>1. broadcast \in Seq(1..MaxLines) /\ Len(broadcast) <= BroadcastCap
      BY DEF TypeOK
    <3> QED
      BY <1>5, <2>1, <3>1, BoundedAppend DEF Broadcast
  <2>3. lines' \in 0..MaxLines
    BY <1>5, <2>1 DEF Broadcast
  <2> QED
    BY <1>5, <2>2, <2>3 DEF Broadcast, TypeOK
<1>6. CASE Stop
  BY <1>6 DEF Stop, TypeOK
<1>7. ASSUME NEW c \in Clients, Connect(c) PROVE TypeOK'
  BY <1>7 DEF Connect, TypeOK
<1>8. ASSUME NEW c \in Clients, Disconnect(c) PROVE TypeOK'
  BY <1>8 DEF Disconnect, TypeOK
<1>9. ASSUME NEW c \in Clients, ReadRejects(c) PROVE TypeOK'
  BY <1>9 DEF ReadRejects, TypeOK, Pump
<1>10. ASSUME NEW c \in Clients, Register(c) PROVE TypeOK'
  <2>1. register' \in Seq(Clients) /\ Len(register') <= ConnCap
    BY <1>10, PutLemma DEF Register, TypeOK
  <2> QED
    BY <1>10, <2>1 DEF Register, TypeOK, Pump
<1>11. ASSUME NEW c \in Clients, ReadEnds(c) PROVE TypeOK'
  BY <1>11 DEF ReadEnds, TypeOK, Pump
<1>12. ASSUME NEW c \in Clients, ReadUnregister(c) PROVE TypeOK'
  <2>1. unregister' \in Seq(Clients) /\ Len(unregister') <= ConnCap
    BY <1>12, PutLemma DEF ReadUnregister, TypeOK
  <2> QED
    BY <1>12, <2>1 DEF ReadUnregister, TypeOK, Pump
<1>13. ASSUME NEW c \in Clients, WriteLine(c) PROVE TypeOK'
  <2>1. /\ Tail(send[c]) \in Seq(1..MaxLines)
        /\ Len(Tail(send[c])) <= SendCap
        /\ Head(send[c]) \in 1..MaxLines
    BY <1>13, TailOf DEF WriteLine, TypeOK
  <2>2. Append(seen[c], Head(send[c])) \in Seq(1..MaxLines)
    BY <2>1, AppendOf DEF TypeOK
  <2> QED
    BY <1>13, <2>1, <2>2 DEF WriteLine, TypeOK
<1>14. ASSUME NEW c \in Clients, WriteEnds(c) PROVE TypeOK'
  BY <1>14 DEF WriteEnds, TypeOK, Pump
<1>15. ASSUME NEW c \in Clients, WriteUnregister(c) PROVE TypeOK'
  <2>1. unregister' \in Seq(Clients) /\ Len(unregister') <= ConnCap
    BY <1>15, PutLemma DEF WriteUnregister, TypeOK
  <2> QED
    BY <1>15, <2>1 DEF WriteUnregister, TypeOK, Pump
<1>16. CASE UNCHANGED vars
  BY <1>16 DEF vars, TypeOK
<1> QED
  BY <1>1, <1>2, <1>3, <1>4, <1>5, <1>6, <1>7, <1>8, <1>9, <1>10, <1>11,
     <1>12, <1>13, <1>14, <1>15, <1>16 DEF Next, Run, Conn

\* A client's channel is closed as it leaves the map, and no client comes back.
LEMMA RegisteredInductive ==
  TypeOK /\ clients \cap closed = {} /\ RegisteredOnce /\ [Next]_vars
    => (clients \cap closed = {})' /\ RegisteredOnce'
<1> SUFFICES ASSUME TypeOK, clients \cap closed = {}, RegisteredOnce, [Next]_vars
             PROVE  (clients \cap closed = {})' /\ RegisteredOnce'
  OBVIOUS
<1> USE DEF hubVars
<1>1. CASE RunRegister
  <2>1. /\ Len(register') = Len(register) - 1
        /\ Len(register) \in Nat /\ Len(register) >= 1
        /\ \A i \in 1..Len(register') : i + 1 \in 1..Len(register) /\ register'[i] = register[i + 1]
        /\ 1 \in 1..Len(register)
        /\ Head(register) = register[1] /\ register[1] \in Clients
    BY <1>1, TailOf DEF RunRegister, TypeOK
  <2>2. \A i \in 1..Len(register') : register'[i] # register[1]
    BY <2>1 DEF RegisteredOnce
  <2>3. \A i, j \in 1..Len(register') : i # j => register'[i] # register'[j]
    BY <2>1 DEF RegisteredOnce
  <2>4. /\ clients' = clients \cup {register[1]}
        /\ UNCHANGED <<closed, handler>>
    BY <1>1, <2>1 DEF RunRegister
  <2>5. register[1] \notin closed /\ handler[register[1]] = "registered"
    BY <2>1 DEF RegisteredOnce
  <2> QED
    BY <2>1, <2>2, <2>3, <2>4, <2>5 DEF RegisteredOnce
<1>2. CASE RunUnregister \/ RunDone
  BY <1>2 DEF RunUnregister, RunDone, RegisteredOnce
<1>3. ASSUME NEW c \in Clients, Register(c)
      PROVE  (clients \cap closed = {})' /\ RegisteredOnce'
  <2>1. /\ handler[c] = "upgraded"
        /\ handler' = [handler EXCEPT ![c] = "registered"]
        /\ UNCHANGED <<clients, closed>>
    BY <1>3 DEF Register
  <2>2. CASE register' = Append(register, c)
    <3>1. /\ 1..Len(register') = 1..Len(register) \cup {Len(register) + 1}
          /\ \A i \in 1..Len(register) : register'[i] = register[i]
          /\ register'[Len(register) + 1] = c
          /\ Len(register) \in Nat
      BY <2>2, AppendOf DEF TypeOK
    <3>2. \A i \in 1..Len(register) : register[i] # c
      BY <2>1 DEF RegisteredOnce
    <3>3. c \notin clients /\ c \notin closed
      BY <2>1 DEF RegisteredOnce
    <3> QED
      BY <2>1, <3>1, <3>2, <3>3 DEF RegisteredOnce, TypeOK
  <2>3. CASE register' = register
    BY <2>1, <2>3 DEF RegisteredOnce, TypeOK
  <2> QED
    BY <1>3, <2>2, <2>3 DEF Register, Put
<1>4. ASSUME NEW c \in Clients, Connect(c)
      PROVE  (clients \cap closed = {})' /\ RegisteredOnce'
  BY <1>4 DEF Connect, RegisteredOnce, TypeOK
<1>5. CASE UNCHANGED <<clients, closed, register, handler>>
  BY <1>5 DEF RegisteredOnce
<1> QED
  BY <1>1, <1>2, <1>3, <1>4, <1>5
     DEF Next, Run, RunBroadcast, Broadcast, Stop, Disconnect, ReadRejects, Conn,
         ReadEnds, ReadUnregister, WriteLine, WriteEnds, WriteUnregister, vars

\* A strictly increasing sequence stays so when a greater number is added, and
\* when its first one is removed.
Increasing(f) == \A i, j \in 1..Len(f) : i < j => f[i] < f[j]

LEMMA IncreasingAppend ==
  ASSUME NEW S \in SUBSET Nat, NEW f \in Seq(S), NEW e \in S, Increasing(f),
         \A i \in 1..Len(f) : f[i] < e
  PROVE  Increasing(Append(f, e))
<1> DEFINE g == Append(f, e)
<1>1. /\ Len(f) \in Nat
      /\ \A i \in 1..Len(f) : g[i] = f[i]
      /\ g[Len(f) + 1] = e
      /\ Len(g) = Len(f) + 1
  BY AppendOf
<1> HIDE DEF g
<1>2. ASSUME NEW i \in 1..Len(g), NEW j \in 1..Len(g), i < j PROVE g[i] < g[j]
  <2>1. i \in 1..Len(f)
    BY <1>1, <1>2
  <2>2. CASE j \in 1..Len(f)
    BY <1>1, <1>2, <2>1, <2>2 DEF Increasing
  <2>3. CASE j = Len(f) + 1
    BY <1>1, <2>1, <2>3
  <2> QED
    BY <1>1, <2>2, <2>3
<1>3. Increasing(g)
  BY <1>2 DEF Increasing
<1> QED
  BY <1>3 DEF g

LEMMA IncreasingTail ==
  ASSUME NEW S \in SUBSET Nat, NEW f \in Seq(S), f # <<>>, Increasing(f)
  PROVE  /\ Increasing(Tail(f))
         /\ \A i \in 1..Len(Tail(f)) : Head(f) < Tail(f)[i]
<1>1. /\ Len(Tail(f)) = Len(f) - 1
      /\ Len(f) \in Nat
      /\ \A i \in 1..Len(Tail(f)) : i + 1 \in 1..Len(f) /\ Tail(f)[i] = f[i + 1]
      /\ 1 \in 1..Len(f)
      /\ Head(f) = f[1]
  BY TailOf
<1>2. PICK g : g = Tail(f)
  OBVIOUS
<1>3. \A i, j \in 1..Len(g) : i < j => g[i] < g[j]
  BY <1>1, <1>2 DEF Increasing
<1>4. \A i \in 1..Len(g) : 1 < i + 1
  BY <1>1, <1>2
<1>5. \A i \in 1..Len(g) : f[1] < g[i]
  BY <1>1, <1>2, <1>4 DEF Increasing
<1> QED
  BY <1>1, <1>2, <1>3, <1>5 DEF Increasing

\* What one flow must satisfy, given what is still to be broadcast.
FlowOK(c, f, b, n) ==
    /\ Increasing(f)
    /\ \A i \in 1..Len(f) : Wants(c, f[i]) /\ f[i] <= n
    /\ \A i \in 1..Len(f) : \A j \in 1..Len(b) : f[i] < b[j]

QueueOK(b, n) == Increasing(b) /\ \A i \in 1..Len(b) : b[i] <= n

LEMMA OrderParts ==
  BroadcastAhead /\ InBroadcastOrder <=>
    QueueOK(broadcast, lines) /\ \A c \in Clients : FlowOK(c, Flow(c), broadcast, lines)
  BY DEF BroadcastAhead, InBroadcastOrder, FlowOK, QueueOK, Increasing, Flow

LEMMA OrderPartsPrime ==
  (BroadcastAhead /\ InBroadcastOrder)' <=>
    QueueOK(broadcast', lines') /\ \A c \in Clients : FlowOK(c, seen'[c] \o send'[c], broadcast', lines')
  BY DEF BroadcastAhead, InBroadcastOrder, FlowOK, QueueOK, Increasing, Flow

LEMMA FlowType ==
  ASSUME TypeOK, NEW c \in Clients
  PROVE  Flow(c) \in Seq(1..MaxLines) /\ 1..MaxLines \in SUBSET Nat
  BY Capacities DEF TypeOK, Flow

LEMMA OrderInductive ==
  TypeOK /\ BroadcastAhead /\ InBroadcastOrder /\ [Next]_vars
    => BroadcastAhead' /\ InBroadcastOrder'
<1> SUFFICES ASSUME TypeOK, BroadcastAhead, InBroadcastOrder, [Next]_vars
             PROVE  /\ QueueOK(broadcast', lines')
                    /\ \A c \in Clients : FlowOK(c, seen'[c] \o send'[c], broadcast', lines')
  BY OrderPartsPrime
<1>0. /\ QueueOK(broadcast, lines)
      /\ \A c \in Clients : FlowOK(c, Flow(c), broadcast, lines)
      /\ broadcast \in Seq(1..MaxLines)
      /\ lines \in Nat
  BY OrderParts, Capacities DEF TypeOK
<1> USE DEF hubVars
<1>1. CASE UNCHANGED <<broadcast, lines, seen, send>>
  BY <1>0, <1>1 DEF Flow
<1>2. ASSUME NEW d \in Clients, WriteLine(d)
      PROVE  /\ QueueOK(broadcast', lines')
             /\ \A c \in Clients : FlowOK(c, seen'[c] \o send'[c], broadcast', lines')
  <2>1. /\ send[d] \in Seq(1..MaxLines) /\ send[d] # <<>>
        /\ seen[d] \in Seq(1..MaxLines)
        /\ seen'[d] = Append(seen[d], Head(send[d]))
        /\ send'[d] = Tail(send[d])
        /\ \A c \in Clients \ {d} : seen'[c] = seen[c] /\ send'[c] = send[c]
        /\ UNCHANGED <<broadcast, lines>>
    BY <1>2 DEF WriteLine, TypeOK
  <2>2. seen'[d] \o send'[d] = Flow(d)
    BY <2>1, FlowOfWrite DEF Flow
  <2>3. \A c \in Clients : seen'[c] \o send'[c] = Flow(c)
    BY <2>1, <2>2 DEF Flow
  <2> QED
    BY <1>0, <2>1, <2>3
<1>3. CASE RunBroadcast
  <2>1. PICK n : n = Head(broadcast)
    OBVIOUS
  <2>2. /\ broadcast # <<>>
        /\ broadcast' = Tail(broadcast)
        /\ UNCHANGED <<lines, seen>>
        /\ \A c \in Clients : send'[c] =
             IF c \in clients /\ Wants(c, n) THEN Deliver(send[c], n) ELSE send[c]
    BY <1>3, <2>1 DEF RunBroadcast
  <2>3. /\ Len(broadcast') = Len(broadcast) - 1
        /\ Len(broadcast) \in Nat
        /\ \A i \in 1..Len(broadcast') : i + 1 \in 1..Len(broadcast) /\ broadcast'[i] = broadcast[i + 1]
        /\ 1 \in 1..Len(broadcast)
        /\ n = broadcast[1] /\ n \in 1..MaxLines
    BY <1>0, <2>1, <2>2, TailOf
  <2>4. /\ Increasing(broadcast')
        /\ \A i \in 1..Len(broadcast') : n < broadcast'[i]
    <3>1. 1..MaxLines \in SUBSET Nat
      BY Capacities
    <3> QED
      BY <1>0, <2>1, <2>2, <3>1, IncreasingTail DEF QueueOK
  <2>5. QueueOK(broadcast', lines')
    BY <1>0, <2>2, <2>3, <2>4 DEF QueueOK
  <2>6. ASSUME NEW c \in Clients PROVE FlowOK(c, seen'[c] \o send'[c], broadcast', lines')
    <3>1. PICK f : f = Flow(c)
      OBVIOUS
    <3>2. f \in Seq(1..MaxLines) /\ 1..MaxLines \in SUBSET Nat
      BY <3>1, FlowType
    <3>3. FlowOK(c, f, broadcast, lines)
      BY <1>0, <3>1
    <3>4. FlowOK(c, f, broadcast', lines)
      BY <2>3, <3>3 DEF FlowOK
    <3>5. CASE send'[c] = send[c]
      BY <2>2, <3>1, <3>4, <3>5 DEF Flow
    <3>6. CASE Wants(c, n) /\ send'[c] = Append(send[c], n)
      <4>1. seen'[c] \o send'[c] = Append(f, n)
        <5>1. seen[c] \in Seq(1..MaxLines) /\ send[c] \in Seq(1..MaxLines) /\ seen'[c] = seen[c]
          BY <2>2 DEF TypeOK
        <5>2. PICK s, q, S : s = seen[c] /\ q = send[c] /\ S = 1..MaxLines
          OBVIOUS
        <5>3. s \o Append(q, n) = Append(s \o q, n)
          <6>1. s \in Seq(S) /\ q \in Seq(S) /\ n \in S
            BY <2>3, <5>1, <5>2
          <6> QED
            BY <6>1, FlowOfDeliver
        <5>4. f = s \o q
          BY <3>1, <5>2 DEF Flow
        <5> QED
          BY <3>6, <5>1, <5>2, <5>3, <5>4
      <4>2. \A i \in 1..Len(f) : f[i] < n
        BY <2>3, <3>3 DEF FlowOK
      <4>3. Increasing(Append(f, n))
        BY <2>3, <3>2, <3>3, <4>2, IncreasingAppend DEF FlowOK
      <4>4. n <= lines
        BY <1>0, <2>3 DEF QueueOK
      <4>5. PICK g : g = Append(f, n)
        OBVIOUS
      <4>6. /\ 1..Len(g) = 1..Len(f) \cup {Len(f) + 1}
            /\ \A i \in 1..Len(f) : g[i] = f[i]
            /\ g[Len(f) + 1] = n
        BY <2>3, <3>2, <4>5, AppendOf
      <4>7. \A i \in 1..Len(g) : Wants(c, g[i]) /\ g[i] <= lines
        BY <3>4, <3>6, <4>4, <4>6 DEF FlowOK
      <4>8. \A i \in 1..Len(g) : \A j \in 1..Len(broadcast') : g[i] < broadcast'[j]
        BY <2>4, <3>4, <4>6 DEF FlowOK
      <4> QED
        BY <2>2, <4>1, <4>3, <4>5, <4>7, <4>8 DEF FlowOK
    <3> QED
      BY <2>2, <3>5, <3>6 DEF Deliver
  <2> QED
    BY <2>5, <2>6
<1>4. CASE Broadcast
  <2>1. /\ lines' = lines + 1
        /\ lines + 1 \in 1..MaxLines
        /\ UNCHANGED <<seen, send>>
        /\ broadcast' = Append(broadcast, lines + 1) \/ broadcast' = broadcast
    BY <1>0, <1>4, Capacities DEF Broadcast, TypeOK
  <2>2. \A i \in 1..Len(broadcast) : broadcast[i] \in Nat /\ broadcast[i] < lines + 1
    <3>1. \A i \in 1..Len(broadcast) : broadcast[i] \in 1..MaxLines
      BY <1>0, ElementOf
    <3>2. \A i \in 1..Len(broadcast) : broadcast[i] <= lines
      BY <1>0 DEF QueueOK
    <3> QED
      BY <1>0, <3>1, <3>2, Capacities
  <2>3. ASSUME NEW c \in Clients
        PROVE  \A i \in 1..Len(Flow(c)) : Flow(c)[i] \in Nat /\ Flow(c)[i] < lines + 1
    <3>1. PICK f : f = Flow(c)
      OBVIOUS
    <3>2. f \in Seq(1..MaxLines)
      BY <3>1, FlowType
    <3>3. \A i \in 1..Len(f) : f[i] \in 1..MaxLines
      BY <3>2, ElementOf
    <3>4. \A i \in 1..Len(f) : f[i] <= lines
      BY <1>0, <3>1 DEF FlowOK
    <3>5. \A i \in 1..Len(f) : f[i] \in Nat /\ f[i] < lines + 1
      BY <1>0, <3>3, <3>4, Capacities
    <3> QED
      BY <3>1, <3>5
  <2>4. CASE broadcast' = broadcast
    <3>1. QueueOK(broadcast', lines')
      BY <1>0, <2>1, <2>2, <2>4 DEF QueueOK
    <3>2. ASSUME NEW c \in Clients PROVE FlowOK(c, Flow(c), broadcast', lines')
      BY <1>0, <2>1, <2>3, <2>4 DEF FlowOK
    <3> QED
      BY <2>1, <3>1, <3>2 DEF Flow
  <2>5. CASE broadcast' = Append(broadcast, lines + 1)
    <3>1. /\ 1..Len(broadcast') = 1..Len(broadcast) \cup {Len(broadcast) + 1}
          /\ \A i \in 1..Len(broadcast) : broadcast'[i] = broadcast[i]
          /\ broadcast'[Len(broadcast) + 1] = lines + 1
      BY <1>0, <2>1, <2>5, AppendOf
    <3>2. 1..MaxLines \in SUBSET Nat
      BY Capacities
    <3>3. Increasing(broadcast')
      BY <1>0, <2>1, <2>2, <2>5, <3>2, IncreasingAppend DEF QueueOK
    <3>4. QueueOK(broadcast', lines')
      BY <1>0, <2>1, <2>2, <3>1, <3>3 DEF QueueOK
    <3>5. ASSUME NEW c \in Clients PROVE FlowOK(c, Flow(c), broadcast', lines')
      BY <1>0, <2>1, <2>3, <3>1 DEF FlowOK
    <3> QED
      BY <2>1, <3>4, <3>5 DEF Flow
  <2> QED
    BY <2>1, <2>4, <2>5
<1> QED
  BY <1>1, <1>2, <1>3, <1>4
     DEF Next, Run, RunRegister, RunUnregister, RunDone, Stop, Connect, Disconnect,
         ReadRejects, Conn, Register, ReadEnds, ReadUnregister, WriteEnds,
         WriteUnregister, vars

LEMMA InvariantInit == Init => IInv
<1> SUFFICES ASSUME Init PROVE IInv
  OBVIOUS
<1>1. /\ <<>> \in Seq(Clients) /\ <<>> \in Seq(1..MaxLines) /\ Len(<<>>) = 0
      /\ <<>> \o <<>> = <<>>
  OBVIOUS
<1>2. TypeOK
  <2>1. /\ 0 <= ConnCap /\ 0 <= BroadcastCap /\ 0 <= SendCap
        /\ 0 \in 0..MaxLines
    BY Capacities
  <2>2. /\ send \in [Clients -> Seq(1..MaxLines)]
        /\ seen \in [Clients -> Seq(1..MaxLines)]
        /\ \A c \in Clients : Len(send[c]) <= SendCap
    BY <1>1, <2>1 DEF Init
  <2> QED
    BY <1>1, <2>1, <2>2 DEF Init, TypeOK, Pump
<1>3. clients \cap closed = {} /\ RegisteredOnce
  BY <1>1 DEF Init, RegisteredOnce
<1>4. \A c \in Clients : Len(Flow(c)) = 0
  BY <1>1 DEF Init, Flow
<1>5. BroadcastAhead /\ InBroadcastOrder
  BY <1>1, <1>4 DEF Init, BroadcastAhead, InBroadcastOrder, Flow
<1> QED
  BY <1>2, <1>3, <1>5 DEF IInv

LEMMA InvariantHolds == Spec => []IInv
<1>1. IInv /\ [Next]_vars => IInv'
  BY TypeInductive, RegisteredInductive, OrderInductive DEF IInv
<1> QED
  BY <1>1, InvariantInit, PTL DEF Spec

-----------------------------------------------------------------------------
(* The theorems.                                                           *)

\* Run never sends on a closed channel and never closes one twice, and every
\* channel stays within its capacity.
THEOREM NoPanic == Spec => []MappedAreOpen
<1>1. IInv => MappedAreOpen
  BY DEF IInv, MappedAreOpen
<1> QED
  BY <1>1, InvariantHolds, PTL

\* A browser sees only lines it wants, in the order of the broadcasts, and none
\* twice.
THEOREM BrowserOrder == Spec => []InBroadcastOrder
<1>1. IInv => InBroadcastOrder
  BY DEF IInv
<1> QED
  BY <1>1, InvariantHolds, PTL

-----------------------------------------------------------------------------
(* Writers.  The inductive invariant.                                      *)

\* Where the caller is when it works for a line, and what it has opened by then.
CallerOK ==
    /\ caller = "file" => handle = "none"
    /\ handle = "none" => path \in DOMAIN disk
    /\ caller = "fileWrite" => line \in Lines
    /\ caller \in {"fileWrite", "webhookWrite"} => count \in 1..MaxWrites
    /\ \A id \in DOMAIN wrote : id <= count
    /\ caller = "fileWrite" => count \notin DOMAIN wrote
    /\ caller = "webhookWrite" => count \in DOMAIN wrote

\* The lines of a file were written when it was last changed at the latest.
HoldsLines(f, L) ==
    /\ f.whole
    /\ f.lines = L
    /\ \A id \in L : wrote[id] <= f.mtime

PathOK ==
    path \in DOMAIN disk =>
        /\ disk[path].lines \subseteq DOMAIN wrote
        /\ HoldsLines(disk[path], disk[path].lines)

InRotation(id) == \E t \in Times : \E i \in 1..Len(rotatedAt[t]) : id \in rotatedAt[t][i]

\* A line that was written is in the file, or was when it was rotated.
WroteOK ==
    \A id \in DOMAIN wrote :
        /\ wrote[id] <= now
        /\ (path \in DOMAIN disk /\ id \in disk[path].lines) \/ InRotation(id)

RotatedOK ==
    \A t \in Times :
        /\ t > now => rotatedAt[t] = <<>>
        /\ \A i \in 1..Len(rotatedAt[t]) : \A id \in rotatedAt[t][i] :
              id \in DOMAIN wrote /\ wrote[id] <= t
        /\ rotatedAt[t] = <<>> => Rotated(t) \notin DOMAIN disk /\ Gz(t) \notin DOMAIN disk

\* One goroutine compresses the file of a rotation.
GzipsOK ==
    /\ \A g \in gzips : g.nr < Len(rotatedAt[g.at])
    /\ \A g, h \in gzips : g.at = h.at /\ g.nr = h.nr => g = h

\* The file need not be kept any longer.
Gone(L) == maxAge > 0 /\ \A id \in L : now - wrote[id] > maxAge

Compressed(t) == Gz(t) \in DOMAIN disk /\ disk[Gz(t)].whole

\* The lines L of the only file rotated at t: they are in the rotated file until
\* the compressed one is complete.
KeptAt(t, L) ==
    /\ Rotated(t) \in DOMAIN disk => HoldsLines(disk[Rotated(t)], L)
    /\ Gz(t) \in DOMAIN disk =>
          disk[Gz(t)].mtime >= t /\ (disk[Gz(t)].whole => disk[Gz(t)].lines = L)
    /\ \A g \in gzips : g.at = t =>
          /\ g.step = "copy" => g.lines = L
          /\ g.step \in {"start", "copy"} => Gone(L) \/ Rotated(t) \in DOMAIN disk
          /\ g.step = "copy" => Gone(L) \/ Gz(t) \in DOMAIN disk
          /\ g.step = "remove" => Gone(L) \/ Compressed(t)
    /\ Gone(L) \/ Rotated(t) \in DOMAIN disk \/ Compressed(t)

Single(t) == Len(rotatedAt[t]) = 1

Kept == \A t \in Times : Single(t) => KeptAt(t, rotatedAt[t][1])

\* The names a cleaner is about to remove belong to rotations whose lines need
\* not be kept any longer.
Removable(t) == rotatedAt[t] # <<>> /\ (Single(t) => Gone(rotatedAt[t][1]))

CleanersOK ==
    /\ cleaners # {} => maxAge > 0
    /\ \A c \in cleaners : c.step = "remove" =>
          \A t \in Times : {Rotated(t), Gz(t)} \cap c.old # {} => Removable(t)

Keeps == PathOK /\ WroteOK /\ RotatedOK /\ GzipsOK /\ Kept /\ CleanersOK

\* Every line is in one place.
Finished(id) == received[id] = 1 \/ id \in dropped

NoRepeats(s) == \A i, j \in DOMAIN s : s[i] = s[j] => i = j

PlacesOK ==
    /\ NoRepeats(buffer) /\ \A p \in Posters : NoRepeats(inFlight[p])
    /\ \A id \in Items :
          /\ received[id] <= 1
          /\ id \in Elements(buffer) =>
                id \in accepted /\ ~Finished(id) /\ \A p \in Posters : id \notin Elements(inFlight[p])
          /\ \A p \in Posters : id \in Elements(inFlight[p]) =>
                id \in accepted /\ ~Finished(id) /\ \A q \in Posters \ {p} : id \notin Elements(inFlight[q])
          /\ Finished(id) => id \in accepted
          /\ id \in accepted =>
                id \in Elements(buffer) \/ Finished(id) \/ \E p \in Posters : id \in Elements(inFlight[p])

WebhookOK ==
    /\ accepted \subseteq DOMAIN wrote
    /\ caller = "webhookWrite" => count \notin accepted
    /\ inFlight["caller"] # <<>> => caller \in {"post", "final"}
    /\ inFlight["loop"] # <<>> => loop = "post"
    /\ batchSize = 0 <=> caller \in {"file", "webhook", "failed"}
    /\ batchSize > 0 /\ caller # "flush" => Len(buffer) < batchSize
    /\ loop = "none" <=> batchSize = 0
    /\ caller \in {"final", "closed"} => buffer = <<>> /\ loop = "done"

WritersInv == WritersTypeOK /\ CallerOK /\ Keeps /\ FileBounded /\ PlacesOK /\ WebhookOK

-----------------------------------------------------------------------------
(* The file writer keeps its lines.                                        *)

\* The names of files are all different.
LEMMA NamesDiffer ==
  ASSUME NEW t, NEW u
  PROVE  /\ Rotated(t) # path /\ Gz(t) # path
         /\ Rotated(t) # Gz(u)
         /\ Rotated(t) = Rotated(u) => t = u
         /\ Gz(t) = Gz(u) => t = u
<1>1. Rotated(t) # path /\ Gz(t) # path
  BY DEF Rotated, Gz, path
<1>2. Rotated(t) # Gz(u)
  BY DEF Rotated, Gz
<1>3. Rotated(t) = Rotated(u) => t = u
  BY DEF Rotated
<1>4. Gz(t) = Gz(u) => t = u
  BY DEF Gz
<1> QED
  BY <1>1, <1>2, <1>3, <1>4

\* What the type of the file's state says of the numbers in it.
LEMMA FileNumbers ==
  ASSUME FileTypeOK
  PROVE  /\ now \in Nat /\ maxAge \in Nat /\ maxSize \in Nat /\ size \in Nat
         /\ \A t \in Times : t \in Nat
         /\ \A id \in DOMAIN wrote : wrote[id] \in Nat
         /\ \A n \in DOMAIN disk : disk[n].mtime \in Nat /\ disk[n].bytes \in Nat
  BY FileWriterAssumption DEF FileTypeOK, Times, File

LEMMA KeptNext ==
  ASSUME \A t \in Times : \A L : Len(rotatedAt'[t]) = 1 /\ rotatedAt'[t][1] = L => KeptAt(t, L)'
  PROVE  Kept'
  BY DEF Kept, Single, KeptAt, HoldsLines, Compressed, Gone

\* Time passes and lines are written: what need not be kept need not be kept later.
LEMMA GoneStays ==
  ASSUME FileTypeOK, FileTypeOK', NEW L, L \subseteq DOMAIN wrote, Gone(L),
         maxAge' = maxAge, now' >= now,
         \A id \in L : id \in DOMAIN wrote' /\ wrote'[id] = wrote[id]
  PROVE  Gone(L)'
<1>1. now' \in Nat
  BY FileWriterAssumption DEF FileTypeOK, Times
<1>2. \A id \in L : wrote[id] \in Nat /\ now - wrote[id] > maxAge
  BY FileNumbers DEF Gone
<1>3. \A id \in L : now' - wrote'[id] > maxAge'
  BY <1>1, <1>2, FileNumbers
<1> QED
  BY <1>3 DEF Gone

\* The files and goroutines of a second that a step does not touch.
LEMMA KeptFrame ==
  ASSUME NEW t, NEW L, KeptAt(t, L), Gone(L) => Gone(L)',
         \A id \in L : wrote'[id] = wrote[id],
         \A n \in {Rotated(t), Gz(t)} :
            /\ n \in DOMAIN disk' <=> n \in DOMAIN disk
            /\ n \in DOMAIN disk => disk'[n] = disk[n],
         \A g \in gzips' : g.at = t => g \in gzips
  PROVE  KeptAt(t, L)'
<1>1. Compressed(t)' <=> Compressed(t)
  BY DEF Compressed
<1>2. Rotated(t) \in DOMAIN disk' => HoldsLines(disk[Rotated(t)], L)'
  BY DEF KeptAt, HoldsLines
<1>3. Gz(t) \in DOMAIN disk' =>
          disk'[Gz(t)].mtime >= t /\ (disk'[Gz(t)].whole => disk'[Gz(t)].lines = L)
  BY DEF KeptAt
<1>4. \A g \in gzips' : g.at = t =>
          /\ g.step = "copy" => g.lines = L
          /\ g.step \in {"start", "copy"} => Gone(L)' \/ Rotated(t) \in DOMAIN disk'
          /\ g.step = "copy" => Gone(L)' \/ Gz(t) \in DOMAIN disk'
          /\ g.step = "remove" => Gone(L)' \/ Compressed(t)'
  BY <1>1 DEF KeptAt
<1>5. Gone(L)' \/ Rotated(t) \in DOMAIN disk' \/ Compressed(t)'
  BY <1>1 DEF KeptAt
<1> QED
  BY <1>2, <1>3, <1>4, <1>5, Zenon DEF KeptAt

\* A step that leaves all of this as it is.
LEMMA KeepsSame ==
  ASSUME Keeps, UNCHANGED <<now, maxAge, disk, gzips, cleaners, wrote, rotatedAt>>
  PROVE  Keeps'
<1>1. PathOK' /\ WroteOK'
  BY DEF Keeps, PathOK, WroteOK, HoldsLines, InRotation
<1>2. RotatedOK' /\ GzipsOK'
  BY DEF Keeps, RotatedOK, GzipsOK
<1>3. Kept'
  BY DEF Keeps, Kept, Single, KeptAt, HoldsLines, Compressed, Gone
<1>4. CleanersOK'
  BY DEF Keeps, CleanersOK, Removable, Single, Gone
<1> QED
  BY <1>1, <1>2, <1>3, <1>4 DEF Keeps

\* What no step of the file writer does: turn the clock or the history back.
Onward ==
    /\ maxAge' = maxAge
    /\ now' >= now
    /\ \A id \in DOMAIN wrote : id \in DOMAIN wrote' /\ wrote'[id] = wrote[id]
    /\ \A t \in Times : rotatedAt[t] # <<>> => rotatedAt'[t] = rotatedAt[t] \/ Len(rotatedAt'[t]) > 1

LEMMA RotationLines ==
  ASSUME FileTypeOK, RotatedOK, NEW t \in Times, NEW L, Len(rotatedAt[t]) = 1, rotatedAt[t][1] = L
  PROVE  /\ L \subseteq DOMAIN wrote
         /\ \A id \in L : wrote[id] <= t
         /\ t <= now
<1>1. 1 \in 1..Len(rotatedAt[t]) /\ rotatedAt[t] # <<>>
  OBVIOUS
<1> QED
  BY <1>1, FileNumbers DEF RotatedOK

\* The lines of a second that a step does not touch.
LEMMA KeptOthers ==
  ASSUME FileTypeOK, FileTypeOK', Keeps, Onward,
         NEW t \in Times, NEW L, Len(rotatedAt[t]) = 1, rotatedAt[t][1] = L,
         \A n \in {Rotated(t), Gz(t)} :
            /\ n \in DOMAIN disk' <=> n \in DOMAIN disk
            /\ n \in DOMAIN disk => disk'[n] = disk[n],
         \A g \in gzips' : g.at = t => g \in gzips
  PROVE  KeptAt(t, L)'
<1>1. L \subseteq DOMAIN wrote
  BY RotationLines DEF Keeps
<1>2. Gone(L) => Gone(L)'
  BY <1>1, GoneStays DEF Onward
<1>3. \A id \in L : wrote'[id] = wrote[id]
  BY <1>1 DEF Onward
<1>4. KeptAt(t, L)
  BY DEF Keeps, Kept, Single
<1> QED
  BY <1>2, <1>3, <1>4, KeptFrame

LEMMA LongerThanOne ==
  ASSUME NEW S, NEW q \in Seq(S), Len(q) > 1
  PROVE  q # <<>> /\ Len(q) # 1
<1>1. ASSUME Len(q) = 1 PROVE FALSE
  BY <1>1
<1>2. ASSUME q = <<>> PROVE FALSE
  BY <1>2
<1> QED
  BY <1>1, <1>2

\* A cleaner that has chosen its files may remove them later as well.
LEMMA RemovableStays ==
  ASSUME FileTypeOK, FileTypeOK', RotatedOK, Onward, NEW t \in Times, Removable(t)
  PROVE  Removable(t)'
<1>1. rotatedAt[t] # <<>>
  BY DEF Removable
<1>2. CASE Len(rotatedAt'[t]) > 1
  <2>1. rotatedAt'[t] \in Seq(SUBSET (1..MaxWrites))
    BY DEF FileTypeOK
  <2>2. rotatedAt'[t] # <<>> /\ Len(rotatedAt'[t]) # 1
    BY <1>2, <2>1, LongerThanOne
  <2> QED
    BY <2>2, Zenon DEF Removable, Single
<1>3. CASE rotatedAt'[t] = rotatedAt[t]
  <2>1. PICK L : L = rotatedAt[t][1]
    OBVIOUS
  <2>2. Len(rotatedAt[t]) = 1 => Gone(L)'
    BY <2>1, RotationLines, GoneStays DEF Onward, Removable, Single
  <2>3. Len(rotatedAt'[t]) = 1 => Gone(rotatedAt[t][1])'
    BY <1>3, <2>1, <2>2 DEF Gone
  <2> QED
    BY <1>1, <1>3, <2>3 DEF Removable, Single
<1> QED
  BY <1>1, <1>2, <1>3 DEF Onward

LEMMA CleanersFrame ==
  ASSUME FileTypeOK, FileTypeOK', Keeps, Onward,
         cleaners' # {} => maxAge > 0,
         \A c \in cleaners' : c.step = "remove" => c \in cleaners
  PROVE  CleanersOK'
<1>1. SUFFICES ASSUME NEW c \in cleaners', c.step = "remove",
                      NEW t \in Times, {Rotated(t), Gz(t)} \cap c.old # {}
               PROVE  Removable(t)'
  BY DEF CleanersOK, Onward
<1>2. Removable(t)
  BY <1>1 DEF Keeps, CleanersOK
<1> QED
  BY <1>2, RemovableStays DEF Keeps

LEMMA TickKeeps ==
  ASSUME FileTypeOK, Keeps, Tick
  PROVE  FileTypeOK' /\ Keeps'
<1> USE DEF Tick
<1>1. FileTypeOK'
  BY FileWriterAssumption DEF FileTypeOK, Times, fileConfig
<1>2. now' >= now
  BY FileNumbers
<1>3. Onward
  BY <1>2 DEF Onward, fileConfig
<1>4. PathOK'
  BY DEF Keeps, PathOK, HoldsLines
<1>5. WroteOK'
  BY FileNumbers DEF Keeps, WroteOK, InRotation
<1>6. RotatedOK'
  BY FileNumbers DEF Keeps, RotatedOK
<1>7. GzipsOK'
  BY DEF Keeps, GzipsOK
<1>8. Kept'
  <2>1. ASSUME NEW t \in Times, NEW L, Len(rotatedAt'[t]) = 1, rotatedAt'[t][1] = L
        PROVE  KeptAt(t, L)'
    BY <1>1, <1>3, <2>1, KeptOthers
  <2> QED
    BY <2>1, KeptNext
<1>9. CleanersOK'
  BY <1>1, <1>3, CleanersFrame DEF Keeps, CleanersOK
<1> QED
  BY <1>1, <1>4, <1>5, <1>6, <1>7, <1>8, <1>9 DEF Keeps

\* The goroutines leave the clock, the history and the file itself alone.
Background ==
    /\ UNCHANGED <<now, maxSize, maxAge, compress, handle, size, wrote, rotatedAt>>
    /\ path \in DOMAIN disk' <=> path \in DOMAIN disk
    /\ path \in DOMAIN disk => disk'[path] = disk[path]

LEMMA BackgroundFrame ==
  ASSUME Keeps, FileTypeOK, Background,
         \A t \in Times : rotatedAt[t] = <<>> => Rotated(t) \notin DOMAIN disk' /\ Gz(t) \notin DOMAIN disk'
  PROVE  PathOK' /\ WroteOK' /\ RotatedOK' /\ Onward
<1>1. Onward
  BY FileNumbers DEF Background, Onward
<1>2. PathOK'
  BY DEF Keeps, PathOK, HoldsLines, Background
<1>3. WroteOK'
  BY DEF Keeps, WroteOK, InRotation, Background
<1>4. RotatedOK'
  BY DEF Keeps, RotatedOK, Background
<1> QED
  BY <1>1, <1>2, <1>3, <1>4

\* A file rotated alone in its second has one compressor at most.
LEMMA OneCompressor ==
  ASSUME FileTypeOK, GzipsOK, NEW t \in Times, Len(rotatedAt[t]) = 1,
         NEW g \in gzips, NEW h \in gzips, g.at = t, h.at = t
  PROVE  g = h
<1>1. g.nr \in Nat /\ h.nr \in Nat
  BY DEF FileTypeOK
<1>2. g.nr < 1 /\ h.nr < 1
  BY DEF GzipsOK
<1> QED
  BY <1>1, <1>2 DEF GzipsOK

LEMMA GzipsStep ==
  ASSUME GzipsOK, rotatedAt' = rotatedAt, NEW g \in gzips, NEW h, h.at = g.at, h.nr = g.nr,
         gzips' \in {gzips, gzips \ {g}, Step(gzips, g, h)}
  PROVE  GzipsOK'
  BY DEF GzipsOK, Step

LEMMA OpenFailedKeeps ==
  ASSUME FileTypeOK, Keeps, Background, disk' = disk, cleaners' = cleaners, gzips' \subseteq gzips
  PROVE  FileTypeOK' /\ Keeps'
<1>1. FileTypeOK'
  BY DEF FileTypeOK, Background
<1>2. PathOK' /\ WroteOK' /\ RotatedOK' /\ Onward
  BY BackgroundFrame DEF Keeps, RotatedOK
<1>3. GzipsOK'
  BY DEF Keeps, GzipsOK, Background
<1>4. ASSUME NEW t \in Times, NEW L, Len(rotatedAt'[t]) = 1, rotatedAt'[t][1] = L
      PROVE  KeptAt(t, L)'
  BY <1>1, <1>2, <1>4, KeptOthers DEF Background
<1>5. CleanersOK'
  BY <1>1, <1>2, CleanersFrame DEF Keeps, CleanersOK
<1> QED
  BY <1>1, <1>2, <1>3, <1>4, <1>5, KeptNext DEF Keeps

\* OpenSource creates an unfinished file; the rotated one is there.
LEMMA OpenSourceKeeps ==
  ASSUME FileTypeOK, Keeps, NEW g \in gzips, OpenSource(g)
  PROVE  FileTypeOK' /\ Keeps' /\ Background
<1>1. CASE OpenFailed(g)
  <2>1. Background
    BY <1>1 DEF OpenSource, OpenFailed, Background, fileConfig
  <2> QED
    BY <1>1, <2>1, OpenFailedKeeps DEF OpenFailed, OpenSource
<1>2. CASE ~OpenFailed(g)
  <2>0. g.at \in Times /\ g.nr \in Nat /\ g \in [at : Times, nr : Nat, step : {"start", "copy", "remove"},
                      lines : SUBSET (1..MaxWrites)]
    BY DEF FileTypeOK
  <2>1. PICK h : h = [g EXCEPT !.step = "copy", !.lines = disk[Rotated(g.at)].lines]
    OBVIOUS
  <2>2. PICK f : f = [lines |-> {}, bytes |-> 0, mtime |-> now, whole |-> FALSE]
    OBVIOUS
  <2>3. /\ Rotated(g.at) \in DOMAIN disk /\ g.step = "start"
        /\ gzips' = Step(gzips, g, h)
        /\ disk' = Updated(disk, Gz(g.at), f)
        /\ UNCHANGED <<now, fileConfig, handle, size, cleaners, wrote, rotatedAt>>
    BY <1>2, <2>1, <2>2 DEF OpenSource
  <2>4. /\ DOMAIN disk' = DOMAIN disk \cup {Gz(g.at)}
        /\ disk'[Gz(g.at)] = f
        /\ \A n \in DOMAIN disk : n # Gz(g.at) => disk'[n] = disk[n]
    <3>1. disk' = Updated(disk, Gz(g.at), f)
      BY <2>3
    <3> QED
      BY <3>1 DEF Updated
  <2>5. Background
    BY <2>3, <2>4, NamesDiffer DEF Background, fileConfig
  <2>6. /\ h.at = g.at /\ h.nr = g.nr /\ h.step = "copy" /\ h.lines = disk[Rotated(g.at)].lines
        /\ h \in [at : Times, nr : Nat, step : {"start", "copy", "remove"}, lines : SUBSET (1..MaxWrites)]
    BY <2>0, <2>1, <2>3 DEF FileTypeOK, File
  <2>7. f \in File /\ Gz(g.at) \in Names /\ f.mtime = now /\ ~f.whole
    BY <2>0, <2>2 DEF FileTypeOK, File, Names
  <2>8. FileTypeOK'
    <3>1. DOMAIN disk' \subseteq Names /\ \A n \in DOMAIN disk' : disk'[n] \in File
      BY <2>4, <2>7 DEF FileTypeOK
    <3>2. gzips' \subseteq [at : Times, nr : Nat, step : {"start", "copy", "remove"}, lines : SUBSET (1..MaxWrites)]
      BY <2>3, <2>6 DEF FileTypeOK, Step
    <3> QED
      BY <3>1, <3>2, <2>3, <2>5 DEF FileTypeOK, Background
  <2>9. rotatedAt[g.at] # <<>>
    BY <2>0, <2>3 DEF Keeps, RotatedOK
  <2>10. PathOK' /\ WroteOK' /\ RotatedOK' /\ Onward
    <3>1. \A t \in Times : rotatedAt[t] = <<>> => Rotated(t) \notin DOMAIN disk' /\ Gz(t) \notin DOMAIN disk'
      BY <2>4, <2>9, NamesDiffer DEF Keeps, RotatedOK
    <3> QED
      BY <3>1, <2>5, BackgroundFrame
  <2>11. GzipsOK'
    BY <2>3, <2>6, GzipsStep DEF Keeps
  <2>12. ASSUME NEW t \in Times, NEW L, Len(rotatedAt'[t]) = 1, rotatedAt'[t][1] = L
         PROVE  KeptAt(t, L)'
    <3>1. Len(rotatedAt[t]) = 1 /\ rotatedAt[t][1] = L
      BY <2>3, <2>12
    <3>2. CASE g.at # t
      <4>1. Gz(t) # Gz(g.at) /\ Rotated(t) # Gz(g.at)
        BY <3>2, NamesDiffer
      <4>2. \A e \in gzips' : e.at = t => e \in gzips
        BY <2>3, <2>6, <3>2 DEF Step
      <4> QED
        BY <3>1, <4>1, <4>2, <2>4, <2>8, <2>10, KeptOthers
    <3>3. CASE g.at = t
      <4>1. Rotated(t) \in DOMAIN disk /\ HoldsLines(disk[Rotated(t)], L)
        BY <2>3, <3>1, <3>3 DEF Keeps, Kept, Single, KeptAt
      <4>2. Rotated(t) \in DOMAIN disk' /\ HoldsLines(disk[Rotated(t)], L)'
        BY <4>1, <2>3, <2>4, NamesDiffer DEF HoldsLines
      <4>3. Gz(t) \in DOMAIN disk' /\ disk'[Gz(t)] = f
        BY <2>4, <3>3
      <4>4. t <= now
        BY <3>1, RotationLines DEF Keeps
      <4>5. \A e \in gzips' : e.at = t => e = h
        BY <3>1, <3>3, <2>3, OneCompressor DEF Keeps, Step
      <4>6. h.step = "copy" /\ h.lines = L
        BY <2>6, <3>3, <4>1 DEF HoldsLines
      <4>7. disk'[Gz(t)].mtime >= t /\ ~disk'[Gz(t)].whole
        BY <4>3, <4>4, <2>7, FileNumbers
      <4> QED
        BY <4>2, <4>3, <4>5, <4>6, <4>7 DEF KeptAt
    <3> QED
      BY <3>2, <3>3
  <2>13. CleanersOK'
    BY <2>3, <2>8, <2>10, CleanersFrame DEF Keeps, CleanersOK
  <2> QED
    BY <2>5, <2>8, <2>10, <2>11, <2>12, <2>13, KeptNext DEF Keeps
<1> QED
  BY <1>1, <1>2

\* Copy completes the compressed file, unless a cleaner has removed it.
LEMMA CopyKeeps ==
  ASSUME FileTypeOK, Keeps, NEW g \in gzips, Copy(g)
  PROVE  FileTypeOK' /\ Keeps' /\ Background
<1>1. CASE disk' = disk /\ gzips' = CopyFailed(g)
  <2>1. Background
    BY <1>1 DEF Copy, Background, fileConfig
  <2> QED
    BY <1>1, <2>1, OpenFailedKeeps DEF CopyFailed, Copy
<1>2. CASE ~(disk' = disk /\ gzips' = CopyFailed(g))
  <2>0. g \in [at : Times, nr : Nat, step : {"start", "copy", "remove"}, lines : SUBSET (1..MaxWrites)]
    BY DEF FileTypeOK
  <2>1. PICK h : h = [g EXCEPT !.step = "remove"]
    OBVIOUS
  <2>2. PICK f : f = [disk[Gz(g.at)] EXCEPT !.lines = g.lines, !.mtime = now, !.whole = TRUE]
    OBVIOUS
  <2>3. /\ g.step = "copy"
        /\ gzips' = Step(gzips, g, h)
        /\ disk' = IF Gz(g.at) \notin DOMAIN disk THEN disk ELSE [disk EXCEPT ![Gz(g.at)] = f]
        /\ UNCHANGED <<now, fileConfig, handle, size, cleaners, wrote, rotatedAt>>
    BY <1>2, <2>1, <2>2 DEF Copy
  <2>4. /\ DOMAIN disk' = DOMAIN disk
        /\ Gz(g.at) \in DOMAIN disk => disk'[Gz(g.at)] = f
        /\ \A n \in DOMAIN disk : n # Gz(g.at) => disk'[n] = disk[n]
    BY <2>3
  <2>5. Background
    BY <2>3, <2>4, NamesDiffer DEF Background, fileConfig
  <2>6. /\ h.at = g.at /\ h.nr = g.nr /\ h.step = "remove"
        /\ h \in [at : Times, nr : Nat, step : {"start", "copy", "remove"}, lines : SUBSET (1..MaxWrites)]
    BY <2>0, <2>1
  <2>7. Gz(g.at) \in DOMAIN disk => f \in File /\ f.mtime = now /\ f.whole /\ f.lines = g.lines
    BY <2>0, <2>2 DEF FileTypeOK, File
  <2>8. FileTypeOK'
    <3>1. DOMAIN disk' \subseteq Names /\ \A n \in DOMAIN disk' : disk'[n] \in File
      BY <2>4, <2>7 DEF FileTypeOK
    <3>2. gzips' \subseteq [at : Times, nr : Nat, step : {"start", "copy", "remove"}, lines : SUBSET (1..MaxWrites)]
      BY <2>3, <2>6 DEF FileTypeOK, Step
    <3> QED
      BY <3>1, <3>2, <2>3, <2>5 DEF FileTypeOK, Background
  <2>9. PathOK' /\ WroteOK' /\ RotatedOK' /\ Onward
    BY <2>4, <2>5, BackgroundFrame DEF Keeps, RotatedOK
  <2>10. GzipsOK'
    BY <2>3, <2>6, GzipsStep DEF Keeps
  <2>11. ASSUME NEW t \in Times, NEW L, Len(rotatedAt'[t]) = 1, rotatedAt'[t][1] = L
         PROVE  KeptAt(t, L)'
    <3>1. Len(rotatedAt[t]) = 1 /\ rotatedAt[t][1] = L
      BY <2>3, <2>11
    <3>2. CASE g.at # t
      <4>1. Gz(t) # Gz(g.at) /\ Rotated(t) # Gz(g.at)
        BY <3>2, NamesDiffer
      <4>2. \A e \in gzips' : e.at = t => e \in gzips
        BY <2>3, <2>6, <3>2 DEF Step
      <4> QED
        BY <3>1, <4>1, <4>2, <2>4, <2>8, <2>9, KeptOthers
    <3>3. CASE g.at = t
      <4>1. KeptAt(t, L)
        BY <3>1 DEF Keeps, Kept, Single
      <4>2. Rotated(t) \in DOMAIN disk' => HoldsLines(disk[Rotated(t)], L)'
        BY <4>1, <2>3, <2>4, NamesDiffer DEF KeptAt, HoldsLines
      <4>3. g.lines = L /\ (Gone(L) \/ Rotated(t) \in DOMAIN disk) /\ (Gone(L) \/ Gz(t) \in DOMAIN disk)
        BY <4>1, <3>3, <2>3 DEF KeptAt
      <4>4. t <= now
        BY <3>1, RotationLines DEF Keeps
      <4>5. \A e \in gzips' : e.at = t => e = h
        BY <3>1, <3>3, <2>3, OneCompressor DEF Keeps, Step
      <4>6. Gz(t) \in DOMAIN disk => disk'[Gz(t)].mtime >= t /\ disk'[Gz(t)].whole /\ disk'[Gz(t)].lines = L
        BY <4>3, <4>4, <3>3, <2>4, <2>7, FileNumbers
      <4>7. Gone(L)' <=> Gone(L)
        BY <2>5 DEF Gone, Background
      <4>8. Gone(L)' \/ Compressed(t)'
        BY <4>3, <4>6, <4>7, <2>4 DEF Compressed
      <4> QED
        BY <4>2, <4>5, <4>6, <4>8, <2>4, <2>6 DEF KeptAt
    <3> QED
      BY <3>2, <3>3
  <2>12. CleanersOK'
    BY <2>3, <2>8, <2>9, CleanersFrame DEF Keeps, CleanersOK
  <2> QED
    BY <2>5, <2>8, <2>9, <2>10, <2>11, <2>12, KeptNext DEF Keeps
<1> QED
  BY <1>1, <1>2

\* The compressed file is complete when the rotated one is removed.
LEMMA RemoveKeeps ==
  ASSUME FileTypeOK, Keeps, NEW g \in gzips, Remove(g)
  PROVE  FileTypeOK' /\ Keeps' /\ Background
<1>0. g.at \in Times
  BY DEF FileTypeOK
<1>1. /\ g.step = "remove"
      /\ gzips' = gzips \ {g}
      /\ UNCHANGED <<now, fileConfig, handle, size, cleaners, wrote, rotatedAt>>
  BY DEF Remove
<1>2. /\ DOMAIN disk' \subseteq DOMAIN disk
      /\ \A n \in DOMAIN disk : n # Rotated(g.at) => n \in DOMAIN disk'
      /\ \A n \in DOMAIN disk' : disk'[n] = disk[n]
  BY DEF Remove, Without
<1>3. Background
  BY <1>1, <1>2, NamesDiffer DEF Background, fileConfig
<1>4. FileTypeOK'
  BY <1>1, <1>2, <1>3 DEF FileTypeOK, Background
<1>5. PathOK' /\ WroteOK' /\ RotatedOK' /\ Onward
  BY <1>2, <1>3, BackgroundFrame DEF Keeps, RotatedOK
<1>6. GzipsOK'
  BY <1>1, GzipsStep DEF Keeps
<1>7. ASSUME NEW t \in Times, NEW L, Len(rotatedAt'[t]) = 1, rotatedAt'[t][1] = L
      PROVE  KeptAt(t, L)'
  <2>1. Len(rotatedAt[t]) = 1 /\ rotatedAt[t][1] = L
    BY <1>1, <1>7
  <2>2. CASE g.at # t
    <3>1. Gz(t) # Rotated(g.at) /\ Rotated(t) # Rotated(g.at)
      BY <2>2, NamesDiffer
    <3> QED
      BY <2>1, <3>1, <1>1, <1>2, <1>4, <1>5, KeptOthers
  <2>3. CASE g.at = t
    <3>1. KeptAt(t, L)
      BY <2>1 DEF Keeps, Kept, Single
    <3>2. Rotated(t) \in DOMAIN disk' => HoldsLines(disk[Rotated(t)], L)'
      BY <3>1, <1>1, <1>2 DEF KeptAt, HoldsLines
    <3>3. \A e \in gzips' : e.at # t
      BY <2>1, <2>3, <1>1, OneCompressor DEF Keeps
    <3>4. Gone(L) \/ Compressed(t)
      BY <3>1, <2>3, <1>1 DEF KeptAt
    <3>5. Gone(L)' <=> Gone(L)
      BY <1>3 DEF Gone, Background
    <3>6. /\ Gz(t) \in DOMAIN disk' <=> Gz(t) \in DOMAIN disk
          /\ Gz(t) \in DOMAIN disk => disk'[Gz(t)] = disk[Gz(t)]
      BY <1>2, NamesDiffer
    <3>7. Gone(L)' \/ Compressed(t)'
      BY <3>4, <3>5, <3>6 DEF Compressed
    <3> QED
      BY <3>1, <3>2, <3>3, <3>6, <3>7 DEF KeptAt
  <2> QED
    BY <2>2, <2>3
<1>8. CleanersOK'
  BY <1>1, <1>4, <1>5, CleanersFrame DEF Keeps, CleanersOK
<1> QED
  BY <1>3, <1>4, <1>5, <1>6, <1>7, <1>8, KeptNext DEF Keeps

\* A file that is too old holds lines that are too old.
LEMMA ScannedRemovable ==
  ASSUME FileTypeOK, Keeps, maxAge > 0, NEW t \in Times,
         NEW n \in DOMAIN disk, n \in {Rotated(t), Gz(t)}, TooOld(disk[n])
  PROVE  Removable(t)
<1>1. rotatedAt[t] # <<>>
  BY DEF Keeps, RotatedOK
<1>2. ASSUME NEW L, Len(rotatedAt[t]) = 1, rotatedAt[t][1] = L
      PROVE  Gone(L)
  <2>1. KeptAt(t, L)
    BY <1>2 DEF Keeps, Kept, Single
  <2>2. L \subseteq DOMAIN wrote /\ \A id \in L : wrote[id] <= t
    BY <1>2, RotationLines DEF Keeps
  <2>3. \A id \in L : wrote[id] <= disk[n].mtime
    <3>1. CASE n = Rotated(t)
      BY <2>1, <3>1 DEF KeptAt, HoldsLines
    <3>2. CASE n = Gz(t)
      <4>1. disk[n].mtime >= t
        BY <2>1, <3>2 DEF KeptAt
      <4> QED
        BY <4>1, <2>2, FileNumbers
    <3> QED
      BY <3>1, <3>2
  <2>4. disk[n].mtime < now - maxAge
    BY DEF TooOld
  <2>5. \A id \in L : now - wrote[id] > maxAge
    BY <2>2, <2>3, <2>4, FileNumbers
  <2> QED
    BY <2>5 DEF Gone
<1> QED
  BY <1>1, <1>2 DEF Removable, Single

LEMMA ScanKeeps ==
  ASSUME FileTypeOK, Keeps, NEW c \in cleaners, Scan(c)
  PROVE  FileTypeOK' /\ Keeps' /\ Background
<1>0. c \in [at : Times, nr : Nat, step : {"scan", "remove"}, old : SUBSET (Names \ {path})]
  BY DEF FileTypeOK
<1>1. PICK old : old = {n \in DOMAIN disk \ {path} : TooOld(disk[n])}
  OBVIOUS
<1>2. PICK d : d = [c EXCEPT !.step = "remove", !.old = old]
  OBVIOUS
<1>3. /\ c.step = "scan"
      /\ cleaners' \subseteq cleaners \cup {d}
      /\ UNCHANGED <<now, fileConfig, disk, handle, size, gzips, wrote, rotatedAt>>
  BY <1>1, <1>2 DEF Scan, Step
<1>4. d \in [at : Times, nr : Nat, step : {"scan", "remove"}, old : SUBSET (Names \ {path})] /\ d.old = old
  BY <1>0, <1>1, <1>2 DEF FileTypeOK
<1>5. Background
  BY <1>3 DEF Background, fileConfig
<1>6. FileTypeOK'
  BY <1>3, <1>4, <1>5 DEF FileTypeOK, Background
<1>7. PathOK' /\ WroteOK' /\ RotatedOK' /\ Onward
  BY <1>3, <1>5, BackgroundFrame DEF Keeps, RotatedOK
<1>8. GzipsOK'
  BY <1>3 DEF Keeps, GzipsOK
<1>9. ASSUME NEW t \in Times, NEW L, Len(rotatedAt'[t]) = 1, rotatedAt'[t][1] = L
      PROVE  KeptAt(t, L)'
  BY <1>3, <1>6, <1>7, <1>9, KeptOthers
<1>10. maxAge > 0
  BY DEF Keeps, CleanersOK
<1>11. CleanersOK'
  <2>1. SUFFICES ASSUME NEW e \in cleaners', e.step = "remove",
                        NEW t \in Times, {Rotated(t), Gz(t)} \cap e.old # {}
                 PROVE  Removable(t)'
    BY <1>3, <1>10 DEF CleanersOK, fileConfig
  <2>2. Removable(t)
    <3>1. CASE e \in cleaners
      BY <2>1, <3>1 DEF Keeps, CleanersOK
    <3>2. CASE e = d
      <4>1. PICK n \in DOMAIN disk : n \in {Rotated(t), Gz(t)} /\ TooOld(disk[n])
        BY <2>1, <3>2, <1>1, <1>4
      <4> QED
        BY <4>1, <1>10, ScannedRemovable
    <3> QED
      BY <1>3, <3>1, <3>2
  <2> QED
    BY <2>2, <1>6, <1>7, RemovableStays DEF Keeps
<1> QED
  BY <1>5, <1>6, <1>7, <1>8, <1>9, <1>11, KeptNext DEF Keeps

LEMMA RemoveOldKeeps ==
  ASSUME FileTypeOK, Keeps, NEW c \in cleaners, RemoveOld(c)
  PROVE  FileTypeOK' /\ Keeps' /\ Background
<1>0. c.old \subseteq Names \ {path}
  BY DEF FileTypeOK
<1>1. /\ c.step = "remove"
      /\ cleaners' = cleaners \ {c}
      /\ UNCHANGED <<now, fileConfig, handle, size, gzips, wrote, rotatedAt>>
  BY DEF RemoveOld
<1>2. /\ DOMAIN disk' = DOMAIN disk \ c.old
      /\ \A n \in DOMAIN disk' : disk'[n] = disk[n]
  BY DEF RemoveOld, Without
<1>3. Background
  BY <1>0, <1>1, <1>2 DEF Background, fileConfig
<1>4. FileTypeOK'
  BY <1>1, <1>2, <1>3 DEF FileTypeOK, Background
<1>5. PathOK' /\ WroteOK' /\ RotatedOK' /\ Onward
  BY <1>2, <1>3, BackgroundFrame DEF Keeps, RotatedOK
<1>6. GzipsOK'
  BY <1>1 DEF Keeps, GzipsOK
<1>7. ASSUME NEW t \in Times, NEW L, Len(rotatedAt'[t]) = 1, rotatedAt'[t][1] = L
      PROVE  KeptAt(t, L)'
  <2>1. Len(rotatedAt[t]) = 1 /\ rotatedAt[t][1] = L
    BY <1>1, <1>7
  <2>2. CASE {Rotated(t), Gz(t)} \cap c.old = {}
    BY <2>1, <2>2, <1>1, <1>2, <1>4, <1>5, KeptOthers
  <2>3. CASE {Rotated(t), Gz(t)} \cap c.old # {}
    <3>1. KeptAt(t, L)
      BY <2>1 DEF Keeps, Kept, Single
    <3>2. Gone(L)
      BY <2>1, <2>3, <1>1 DEF Keeps, CleanersOK, Removable, Single
    <3>3. Gone(L)'
      BY <3>2, <1>3 DEF Gone, Background
    <3>4. Rotated(t) \in DOMAIN disk' => HoldsLines(disk[Rotated(t)], L)'
      BY <3>1, <1>1, <1>2 DEF KeptAt, HoldsLines
    <3>5. Gz(t) \in DOMAIN disk' =>
             disk'[Gz(t)].mtime >= t /\ (disk'[Gz(t)].whole => disk'[Gz(t)].lines = L)
      BY <3>1, <1>2 DEF KeptAt
    <3> QED
      BY <3>1, <3>3, <3>4, <3>5, <1>1 DEF KeptAt
  <2> QED
    BY <2>2, <2>3
<1>8. CleanersOK'
  BY <1>1, <1>4, <1>5, CleanersFrame DEF Keeps, CleanersOK
<1> QED
  BY <1>3, <1>4, <1>5, <1>6, <1>7, <1>8, KeptNext DEF Keeps

\* A line that is written is noted with the time, once.
LEMMA WroteNext ==
  ASSUME FileTypeOK, NEW id \in 1..MaxWrites, id \notin DOMAIN wrote, NEW ok \in BOOLEAN,
         wrote' = IF ok THEN Updated(wrote, id, now) ELSE wrote
  PROVE  /\ \A x \in DOMAIN wrote : x \in DOMAIN wrote' /\ wrote'[x] = wrote[x]
         /\ \A x \in DOMAIN wrote' : x \in DOMAIN wrote \/ (ok /\ x = id /\ wrote'[x] = now)
         /\ ok => id \in DOMAIN wrote'
         /\ DOMAIN wrote' \subseteq 1..MaxWrites
         /\ \A x \in DOMAIN wrote' : wrote'[x] \in Times
<1>1. CASE ok
  BY <1>1 DEF FileTypeOK, Updated
<1>2. CASE ~ok
  BY <1>2 DEF FileTypeOK
<1> QED
  BY <1>1, <1>2

LEMMA AppendedFile ==
  ASSUME NEW f \in File, now \in Times, NEW id \in 1..MaxWrites, NEW n \in Nat, NEW all \in BOOLEAN,
         NEW h, h = Appended(f, id, n, all)
  PROVE  /\ h \in File
         /\ h.lines = IF all THEN f.lines \cup {id} ELSE f.lines
         /\ h.bytes = f.bytes + n /\ h.mtime = now /\ h.whole = f.whole
<1>1. PICK L : L = IF all THEN f.lines \cup {id} ELSE f.lines
  OBVIOUS
<1>2. f.lines \in SUBSET (1..MaxWrites) /\ f.bytes \in Nat /\ f.whole \in BOOLEAN
  BY DEF File
<1>3. L \in SUBSET (1..MaxWrites) /\ f.bytes + n \in Nat
  BY <1>1, <1>2
<1>4. h = [lines |-> L, bytes |-> f.bytes + n, mtime |-> now, whole |-> f.whole]
  BY <1>1 DEF Appended
<1>5. h \in File
  BY <1>2, <1>3, <1>4 DEF File
<1> QED
  BY <1>1, <1>4, <1>5

LEMMA WrittenPart ==
  ASSUME NEW len \in Nat, NEW n \in Written(len)
  PROVE  n \in Nat /\ n <= len
  BY FileWriterAssumption DEF Written

\* A line is written to the file that is open.
LEMMA WriteStringKeeps ==
  ASSUME FileTypeOK, Keeps, handle = "open", NEW id \in 1..MaxWrites, id \notin DOMAIN wrote,
         NEW len \in Nat, NEW ok \in BOOLEAN, WriteString(id, len, disk[path], size, ok)
  PROVE  FileTypeOK' /\ Keeps'
<1>0. path \in DOMAIN disk /\ disk[path] \in File /\ path \in Names /\ now \in Times
  BY DEF FileTypeOK
<1>1. PICK n \in Written(len) :
        /\ disk' = Updated(disk, path, Appended(disk[path], id, n, ok))
        /\ size' = size + n
        /\ wrote' = IF ok THEN Updated(wrote, id, now) ELSE wrote
        /\ UNCHANGED <<now, fileConfig, handle, gzips, cleaners, rotatedAt>>
  BY DEF WriteString
<1>2. n \in Nat
  BY WrittenPart
<1>3. PICK h : h = Appended(disk[path], id, n, ok)
  OBVIOUS
<1>4. /\ h \in File
      /\ h.lines = IF ok THEN disk[path].lines \cup {id} ELSE disk[path].lines
      /\ h.mtime = now /\ h.whole = disk[path].whole
  <2>1. PICK f : f = disk[path]
    OBVIOUS
  <2>2. f \in File /\ h = Appended(f, id, n, ok)
    BY <2>1, <1>0, <1>3
  <2>3. /\ h \in File
        /\ h.lines = IF ok THEN f.lines \cup {id} ELSE f.lines
        /\ h.mtime = now /\ h.whole = f.whole
    BY <2>2, <1>0, <1>2, AppendedFile
  <2> QED
    BY <2>1, <2>3
<1>5. /\ DOMAIN disk' = DOMAIN disk
      /\ disk'[path] = h
      /\ \A m \in DOMAIN disk : m # path => disk'[m] = disk[m]
  <2>1. disk' = Updated(disk, path, h)
    BY <1>1, <1>3
  <2> QED
    BY <2>1, <1>0 DEF Updated
<1>6. /\ \A x \in DOMAIN wrote : x \in DOMAIN wrote' /\ wrote'[x] = wrote[x]
      /\ \A x \in DOMAIN wrote' : x \in DOMAIN wrote \/ (ok /\ x = id /\ wrote'[x] = now)
      /\ ok => id \in DOMAIN wrote'
      /\ DOMAIN wrote' \subseteq 1..MaxWrites
      /\ \A x \in DOMAIN wrote' : wrote'[x] \in Times
  BY <1>1, WroteNext
<1>7. FileTypeOK'
  <2>1. DOMAIN disk' \subseteq Names /\ \A m \in DOMAIN disk' : disk'[m] \in File
    BY <1>4, <1>5 DEF FileTypeOK
  <2>2. size' \in Nat
    BY <1>1, <1>2, FileNumbers
  <2> QED
    BY <2>1, <2>2, <1>0, <1>1, <1>5, <1>6 DEF FileTypeOK, fileConfig
<1>8. Onward
  BY <1>1, <1>6, FileNumbers DEF Onward, fileConfig
<1>9. \A x \in DOMAIN wrote' : wrote'[x] <= now
  BY <1>6, FileNumbers DEF Keeps, WroteOK
<1>10. PathOK'
  <2>1. disk[path].whole /\ disk[path].lines \subseteq DOMAIN wrote
    BY <1>0 DEF Keeps, PathOK, HoldsLines
  <2>2. h.lines \subseteq DOMAIN wrote' /\ \A x \in h.lines : wrote'[x] <= h.mtime
    BY <2>1, <1>4, <1>6, <1>9
  <2> QED
    BY <2>1, <2>2, <1>4, <1>5 DEF PathOK, HoldsLines
<1>11. WroteOK'
  <2>1. \A x : InRotation(x) => InRotation(x)'
    BY <1>1 DEF InRotation
  <2>2. \A x \in DOMAIN wrote' : (path \in DOMAIN disk' /\ x \in disk'[path].lines) \/ InRotation(x)'
    <3>1. SUFFICES ASSUME NEW x \in DOMAIN wrote'
                   PROVE  x \in h.lines \/ InRotation(x)'
      BY <1>0, <1>5
    <3>2. CASE x \in DOMAIN wrote
      BY <3>2, <2>1, <1>4 DEF Keeps, WroteOK
    <3>3. CASE ok /\ x = id
      BY <3>3, <1>4
    <3> QED
      BY <3>2, <3>3, <1>6
  <2> QED
    BY <2>2, <1>1, <1>9 DEF WroteOK
<1>12. RotatedOK'
  BY <1>1, <1>5, <1>6 DEF Keeps, RotatedOK
<1>13. GzipsOK'
  BY <1>1 DEF Keeps, GzipsOK
<1>14. ASSUME NEW t \in Times, NEW L, Len(rotatedAt'[t]) = 1, rotatedAt'[t][1] = L
       PROVE  KeptAt(t, L)'
  BY <1>14, <1>1, <1>5, <1>7, <1>8, KeptOthers, NamesDiffer
<1>15. CleanersOK'
  BY <1>1, <1>7, <1>8, CleanersFrame DEF Keeps, CleanersOK
<1> QED
  BY <1>7, <1>10, <1>11, <1>12, <1>13, <1>14, <1>15, KeptNext DEF Keeps

LEMMA AppendedRotation ==
  ASSUME NEW S, NEW q \in Seq(S), NEW e \in S
  PROVE  /\ Append(q, e) \in Seq(S)
         /\ Len(Append(q, e)) = Len(q) + 1
         /\ Len(q) \in Nat
         /\ \A i \in 1..Len(q) : Append(q, e)[i] = q[i]
         /\ Append(q, e)[Len(q) + 1] = e
         /\ q # <<>> => Len(Append(q, e)) > 1
         /\ Append(q, e) # <<>>
<1>1. /\ Append(q, e) \in Seq(S)
      /\ Len(Append(q, e)) = Len(q) + 1
      /\ Len(q) \in Nat
      /\ \A i \in 1..Len(q) : Append(q, e)[i] = q[i]
      /\ Append(q, e)[Len(q) + 1] = e
  BY AppendOf
<1>2. q # <<>> => Len(q) # 0
  OBVIOUS
<1>3. ASSUME Append(q, e) = <<>> PROVE FALSE
  <2>1. Len(Append(q, e)) = 0
    BY <1>3
  <2> QED
    BY <2>1, <1>1
<1> QED
  BY <1>1, <1>2, <1>3

\* A rotation notes the lines of the file under the second it happens in.
LEMMA RotatesHistory ==
  ASSUME FileTypeOK, path \in DOMAIN disk, Rotates
  PROVE  /\ rotatedAt' \in [Times -> Seq(SUBSET (1..MaxWrites))]
         /\ \A t \in Times : t # now => rotatedAt'[t] = rotatedAt[t]
         /\ rotatedAt'[now] = Append(rotatedAt[now], disk[path].lines)
         /\ rotatedAt[now] \in Seq(SUBSET (1..MaxWrites)) /\ disk[path].lines \in SUBSET (1..MaxWrites)
         /\ now \in Times
<1>1. rotatedAt \in [Times -> Seq(SUBSET (1..MaxWrites))] /\ now \in Times
  BY DEF FileTypeOK
<1>2. PICK L \in SUBSET (1..MaxWrites) : L = disk[path].lines
  BY DEF FileTypeOK, File
<1>3. PICK q \in Seq(SUBSET (1..MaxWrites)) : q = Append(rotatedAt[now], L)
  BY <1>1, <1>2, AppendedRotation
<1>4. rotatedAt' = [rotatedAt EXCEPT ![now] = q]
  BY <1>2, <1>3 DEF Rotates
<1> QED
  BY <1>1, <1>2, <1>3, <1>4

\* The file is renamed to a name that was not in use before, or its lines are
\* not counted on: two rotations in one second.  What becomes of the path is the
\* business of the steps that rotate.
LEMMA RotationKeeps ==
  ASSUME FileTypeOK, FileTypeOK', Keeps, path \in DOMAIN disk, Rotates,
         UNCHANGED <<now, maxAge>>,
         \A n : n # path => /\ n \in DOMAIN disk' <=> n \in DOMAIN disk \/ n = Rotated(now)
                            /\ n \in DOMAIN disk /\ n # Rotated(now) => disk'[n] = disk[n],
         disk'[Rotated(now)] = disk[path],
         \A x \in DOMAIN wrote : x \in DOMAIN wrote' /\ wrote'[x] = wrote[x],
         \A x \in DOMAIN wrote' : \/ x \in DOMAIN wrote
                                  \/ wrote'[x] = now /\ path \in DOMAIN disk' /\ x \in disk'[path].lines,
         PathOK',
         cleaners' \in {cleaners, cleaners \cup {Cleaner}}, maxAge = 0 => cleaners' = cleaners
  PROVE  Keeps'
<1>0. /\ \A t \in Times : t # now => rotatedAt'[t] = rotatedAt[t]
      /\ rotatedAt'[now] = Append(rotatedAt[now], disk[path].lines)
      /\ rotatedAt[now] \in Seq(SUBSET (1..MaxWrites)) /\ disk[path].lines \in SUBSET (1..MaxWrites)
      /\ now \in Times
  BY RotatesHistory
<1>1. PICK k \in Nat : k = Len(rotatedAt[now])
  BY <1>0
<1>2. /\ Len(rotatedAt'[now]) = k + 1
      /\ \A i \in 1..k : rotatedAt'[now][i] = rotatedAt[now][i]
      /\ rotatedAt'[now][k + 1] = disk[path].lines
      /\ rotatedAt[now] # <<>> => Len(rotatedAt'[now]) > 1
      /\ rotatedAt'[now] # <<>>
  BY <1>0, <1>1, AppendedRotation
<1>3. Onward
  <2>1. \A t \in Times : rotatedAt[t] # <<>> => rotatedAt'[t] = rotatedAt[t] \/ Len(rotatedAt'[t]) > 1
    BY <1>0, <1>2
  <2> QED
    BY <2>1, FileNumbers DEF Onward
<1>4. WroteOK'
  <2>1. SUFFICES ASSUME NEW x \in DOMAIN wrote'
                 PROVE  /\ wrote'[x] <= now
                        /\ (path \in DOMAIN disk' /\ x \in disk'[path].lines) \/ InRotation(x)'
    BY DEF WroteOK
  <2>2. CASE x \in DOMAIN wrote
    <3>1. wrote'[x] <= now
      BY <2>2 DEF Keeps, WroteOK
    <3>2. CASE x \in disk[path].lines
      <4>1. k + 1 \in 1..Len(rotatedAt'[now]) /\ x \in rotatedAt'[now][k + 1]
        BY <3>2, <1>1, <1>2
      <4> QED
        BY <4>1, <3>1, <1>0 DEF InRotation
    <3>3. CASE InRotation(x)
      <4>1. PICK t \in Times : \E i \in 1..Len(rotatedAt[t]) : x \in rotatedAt[t][i]
        BY <3>3 DEF InRotation
      <4>2. \E i \in 1..Len(rotatedAt'[t]) : x \in rotatedAt'[t][i]
        <5>1. CASE t # now
          BY <4>1, <5>1, <1>0
        <5>2. CASE t = now
          <6>1. PICK i \in 1..k : x \in rotatedAt[now][i]
            BY <4>1, <5>2, <1>1
          <6>2. i \in 1..Len(rotatedAt'[now]) /\ x \in rotatedAt'[now][i]
            BY <6>1, <1>1, <1>2
          <6> QED
            BY <6>2, <5>2
        <5> QED
          BY <5>1, <5>2
      <4> QED
        BY <4>2, <3>1 DEF InRotation
    <3> QED
      BY <3>2, <3>3, <2>2 DEF Keeps, WroteOK
  <2>3. CASE wrote'[x] = now /\ path \in DOMAIN disk' /\ x \in disk'[path].lines
    BY <2>3, FileNumbers
  <2> QED
    BY <2>2, <2>3
<1>5. RotatedOK'
  <2>1. SUFFICES ASSUME NEW t \in Times
                 PROVE  /\ t > now => rotatedAt'[t] = <<>>
                        /\ \A i \in 1..Len(rotatedAt'[t]) : \A id \in rotatedAt'[t][i] :
                              id \in DOMAIN wrote' /\ wrote'[id] <= t
                        /\ rotatedAt'[t] = <<>> => Rotated(t) \notin DOMAIN disk' /\ Gz(t) \notin DOMAIN disk'
    BY DEF RotatedOK
  <2>2. CASE t # now
    <3>1. Rotated(t) # Rotated(now) /\ Gz(t) # Rotated(now) /\ Rotated(t) # path /\ Gz(t) # path
      BY <2>2, NamesDiffer
    <3>2. rotatedAt'[t] = <<>> => Rotated(t) \notin DOMAIN disk' /\ Gz(t) \notin DOMAIN disk'
      BY <2>2, <3>1, <1>0 DEF Keeps, RotatedOK
    <3> QED
      BY <2>2, <3>2, <1>0 DEF Keeps, RotatedOK
  <2>3. CASE t = now
    <3>1. ASSUME NEW i \in 1..(k + 1), NEW id \in rotatedAt'[now][i]
          PROVE  id \in DOMAIN wrote' /\ wrote'[id] <= now
      <4>1. CASE i = k + 1
        <5>1. id \in disk[path].lines
          BY <4>1, <3>1, <1>2
        <5>2. id \in DOMAIN wrote
          BY <5>1 DEF Keeps, PathOK
        <5> QED
          BY <5>2 DEF Keeps, WroteOK
      <4>2. CASE i # k + 1
        <5>1. i \in 1..k
          BY <4>2, <1>1
        <5>2. id \in rotatedAt[now][i] /\ i \in 1..Len(rotatedAt[now])
          BY <5>1, <3>1, <1>1, <1>2
        <5> QED
          BY <5>2, <1>0 DEF Keeps, RotatedOK
      <4> QED
        BY <4>1, <4>2
    <3>2. ~(t > now)
      BY <2>3, FileNumbers
    <3> QED
      BY <2>3, <3>1, <3>2, <1>2
  <2> QED
    BY <2>2, <2>3
<1>6. /\ Compressor.at = now /\ Compressor.nr = k /\ Compressor.step = "start"
      /\ gzips' \in {gzips, gzips \cup {Compressor}}
  BY <1>1 DEF Compressor, Rotates
<1>7. \A g \in gzips : g.at \in Times /\ g.nr \in Nat /\ g.nr < Len(rotatedAt[g.at])
  BY DEF FileTypeOK, Keeps, GzipsOK
<1>8. GzipsOK'
  <2>1. \A g \in gzips : g.nr < Len(rotatedAt'[g.at])
    <3>1. SUFFICES ASSUME NEW g \in gzips PROVE g.nr < Len(rotatedAt'[g.at])
      OBVIOUS
    <3>2. CASE g.at # now
      BY <3>2, <1>0, <1>7
    <3>3. CASE g.at = now
      BY <3>3, <1>1, <1>2, <1>7
    <3> QED
      BY <3>2, <3>3
  <2>2. k < Len(rotatedAt'[now])
    BY <1>1, <1>2
  <2>3. \A g \in gzips : ~(g.at = now /\ g.nr = k)
    BY <1>1, <1>7
  <2>4. \A g, h \in gzips : g.at = h.at /\ g.nr = h.nr => g = h
    BY DEF Keeps, GzipsOK
  <2> QED
    BY <2>1, <2>2, <2>3, <2>4, <1>6 DEF GzipsOK
<1>9. ASSUME NEW t \in Times, NEW L, Len(rotatedAt'[t]) = 1, rotatedAt'[t][1] = L
      PROVE  KeptAt(t, L)'
  <2>1. CASE t # now
    <3>1. Rotated(t) # Rotated(now) /\ Gz(t) # Rotated(now) /\ Rotated(t) # path /\ Gz(t) # path
      BY <2>1, NamesDiffer
    <3>2. \A g \in gzips' : g.at = t => g \in gzips
      BY <2>1, <1>6
    <3>3. Len(rotatedAt[t]) = 1 /\ rotatedAt[t][1] = L
      BY <1>9, <2>1, <1>0
    <3> QED
      BY <3>1, <3>2, <3>3, <1>3, KeptOthers
  <2>2. CASE t = now
    <3>1. k = 0
      BY <1>9, <2>2, <1>1, <1>2
    <3>2. rotatedAt[now] = <<>> /\ L = disk[path].lines
      BY <1>9, <2>2, <3>1, <1>0, <1>1, <1>2
    <3>3. Rotated(now) # path /\ Gz(now) # path /\ Gz(now) # Rotated(now)
      BY NamesDiffer
    <3>4. Rotated(now) \in DOMAIN disk' /\ HoldsLines(disk[Rotated(now)], L)'
      BY <3>2, <3>3 DEF Keeps, PathOK, HoldsLines
    <3>5. Gz(now) \notin DOMAIN disk'
      BY <3>2, <3>3, <1>0 DEF Keeps, RotatedOK
    <3>6. \A g \in gzips' : g.at = now => g.step = "start"
      BY <3>1, <1>1, <1>6, <1>7
    <3>7. disk'[Rotated(now)] = disk'[Rotated(t)] /\ now' = t
      BY <2>2
    <3> QED
      BY <3>4, <3>5, <3>6, <3>7, <2>2 DEF KeptAt, HoldsLines
  <2> QED
    BY <2>1, <2>2
<1>10. CleanersOK'
  <2>1. Cleaner.step = "scan"
    BY DEF Cleaner
  <2>2. cleaners' # {} => maxAge > 0
    BY FileNumbers DEF Keeps, CleanersOK
  <2> QED
    BY <2>1, <2>2, <1>3, CleanersFrame
<1> QED
  BY <1>4, <1>5, <1>8, <1>9, <1>10, KeptNext DEF Keeps

LEMMA RenamedFiles ==
  ASSUME FileTypeOK, path \in DOMAIN disk
  PROVE  /\ \A n : n # path => (n \in DOMAIN Renamed <=> n \in DOMAIN disk \/ n = Rotated(now))
         /\ path \notin DOMAIN Renamed
         /\ \A n \in DOMAIN disk : n # path /\ n # Rotated(now) => Renamed[n] = disk[n]
         /\ Renamed[Rotated(now)] = disk[path]
         /\ DOMAIN Renamed \subseteq Names
         /\ \A n \in DOMAIN Renamed : Renamed[n] \in File
<1>1. Rotated(now) # path /\ Rotated(now) \in Names
  BY NamesDiffer DEF Names, FileTypeOK
<1>2. /\ DOMAIN Renamed = (DOMAIN disk \ {path}) \cup {Rotated(now)}
      /\ \A n \in DOMAIN Renamed : Renamed[n] = IF n = Rotated(now) THEN disk[path] ELSE disk[n]
  BY DEF Renamed
<1> QED
  BY <1>1, <1>2 DEF FileTypeOK

LEMMA RotatesTypes ==
  ASSUME FileTypeOK, path \in DOMAIN disk, Rotates
  PROVE  /\ gzips' \subseteq [at : Times, nr : Nat, step : {"start", "copy", "remove"},
                              lines : SUBSET (1..MaxWrites)]
         /\ Cleaner \in [at : Times, nr : Nat, step : {"scan", "remove"}, old : SUBSET (Names \ {path})]
<1>1. PICK k \in Nat : k = Len(rotatedAt[now])
  BY RotatesHistory
<1>2. now \in Times
  BY DEF FileTypeOK
<1>3. Compressor \in [at : Times, nr : Nat, step : {"start", "copy", "remove"}, lines : SUBSET (1..MaxWrites)]
  BY <1>1, <1>2 DEF Compressor
<1>4. Cleaner \in [at : Times, nr : Nat, step : {"scan", "remove"}, old : SUBSET (Names \ {path})]
  BY <1>1, <1>2 DEF Cleaner
<1> QED
  BY <1>3, <1>4 DEF FileTypeOK, Rotates

LEMMA ReopenFailsKeeps ==
  ASSUME FileTypeOK, Keeps, handle = "open", ReopenFails
  PROVE  FileTypeOK' /\ Keeps' /\ path \notin DOMAIN disk'
<1>0. path \in DOMAIN disk
  BY DEF FileTypeOK
<1>1. /\ Rotates /\ disk' = Renamed /\ handle' = "closed"
      /\ UNCHANGED <<now, fileConfig, size, cleaners, wrote>>
  BY DEF ReopenFails
<1>2. FileTypeOK'
  <2>1. DOMAIN disk' \subseteq Names /\ \A n \in DOMAIN disk' : disk'[n] \in File
    BY <1>0, <1>1, RenamedFiles
  <2> QED
    BY <2>1, <1>0, <1>1, RotatesTypes, RotatesHistory DEF FileTypeOK, fileConfig
<1>3. path \notin DOMAIN disk' /\ PathOK'
  BY <1>0, <1>1, RenamedFiles DEF PathOK
<1>4. \A n : n # path => /\ n \in DOMAIN disk' <=> n \in DOMAIN disk \/ n = Rotated(now)
                         /\ n \in DOMAIN disk /\ n # Rotated(now) => disk'[n] = disk[n]
  BY <1>0, <1>1, RenamedFiles
<1>5. disk'[Rotated(now)] = disk[path]
  BY <1>0, <1>1, RenamedFiles
<1>6. Keeps'
  <2>1. UNCHANGED <<now, maxAge>> /\ wrote' = wrote /\ cleaners' = cleaners
    BY <1>1 DEF fileConfig
  <2> QED
    BY <2>1, <1>0, <1>1, <1>2, <1>3, <1>4, <1>5, RotationKeeps
<1> QED
  BY <1>2, <1>3, <1>6

\* The new file after a rotation holds the line, a part of it, or nothing.
LEMMA RotateAndWriteKeeps ==
  ASSUME FileTypeOK, Keeps, handle = "open", NEW id \in 1..MaxWrites, id \notin DOMAIN wrote,
         NEW len \in Nat, NEW ok \in BOOLEAN, RotateAndWrite(id, len, ok)
  PROVE  /\ FileTypeOK' /\ Keeps'
         /\ path \in DOMAIN disk' /\ size' = disk'[path].bytes
         /\ size' <= len /\ disk'[path].lines \in {{}, {id}}
<1>0. path \in DOMAIN disk /\ path \in Names /\ now \in Times
  BY DEF FileTypeOK, Names
<1>1. PICK f : f = [lines |-> {}, bytes |-> 0, mtime |-> now, whole |-> TRUE]
  OBVIOUS
<1>2. f \in File /\ f.lines = {} /\ f.bytes = 0 /\ f.whole
  BY <1>0, <1>1 DEF File
<1>3. PICK n \in Written(len) :
        /\ Rotates
        /\ disk' = Updated(Renamed, path, Appended(f, id, n, ok))
        /\ size' = n
        /\ wrote' = IF ok THEN Updated(wrote, id, now) ELSE wrote
        /\ cleaners' = IF maxAge > 0 THEN cleaners \cup {Cleaner} ELSE cleaners
        /\ UNCHANGED <<now, fileConfig, handle>>
  BY <1>1 DEF RotateAndWrite
<1>4. n \in Nat /\ n <= len
  BY WrittenPart
<1>5. PICK h : h = Appended(f, id, n, ok)
  OBVIOUS
<1>6. PICK L \in SUBSET (1..MaxWrites) : L = IF ok THEN {id} ELSE {}
  OBVIOUS
<1>7. h \in File /\ h.lines = L /\ h.bytes = n /\ h.mtime = now /\ h.whole
  <2>1. L = IF ok THEN f.lines \cup {id} ELSE f.lines
    BY <1>2, <1>6
  <2>2. f.bytes + n = n
    BY <1>2, <1>4
  <2>3. h = [lines |-> L, bytes |-> n, mtime |-> now, whole |-> f.whole]
    BY <2>1, <2>2, <1>5 DEF Appended
  <2> QED
    BY <2>3, <1>0, <1>2, <1>4 DEF File
<1>8. /\ DOMAIN disk' = DOMAIN Renamed \cup {path}
      /\ disk'[path] = h
      /\ \A m \in DOMAIN Renamed : m # path => disk'[m] = Renamed[m]
  <2>1. disk' = Updated(Renamed, path, h)
    BY <1>3, <1>5
  <2> QED
    BY <2>1 DEF Updated
<1>9. \A m : m # path => /\ m \in DOMAIN disk' <=> m \in DOMAIN disk \/ m = Rotated(now)
                         /\ m \in DOMAIN disk /\ m # Rotated(now) => disk'[m] = disk[m]
  BY <1>0, <1>8, RenamedFiles
<1>10. disk'[Rotated(now)] = disk[path]
  BY <1>0, <1>8, RenamedFiles, NamesDiffer
<1>11. /\ \A x \in DOMAIN wrote : x \in DOMAIN wrote' /\ wrote'[x] = wrote[x]
       /\ \A x \in DOMAIN wrote' : x \in DOMAIN wrote \/ (ok /\ x = id /\ wrote'[x] = now)
       /\ ok => id \in DOMAIN wrote'
       /\ DOMAIN wrote' \subseteq 1..MaxWrites
       /\ \A x \in DOMAIN wrote' : wrote'[x] \in Times
  BY <1>3, WroteNext
<1>12. FileTypeOK'
  <2>1. DOMAIN disk' \subseteq Names /\ \A m \in DOMAIN disk' : disk'[m] \in File
    BY <1>0, <1>7, <1>8, RenamedFiles
  <2>2. cleaners' \subseteq [at : Times, nr : Nat, step : {"scan", "remove"}, old : SUBSET (Names \ {path})]
    BY <1>0, <1>3, RotatesTypes DEF FileTypeOK
  <2> QED
    BY <2>1, <2>2, <1>0, <1>3, <1>4, <1>8, <1>11, RotatesTypes, RotatesHistory DEF FileTypeOK, fileConfig
<1>13. PathOK'
  <2>1. h.lines \subseteq DOMAIN wrote' /\ \A x \in h.lines : wrote'[x] <= h.mtime
    <3>1. CASE ok
      <4>1. h.lines = {id} /\ id \in DOMAIN wrote'
        BY <3>1, <1>6, <1>7, <1>11
      <4>2. wrote'[id] = now
        BY <4>1, <1>11
      <4> QED
        BY <4>1, <4>2, <1>7, FileNumbers
    <3>2. CASE ~ok
      BY <3>2, <1>6, <1>7
    <3> QED
      BY <3>1, <3>2
  <2> QED
    BY <2>1, <1>7, <1>8 DEF PathOK, HoldsLines
<1>14. \A x \in DOMAIN wrote' : \/ x \in DOMAIN wrote
                                \/ wrote'[x] = now /\ path \in DOMAIN disk' /\ x \in disk'[path].lines
  BY <1>6, <1>7, <1>8, <1>11
<1>15. Keeps'
  <2>1. UNCHANGED <<now, maxAge>>
    BY <1>3 DEF fileConfig
  <2>2. cleaners' \in {cleaners, cleaners \cup {Cleaner}} /\ (maxAge = 0 => cleaners' = cleaners)
    BY <1>3
  <2> QED
    BY <2>1, <2>2, <1>0, <1>3, <1>9, <1>10, <1>11, <1>12, <1>13, <1>14, RotationKeeps
<1>16. path \in DOMAIN disk' /\ size' = disk'[path].bytes /\ size' <= len
  BY <1>3, <1>4, <1>7, <1>8
<1>17. disk'[path].lines \in {{}, {id}}
  BY <1>6, <1>7, <1>8
<1> QED
  BY <1>12, <1>15, <1>16, <1>17

-----------------------------------------------------------------------------
(* The steps of the file writer.                                           *)

FileInv == FileTypeOK /\ Keeps /\ FileBounded

\* Only the handle and the size that goes with it change.
LEMMA HandleHolds ==
  ASSUME FileInv, UNCHANGED <<now, fileConfig, disk, gzips, cleaners, wrote, rotatedAt>>,
         handle' \in {"open", "closed"}, size' \in Nat,
         handle' = "open" => path \in DOMAIN disk /\ size' = disk[path].bytes
  PROVE  FileInv'
<1>1. FileTypeOK'
  BY DEF FileInv, FileTypeOK, fileConfig
<1>2. Keeps'
  BY KeepsSame DEF FileInv, fileConfig
<1>3. FileBounded'
  BY DEF FileInv, FileBounded, fileConfig
<1> QED
  BY <1>1, <1>2, <1>3 DEF FileInv

LEMMA BackgroundBounded ==
  ASSUME FileTypeOK, FileBounded, Background
  PROVE  FileBounded'
  BY DEF FileTypeOK, FileBounded, Background

LEMMA DiskHolds ==
  ASSUME FileInv, Tick \/ compressFile \/ cleanupOldFiles
  PROVE  /\ FileInv'
         /\ UNCHANGED <<handle, wrote>>
         /\ path \in DOMAIN disk => path \in DOMAIN disk'
<1>1. CASE Tick
  <2>1. FileTypeOK' /\ Keeps'
    BY <1>1, TickKeeps DEF FileInv
  <2>2. FileBounded'
    BY <1>1 DEF Tick, FileInv, FileBounded, fileConfig
  <2> QED
    BY <1>1, <2>1, <2>2 DEF FileInv, Tick
<1>2. CASE compressFile \/ cleanupOldFiles
  <2>1. FileTypeOK' /\ Keeps' /\ Background
    BY <1>2, OpenSourceKeeps, CopyKeeps, RemoveKeeps, ScanKeeps, RemoveOldKeeps
       DEF FileInv, compressFile, cleanupOldFiles
  <2> QED
    BY <2>1, BackgroundBounded DEF FileInv, Background
<1> QED
  BY <1>1, <1>2

\* A line that fits leaves the file within its size.
LEMMA WriteStringBounded ==
  ASSUME FileInv, handle = "open", NEW id, NEW len \in Nat, ~NeedsRotation(len),
         NEW ok \in BOOLEAN, WriteString(id, len, disk[path], size, ok)
  PROVE  FileBounded'
<1>0. path \in DOMAIN disk /\ disk[path].bytes \in Nat /\ size = disk[path].bytes /\ size \in Nat
  BY FileNumbers DEF FileInv, FileBounded, FileTypeOK
<1>1. PICK n \in Written(len) :
        /\ disk' = Updated(disk, path, Appended(disk[path], id, n, ok))
        /\ size' = size + n
        /\ UNCHANGED <<now, fileConfig, handle>>
  BY DEF WriteString
<1>2. n \in Nat /\ n <= len
  BY WrittenPart
<1>3. disk'[path].bytes = size + n
  <2>1. PICK h : h = Appended(disk[path], id, n, ok)
    OBVIOUS
  <2>2. disk'[path] = h
    BY <1>1, <2>1 DEF Updated
  <2>3. h.bytes = disk[path].bytes + n
    BY <2>1 DEF Appended
  <2> QED
    BY <2>2, <2>3, <1>0
<1>4. maxSize > 0 => disk'[path].bytes <= maxSize
  <2>1. maxSize > 0 => size + len <= maxSize
    BY <1>0, FileNumbers DEF NeedsRotation, FileInv
  <2> QED
    BY <2>1, <1>0, <1>2, <1>3, FileNumbers DEF FileInv
<1> QED
  BY <1>1, <1>3, <1>4 DEF FileBounded, fileConfig

\* After a rotation the file holds no more than one line.
LEMMA RotateAndWriteBounded ==
  ASSUME FileInv, handle = "open", NEW id \in 1..MaxWrites, id \notin DOMAIN wrote,
         NEW l \in Lines, NEW ok \in BOOLEAN, RotateAndWrite(id, l.len, ok)
  PROVE  FileBounded'
<1>0. l.len \in Nat
  BY WritersAssumption
<1>1. /\ size' = disk'[path].bytes /\ size' <= l.len
      /\ disk'[path].lines \in {{}, {id}}
  BY <1>0, RotateAndWriteKeeps DEF FileInv
<1>2. Cardinality(disk'[path].lines) <= 1
  <2>1. Cardinality({}) = 0 /\ Cardinality({id}) = 1
    BY FS_EmptySet, FS_Singleton
  <2> QED
    BY <1>1, <2>1
<1> QED
  BY <1>1, <1>2 DEF FileBounded

LEMMA WriteHolds ==
  ASSUME FileInv, NEW id \in 1..MaxWrites, id \notin DOMAIN wrote,
         NEW l \in Lines, NEW ok \in BOOLEAN, Write(id, l.len, ok)
  PROVE  /\ FileInv'
         /\ handle' # "none"
         /\ DOMAIN wrote \subseteq DOMAIN wrote' /\ DOMAIN wrote' \subseteq DOMAIN wrote \cup {id}
         /\ ok => id \in DOMAIN wrote'
<1>0. l.len \in Nat
  BY WritersAssumption
<1>1. CASE handle = "closed" /\ ~ok /\ UNCHANGED fileVars
  <2>1. UNCHANGED <<now, fileConfig, disk, gzips, cleaners, wrote, rotatedAt, handle, size>>
    BY <1>1 DEF fileVars, fileConfig
  <2>2. FileInv'
    BY <1>1, <2>1, HandleHolds DEF FileInv, FileTypeOK
  <2> QED
    BY <1>1, <2>1, <2>2
<1>2. CASE handle = "open" /\ ~NeedsRotation(l.len) /\ WriteString(id, l.len, disk[path], size, ok)
  <2>1. FileTypeOK' /\ Keeps'
    BY <1>0, <1>2, WriteStringKeeps DEF FileInv
  <2>2. FileBounded'
    BY <1>0, <1>2, WriteStringBounded
  <2>3. wrote' = (IF ok THEN Updated(wrote, id, now) ELSE wrote) /\ handle' = handle
    BY <1>2 DEF WriteString
  <2> QED
    BY <1>2, <2>1, <2>2, <2>3, WroteNext DEF FileInv
<1>3. CASE handle = "open" /\ ~ok /\ RenameFails
  <2>1. FileInv'
    BY <1>3, HandleHolds DEF RenameFails, FileInv, FileTypeOK
  <2> QED
    BY <1>3, <2>1 DEF RenameFails
<1>4. CASE handle = "open" /\ ~ok /\ ReopenFails
  <2>1. FileTypeOK' /\ Keeps' /\ path \notin DOMAIN disk'
    BY <1>4, ReopenFailsKeeps DEF FileInv
  <2>2. handle' = "closed" /\ wrote' = wrote
    BY <1>4 DEF ReopenFails
  <2>3. FileBounded'
    BY <2>1, <2>2 DEF FileBounded
  <2> QED
    BY <1>4, <2>1, <2>2, <2>3 DEF FileInv
<1>5. CASE handle = "open" /\ RotateAndWrite(id, l.len, ok)
  <2>1. FileTypeOK' /\ Keeps'
    BY <1>0, <1>5, RotateAndWriteKeeps DEF FileInv
  <2>2. FileBounded'
    BY <1>5, RotateAndWriteBounded
  <2>3. wrote' = (IF ok THEN Updated(wrote, id, now) ELSE wrote) /\ handle' = handle
    BY <1>5 DEF RotateAndWrite
  <2> QED
    BY <1>5, <2>1, <2>2, <2>3, WroteNext DEF FileInv
<1> QED
  BY <1>1, <1>2, <1>3, <1>4, <1>5 DEF Write

-----------------------------------------------------------------------------
(* The steps of the webhook writer.                                        *)

LEMMA ElementsOfEmpty ==
  Elements(<<>>) = {} /\ NoRepeats(<<>>) /\ <<>> \in Seq(Items) /\ Len(<<>>) = 0
  BY DEF Elements, NoRepeats

LEMMA ElementsOfAppend ==
  ASSUME NEW S, NEW q \in Seq(S), NEW x \in S, NoRepeats(q), x \notin Elements(q)
  PROVE  /\ Append(q, x) \in Seq(S)
         /\ Len(Append(q, x)) = Len(q) + 1
         /\ Elements(Append(q, x)) = Elements(q) \cup {x}
         /\ NoRepeats(Append(q, x))
<1>1. PICK r : r = Append(q, x)
  OBVIOUS
<1>2. PICK k \in Nat : k = Len(q) /\ DOMAIN q = 1..k
  OBVIOUS
<1>3. /\ r \in Seq(S) /\ Len(r) = k + 1 /\ DOMAIN r = 1..(k + 1)
      /\ \A i \in 1..k : r[i] = q[i]
      /\ r[k + 1] = x
  BY <1>1, <1>2
<1>4. 1..(k + 1) = 1..k \cup {k + 1} /\ k + 1 \notin 1..k
  BY <1>2
<1>5. \A i \in 1..k : r[i] # x
  BY <1>2, <1>3 DEF Elements
<1>6. Elements(r) = Elements(q) \cup {x}
  BY <1>2, <1>3, <1>4 DEF Elements
<1>7. NoRepeats(r)
  BY <1>2, <1>3, <1>4, <1>5 DEF NoRepeats
<1> QED
  BY <1>1, <1>2, <1>3, <1>6, <1>7

\* How often an element occurs in a batch without repetitions.
LEMMA Occurrences ==
  ASSUME NEW q, NoRepeats(q), NEW x
  PROVE  Cardinality({i \in DOMAIN q : q[i] = x}) = IF x \in Elements(q) THEN 1 ELSE 0
<1>1. CASE x \in Elements(q)
  <2>1. PICK i \in DOMAIN q : q[i] = x
    BY <1>1 DEF Elements
  <2>2. {j \in DOMAIN q : q[j] = x} = {i}
    BY <2>1 DEF NoRepeats
  <2>3. Cardinality({i}) = 1
    BY FS_Singleton
  <2> QED
    BY <1>1, <2>2, <2>3
<1>2. CASE x \notin Elements(q)
  <2>1. {j \in DOMAIN q : q[j] = x} = {}
    BY <1>2 DEF Elements
  <2> QED
    BY <1>2, <2>1, FS_EmptySet
<1> QED
  BY <1>1, <1>2

\* The types of the webhook writer without the bounds on the lengths.
Batches ==
    /\ buffer \in Seq(Items)
    /\ inFlight \in [Posters -> Seq(Items)]
    /\ accepted \in SUBSET Items
    /\ received \in [Items -> Nat]
    /\ dropped \in SUBSET Items

\* Lines move from one place to another: those of the buffer (W) and of the
\* batch of p (B), those that are finished (F).
LEMMA PlacesMove ==
  ASSUME NEW p \in Posters, PlacesOK, Batches',
         NoRepeats(buffer'), NoRepeats(inFlight'[p]),
         \A q \in Posters \ {p} : inFlight'[q] = inFlight[q],
         \A id \in Items :
            /\ received'[id] <= 1
            /\ Finished(id)' => id \in accepted' /\ id \notin Elements(buffer') /\ id \notin Elements(inFlight'[p])
            /\ Finished(id)' => Finished(id) \/ id \in Elements(buffer) \cup Elements(inFlight[p])
            /\ id \in Elements(buffer') \cup Elements(inFlight'[p]) =>
                  /\ id \in accepted'
                  /\ id \in Elements(buffer) \cup Elements(inFlight[p]) \/ id \notin accepted
            /\ id \in Elements(buffer') => id \notin Elements(inFlight'[p])
            /\ id \in accepted => id \in accepted'
            /\ Finished(id) => Finished(id)'
            /\ id \in accepted' => \/ id \in accepted /\ id \notin Elements(buffer) \cup Elements(inFlight[p])
                                   \/ Finished(id)'
                                   \/ id \in Elements(buffer') \cup Elements(inFlight'[p])
  PROVE  PlacesOK'
<1>1. NoRepeats(buffer)' /\ \A q \in Posters : NoRepeats(inFlight[q])'
  BY DEF PlacesOK, NoRepeats
<1>2. SUFFICES ASSUME NEW id \in Items
      PROVE /\ received'[id] <= 1
            /\ id \in Elements(buffer') =>
                  id \in accepted' /\ ~Finished(id)' /\ \A q \in Posters : id \notin Elements(inFlight'[q])
            /\ \A q \in Posters : id \in Elements(inFlight'[q]) =>
                  id \in accepted' /\ ~Finished(id)' /\ \A r \in Posters \ {q} : id \notin Elements(inFlight'[r])
            /\ Finished(id)' => id \in accepted'
            /\ id \in accepted' =>
                  id \in Elements(buffer') \/ Finished(id)' \/ \E q \in Posters : id \in Elements(inFlight'[q])
  BY <1>1 DEF PlacesOK, Elements
<1>3. /\ id \in Elements(buffer) =>
            id \in accepted /\ ~Finished(id) /\ \A q \in Posters : id \notin Elements(inFlight[q])
      /\ \A q \in Posters : id \in Elements(inFlight[q]) =>
            id \in accepted /\ ~Finished(id) /\ \A r \in Posters \ {q} : id \notin Elements(inFlight[r])
      /\ Finished(id) => id \in accepted
      /\ id \in accepted =>
            id \in Elements(buffer) \/ Finished(id) \/ \E q \in Posters : id \in Elements(inFlight[q])
  BY DEF PlacesOK
<1>4. \A q \in Posters \ {p} : Elements(inFlight'[q]) = Elements(inFlight[q])
  OBVIOUS
<1>5. id \in Elements(buffer') =>
          id \in accepted' /\ ~Finished(id)' /\ \A q \in Posters : id \notin Elements(inFlight'[q])
  BY <1>3, <1>4
<1>6. ASSUME NEW q \in Posters, id \in Elements(inFlight'[q])
      PROVE  id \in accepted' /\ ~Finished(id)' /\ \A r \in Posters \ {q} : id \notin Elements(inFlight'[r])
  <2>1. CASE q = p
    BY <2>1, <1>3, <1>4, <1>6
  <2>2. CASE q # p
    BY <2>2, <1>3, <1>4, <1>6
  <2> QED
    BY <2>1, <2>2
<1>7. id \in accepted' =>
         id \in Elements(buffer') \/ Finished(id)' \/ \E q \in Posters : id \in Elements(inFlight'[q])
  BY <1>3, <1>4
<1> QED
  BY <1>5, <1>6, <1>7

LEMMA AcceptPlaces ==
  ASSUME Batches, PlacesOK, NEW id \in Items, id \notin accepted, Accept(id)
  PROVE  Batches' /\ PlacesOK' /\ Len(buffer') = Len(buffer) + 1
<1>1. buffer \in Seq(Items) /\ NoRepeats(buffer) /\ id \notin Elements(buffer)
  BY DEF Batches, PlacesOK
<1>2. PICK b : b = Append(buffer, id)
  OBVIOUS
<1>3. /\ b \in Seq(Items) /\ Len(b) = Len(buffer) + 1
      /\ Elements(b) = Elements(buffer) \cup {id} /\ NoRepeats(b)
  BY <1>1, <1>2, ElementsOfAppend
<1>4. /\ buffer' = b /\ accepted' = accepted \cup {id}
      /\ UNCHANGED <<inFlight, received, dropped>>
  BY <1>2 DEF Accept
<1>5. Batches'
  BY <1>3, <1>4 DEF Batches
<1>6. "loop" \in Posters
  BY DEF Posters
<1>7. \A x : Finished(x)' <=> Finished(x)
  BY <1>4 DEF Finished
<1>8. /\ NoRepeats(inFlight["loop"])
      /\ \A x \in Items : /\ received[x] <= 1
                          /\ Finished(x) => x \in accepted
                          /\ x \in Elements(buffer) => x \in accepted /\ ~Finished(x) /\ x \notin Elements(inFlight["loop"])
                          /\ x \in Elements(inFlight["loop"]) => x \in accepted /\ ~Finished(x)
  BY <1>6 DEF PlacesOK
<1>9. PlacesOK'
  BY <1>3, <1>4, <1>5, <1>6, <1>7, <1>8, PlacesMove
<1> QED
  BY <1>3, <1>4, <1>5, <1>9

LEMMA TakePlaces ==
  ASSUME Batches, PlacesOK, NEW p \in Posters, inFlight[p] = <<>>, Take(p),
         UNCHANGED <<accepted, received, dropped>>
  PROVE  Batches' /\ PlacesOK' /\ inFlight'[p] = buffer /\ buffer' = <<>>
         /\ \A q \in Posters \ {p} : inFlight'[q] = inFlight[q]
<1>1. /\ inFlight'[p] = buffer /\ buffer' = <<>>
      /\ \A q \in Posters \ {p} : inFlight'[q] = inFlight[q]
  BY DEF Take, Batches
<1>2. Batches'
  BY ElementsOfEmpty DEF Batches, Take
<1>3. Elements(buffer') = {} /\ NoRepeats(buffer') /\ Elements(inFlight[p]) = {}
  BY <1>1, ElementsOfEmpty
<1>4. \A x : Finished(x)' <=> Finished(x)
  BY DEF Finished
<1>5. /\ NoRepeats(buffer)
      /\ \A x \in Items : /\ received[x] <= 1
                          /\ Finished(x) => x \in accepted
                          /\ x \in Elements(buffer) => x \in accepted /\ ~Finished(x)
  BY DEF PlacesOK
<1>6. PlacesOK'
  BY <1>1, <1>2, <1>3, <1>4, <1>5, PlacesMove
<1> QED
  BY <1>1, <1>2, <1>6

\* A batch that is posted is finished, whether it got through or not.
LEMMA PostPlaces ==
  ASSUME Batches, PlacesOK, NEW p \in Posters, NEW ok \in BOOLEAN, Post(p, ok)
  PROVE  Batches' /\ PlacesOK' /\ inFlight'[p] = <<>>
         /\ \A q \in Posters \ {p} : inFlight'[q] = inFlight[q]
<1>0. /\ inFlight[p] \in Seq(Items) /\ NoRepeats(inFlight[p]) /\ NoRepeats(buffer)
      /\ received \in [Items -> Nat] /\ dropped \in SUBSET Items
  BY DEF Batches, PlacesOK
<1>1. PICK B : B = Elements(inFlight[p])
  OBVIOUS
<1>2. PICK reached \in BOOLEAN :
        /\ ok => reached
        /\ received' = IF reached
                       THEN [id \in Items |-> received[id] + Cardinality({i \in DOMAIN inFlight[p] : inFlight[p][i] = id})]
                       ELSE received
        /\ dropped' = IF ok THEN dropped ELSE dropped \cup B
        /\ Forget(p, ok)
        /\ UNCHANGED <<batchSize, cancelled, accepted>>
  BY <1>1 DEF Post
<1>3. B \subseteq Items
  BY <1>0, <1>1 DEF Elements
<1>4. \A id \in Items : Cardinality({i \in DOMAIN inFlight[p] : inFlight[p][i] = id}) = IF id \in B THEN 1 ELSE 0
  BY <1>0, <1>1, Occurrences
<1>5. \A id \in Items : id \in B => id \in accepted /\ received[id] = 0 /\ id \notin dropped /\ id \notin Elements(buffer)
  <2>1. \A id \in Items : id \in B => id \in accepted /\ ~Finished(id) /\ id \notin Elements(buffer) /\ received[id] <= 1
    BY <1>1 DEF PlacesOK
  <2> QED
    BY <2>1, <1>0 DEF Finished
<1>6. \A id \in Items : received'[id] = IF reached /\ id \in B THEN received[id] + 1 ELSE received[id]
  BY <1>0, <1>2, <1>4
<1>7. received' \in [Items -> Nat] /\ \A id \in Items : received'[id] <= 1
  <2>1. \A id \in Items : received[id] + Cardinality({i \in DOMAIN inFlight[p] : inFlight[p][i] = id}) \in Nat
    <3>1. SUFFICES ASSUME NEW id \in Items
                   PROVE  received[id] + Cardinality({i \in DOMAIN inFlight[p] : inFlight[p][i] = id}) \in Nat
      OBVIOUS
    <3>2. PICK m : m = Cardinality({i \in DOMAIN inFlight[p] : inFlight[p][i] = id})
      OBVIOUS
    <3>3. m = IF id \in B THEN 1 ELSE 0
      BY <3>2, <1>4
    <3>4. received[id] + m \in Nat
      BY <3>3, <1>0
    <3> QED
      BY <3>2, <3>4
  <2>2. received' \in [Items -> Nat]
    BY <1>0, <1>2, <2>1
  <2>3. \A id \in Items : received'[id] <= 1
    BY <1>0, <1>5, <1>6 DEF PlacesOK
  <2> QED
    BY <2>2, <2>3
<1>8. /\ inFlight'[p] = <<>> /\ buffer' = buffer /\ accepted' = accepted
      /\ \A q \in Posters \ {p} : inFlight'[q] = inFlight[q]
      /\ inFlight' \in [Posters -> Seq(Items)]
  BY <1>2, ElementsOfEmpty DEF Forget, Batches
<1>9. Batches'
  BY <1>0, <1>2, <1>3, <1>7, <1>8 DEF Batches
<1>10. \A id \in Items : Finished(id)' <=> Finished(id) \/ id \in B
  <2>1. SUFFICES ASSUME NEW id \in Items
                 PROVE  (received'[id] = 1 \/ id \in dropped') <=> (received[id] = 1 \/ id \in dropped \/ id \in B)
    BY DEF Finished
  <2>2. CASE id \in B
    BY <2>2, <1>2, <1>5, <1>6
  <2>3. CASE id \notin B
    BY <2>3, <1>2, <1>6
  <2> QED
    BY <2>2, <2>3
<1>11. Elements(inFlight'[p]) = {} /\ NoRepeats(inFlight'[p])
  BY <1>8, ElementsOfEmpty
<1>12. \A x \in Items : /\ Finished(x) => x \in accepted /\ x \notin Elements(buffer)
                        /\ x \in Elements(buffer) => x \in accepted
  BY DEF PlacesOK
<1>13. PlacesOK'
  BY <1>0, <1>1, <1>5, <1>7, <1>8, <1>9, <1>10, <1>11, <1>12, PlacesMove
<1> QED
  BY <1>8, <1>9, <1>13

\* The lines of a batch whose request fails at once are dropped.
LEMMA LatePlaces ==
  ASSUME Batches, PlacesOK, LoopFlushLate
  PROVE  Batches' /\ PlacesOK'
<1>0. buffer \in Seq(Items) /\ Elements(buffer) \subseteq Items
  BY DEF Batches, Elements
<1>1. /\ buffer' = <<>> /\ dropped' = dropped \cup Elements(buffer)
      /\ UNCHANGED <<inFlight, accepted, received>>
  BY DEF LoopFlushLate
<1>2. Batches'
  BY <1>0, <1>1, ElementsOfEmpty DEF Batches
<1>3. "loop" \in Posters
  BY DEF Posters
<1>4. Elements(buffer') = {} /\ NoRepeats(buffer')
  BY <1>1, ElementsOfEmpty
<1>5. \A x : Finished(x)' <=> Finished(x) \/ x \in Elements(buffer)
  BY <1>1 DEF Finished
<1>6. /\ NoRepeats(inFlight["loop"])
      /\ \A x \in Items : /\ received[x] <= 1
                          /\ Finished(x) => x \in accepted /\ x \notin Elements(inFlight["loop"])
                          /\ x \in Elements(buffer) => x \in accepted /\ x \notin Elements(inFlight["loop"])
                          /\ x \in Elements(inFlight["loop"]) => x \in accepted
  BY <1>3 DEF PlacesOK
<1>7. PlacesOK'
  BY <1>1, <1>2, <1>3, <1>4, <1>5, <1>6, PlacesMove
<1> QED
  BY <1>2, <1>7

-----------------------------------------------------------------------------
(* The steps of the writers together.                                      *)

CallerTypeOK ==
    /\ cfg \in Configs
    /\ caller \in {"file", "webhook", "failed", "idle", "fileWrite", "webhookWrite",
                   "flush", "post", "webhookClose", "wait", "final", "closed"}
    /\ line \in Lines \cup {NoLine}
    /\ count \in 0..MaxWrites

LEMMA WritersParts ==
  WritersInv <=> FileInv /\ WebhookTypeOK /\ PlacesOK /\ CallerTypeOK /\ CallerOK /\ WebhookOK
  BY DEF WritersInv, WritersTypeOK, FileInv, CallerTypeOK

LEMMA WritersPartsNext ==
  WritersInv' <=> (FileInv /\ WebhookTypeOK /\ PlacesOK /\ CallerTypeOK /\ CallerOK /\ WebhookOK)'
  BY DEF WritersInv, WritersTypeOK, FileInv, CallerTypeOK

LEMMA FileSame ==
  ASSUME FileInv, UNCHANGED fileVars
  PROVE  FileInv'
<1>1. FileTypeOK' /\ FileBounded'
  BY DEF FileInv, FileTypeOK, FileBounded, fileVars
<1>2. Keeps'
  BY KeepsSame DEF FileInv, fileVars
<1> QED
  BY <1>1, <1>2 DEF FileInv

LEMMA WebhookSame ==
  ASSUME WebhookTypeOK, PlacesOK, UNCHANGED <<batchSize, buffer, inFlight, accepted, received, dropped>>,
         cancelled' \in BOOLEAN, loop' \in {"none", "select", "post", "done"}
  PROVE  WebhookTypeOK' /\ PlacesOK'
<1>1. WebhookTypeOK'
  BY DEF WebhookTypeOK
<1>2. PlacesOK'
  BY DEF PlacesOK, NoRepeats, Elements, Finished
<1> QED
  BY <1>1, <1>2

LEMMA BatchesTyped ==
  ASSUME WebhookTypeOK
  PROVE  Batches
  BY DEF WebhookTypeOK, Batches

LEMMA OpenFileHolds ==
  ASSUME WritersInv, OpenFile
  PROVE  WritersInv'
<1>0. FileInv /\ WebhookTypeOK /\ PlacesOK /\ CallerTypeOK /\ CallerOK /\ WebhookOK
  BY WritersParts
<1>1. /\ caller = "file" /\ caller' = "webhook" /\ line' = line /\ UNCHANGED <<cfg, count>>
      /\ NewFileWriter /\ UNCHANGED webhookVars
  BY DEF OpenFile, Go, Stay
<1>2. path \in DOMAIN disk
  BY <1>0, <1>1 DEF CallerOK
<1>3. FileInv' /\ handle' = "open" /\ wrote' = wrote
  BY <1>0, <1>1, <1>2, HandleHolds, FileNumbers DEF NewFileWriter, FileInv
<1>4. WebhookTypeOK' /\ PlacesOK'
  BY <1>0, <1>1, WebhookSame DEF webhookVars, WebhookTypeOK
<1>5. CallerTypeOK' /\ CallerOK'
  BY <1>0, <1>1, <1>3 DEF CallerTypeOK, CallerOK
<1>6. WebhookOK'
  BY <1>0, <1>1, <1>3 DEF WebhookOK, webhookVars
<1> QED
  BY <1>3, <1>4, <1>5, <1>6, WritersPartsNext

LEMMA OpenFailsHolds ==
  ASSUME WritersInv, OpenFileFails \/ OpenWebhookFails
  PROVE  WritersInv'
<1>0. FileInv /\ WebhookTypeOK /\ PlacesOK /\ CallerTypeOK /\ CallerOK /\ WebhookOK
  BY WritersParts
<1>1. /\ caller \in {"file", "webhook"} /\ caller' = "failed" /\ line' = line /\ UNCHANGED <<cfg, count>>
      /\ UNCHANGED fileVars /\ UNCHANGED webhookVars
  BY DEF OpenFileFails, OpenWebhookFails, Go, Stay
<1>2. FileInv'
  BY <1>0, <1>1, FileSame
<1>3. WebhookTypeOK' /\ PlacesOK'
  BY <1>0, <1>1, WebhookSame DEF webhookVars, WebhookTypeOK
<1>4. CallerTypeOK' /\ CallerOK'
  BY <1>0, <1>1 DEF CallerTypeOK, CallerOK, fileVars
<1>5. WebhookOK'
  BY <1>0, <1>1 DEF WebhookOK, webhookVars, fileVars
<1> QED
  BY <1>2, <1>3, <1>4, <1>5, WritersPartsNext

LEMMA OpenWebhookHolds ==
  ASSUME WritersInv, OpenWebhook
  PROVE  WritersInv'
<1>0. FileInv /\ WebhookTypeOK /\ PlacesOK /\ CallerTypeOK /\ CallerOK /\ WebhookOK
  BY WritersParts
<1>1. /\ caller = "webhook" /\ caller' = "idle" /\ line' = NoLine /\ UNCHANGED <<cfg, count>>
      /\ NewWebhookWriter(cfg.batchSize) /\ UNCHANGED fileVars
  BY DEF OpenWebhook, Go, Stay
<1>2. FileInv'
  BY <1>0, <1>1, FileSame
<1>3. batchSize = 0 /\ buffer = <<>> /\ \A p \in Posters : inFlight[p] = <<>>
  <2>1. batchSize = 0 /\ loop = "none"
    BY <1>0, <1>1 DEF WebhookOK
  <2>2. buffer = <<>>
    BY <2>1, <1>0 DEF WebhookTypeOK
  <2>3. inFlight["caller"] = <<>> /\ inFlight["loop"] = <<>>
    BY <2>1, <1>0, <1>1 DEF WebhookOK
  <2> QED
    BY <2>1, <2>2, <2>3 DEF Posters
<1>4. /\ batchSize' \in 1..MaxBatchSize /\ loop' = "select"
      /\ UNCHANGED <<buffer, cancelled, inFlight, accepted, received, dropped>>
  <2>1. cfg.batchSize \in Int
    BY <1>0, WritersAssumption DEF CallerTypeOK
  <2>2. MaxBatchSize \in Int
    BY WebhookAssumption
  <2> QED
    BY <2>1, <2>2, <1>1, WebhookAssumption DEF NewWebhookWriter, Acceptable
<1>5. WebhookTypeOK'
  <2>1. Len(<<>>) <= batchSize' /\ batchSize' \in 0..MaxBatchSize
    BY <1>4, ElementsOfEmpty
  <2> QED
    BY <2>1, <1>0, <1>3, <1>4 DEF WebhookTypeOK
<1>6. PlacesOK'
  BY <1>0, <1>4 DEF PlacesOK, NoRepeats, Elements, Finished
<1>7. CallerTypeOK' /\ CallerOK'
  BY <1>0, <1>1 DEF CallerTypeOK, CallerOK, fileVars
<1>8. WebhookOK'
  <2>1. Len(buffer') < batchSize' /\ batchSize' > 0
    BY <1>3, <1>4, ElementsOfEmpty
  <2>2. inFlight'["caller"] = <<>> /\ inFlight'["loop"] = <<>>
    BY <1>3, <1>4 DEF Posters
  <2> QED
    BY <2>1, <2>2, <1>0, <1>1, <1>4 DEF WebhookOK, fileVars
<1> QED
  BY <1>2, <1>5, <1>6, <1>7, <1>8, WritersPartsNext

LEMMA PrimaryWriteHolds ==
  ASSUME WritersInv, NEW l \in Lines, PrimaryWrite(l)
  PROVE  WritersInv'
<1>0. FileInv /\ WebhookTypeOK /\ PlacesOK /\ CallerTypeOK /\ CallerOK /\ WebhookOK
  BY WritersParts
<1>1. /\ caller = "idle" /\ caller' \in {"fileWrite", "idle"} /\ count < MaxWrites
      /\ line' = (IF caller' = "idle" THEN NoLine ELSE l) /\ count' = count + 1
      /\ UNCHANGED fileVars /\ UNCHANGED webhookVars /\ UNCHANGED cfg
  BY DEF PrimaryWrite
<1>2. FileInv'
  BY <1>0, <1>1, FileSame
<1>3. WebhookTypeOK' /\ PlacesOK'
  BY <1>0, <1>1, WebhookSame DEF webhookVars, WebhookTypeOK
<1>4. count \in Nat /\ MaxWrites \in Nat /\ \A id \in DOMAIN wrote : id \in Nat
  BY <1>0, FileWriterAssumption DEF CallerTypeOK, FileInv, FileTypeOK
<1>5. CallerTypeOK'
  BY <1>0, <1>1, <1>4 DEF CallerTypeOK
<1>6. CallerOK'
  <2>1. count' \in 1..MaxWrites /\ count' \notin DOMAIN wrote /\ \A id \in DOMAIN wrote : id <= count'
    BY <1>0, <1>1, <1>4 DEF CallerOK
  <2> QED
    BY <2>1, <1>0, <1>1 DEF CallerOK, fileVars
<1>7. WebhookOK'
  BY <1>0, <1>1 DEF WebhookOK, webhookVars, fileVars
<1> QED
  BY <1>2, <1>3, <1>5, <1>6, <1>7, WritersPartsNext

LEMMA FileWriteHolds ==
  ASSUME WritersInv, FileWrite
  PROVE  WritersInv'
<1>0. FileInv /\ WebhookTypeOK /\ PlacesOK /\ CallerTypeOK /\ CallerOK /\ WebhookOK
  BY WritersParts
<1>1. PICK ok \in BOOLEAN :
        /\ Write(count, line.len, ok)
        /\ caller' = IF ok /\ Level(line.level) >= Level(cfg.minLevel) THEN "webhookWrite" ELSE "idle"
  BY DEF FileWrite
<1>2. /\ caller = "fileWrite" /\ caller' \in {"webhookWrite", "idle"} /\ (caller' = "webhookWrite" => ok)
      /\ line' = (IF caller' = "idle" THEN NoLine ELSE line)
      /\ UNCHANGED <<cfg, count>> /\ UNCHANGED webhookVars
  BY <1>1 DEF FileWrite, Stay
<1>3. count \in 1..MaxWrites /\ count \notin DOMAIN wrote /\ line \in Lines
  BY <1>0, <1>2 DEF CallerOK
<1>4. /\ FileInv' /\ handle' # "none"
      /\ DOMAIN wrote \subseteq DOMAIN wrote' /\ DOMAIN wrote' \subseteq DOMAIN wrote \cup {count}
      /\ ok => count \in DOMAIN wrote'
  BY <1>0, <1>1, <1>3, WriteHolds
<1>5. WebhookTypeOK' /\ PlacesOK'
  BY <1>0, <1>2, WebhookSame DEF webhookVars, WebhookTypeOK
<1>6. CallerTypeOK'
  BY <1>0, <1>2 DEF CallerTypeOK
<1>7. CallerOK'
  <2>1. \A id \in DOMAIN wrote' : id <= count
    BY <1>0, <1>3, <1>4 DEF CallerOK
  <2> QED
    BY <2>1, <1>2, <1>3, <1>4 DEF CallerOK
<1>8. WebhookOK'
  <2>1. count \notin accepted /\ accepted \subseteq DOMAIN wrote'
    BY <1>0, <1>3, <1>4 DEF WebhookOK
  <2> QED
    BY <2>1, <1>0, <1>2 DEF WebhookOK, webhookVars
<1> QED
  BY <1>4, <1>5, <1>6, <1>7, <1>8, WritersPartsNext

LEMMA WebhookWriteHolds ==
  ASSUME WritersInv, WebhookWrite
  PROVE  WritersInv'
<1>0. FileInv /\ WebhookTypeOK /\ PlacesOK /\ CallerTypeOK /\ CallerOK /\ WebhookOK
  BY WritersParts
<1>1. /\ caller = "webhookWrite" /\ caller' = (IF Fills THEN "flush" ELSE "idle")
      /\ line' = (IF caller' = "idle" THEN NoLine ELSE line)
      /\ Accept(count) /\ UNCHANGED <<cfg, count>> /\ UNCHANGED fileVars
  BY DEF WebhookWrite, Stay
<1>2. /\ accepted' = accepted \cup {count}
      /\ UNCHANGED <<batchSize, cancelled, loop, inFlight, received, dropped>>
  BY <1>1 DEF Accept
<1>3. count \in Items /\ count \notin accepted /\ count \in DOMAIN wrote
  BY <1>0, <1>1, WritersAssumption DEF CallerOK, WebhookOK
<1>4. Batches' /\ PlacesOK' /\ Len(buffer') = Len(buffer) + 1
  BY <1>0, <1>1, <1>3, AcceptPlaces, BatchesTyped
<1>5. FileInv'
  BY <1>0, <1>1, FileSame
<1>6. Len(buffer) \in Nat /\ batchSize \in Nat /\ Len(buffer) < batchSize
  <2>1. batchSize # 0 /\ (batchSize > 0 => Len(buffer) < batchSize)
    BY <1>0, <1>1 DEF WebhookOK
  <2>2. batchSize \in Nat /\ Len(buffer) \in Nat
    BY <1>0, WebhookAssumption DEF WebhookTypeOK
  <2> QED
    BY <2>1, <2>2
<1>7. Len(buffer') <= batchSize /\ (~Fills => Len(buffer') < batchSize)
  BY <1>4, <1>6 DEF Fills
<1>8. WebhookTypeOK'
  BY <1>0, <1>2, <1>4, <1>7 DEF WebhookTypeOK, Batches
<1>9. CallerTypeOK' /\ CallerOK'
  BY <1>0, <1>1 DEF CallerTypeOK, CallerOK, fileVars
<1>10. WebhookOK'
  <2>1. accepted' \subseteq DOMAIN wrote'
    BY <1>0, <1>1, <1>2, <1>3 DEF WebhookOK, fileVars
  <2>2. batchSize' > 0 /\ caller' # "flush" => Len(buffer') < batchSize'
    BY <1>1, <1>2, <1>7
  <2> QED
    BY <2>1, <2>2, <1>0, <1>1, <1>2 DEF WebhookOK
<1> QED
  BY <1>4, <1>5, <1>8, <1>9, <1>10, WritersPartsNext

\* Write's flush and Close's finalFlush, with the lock: the caller takes the buffer.
LEMMA CallerTakes ==
  ASSUME WritersInv, caller \in {"flush", "wait"}, Take("caller"),
         UNCHANGED <<batchSize, cancelled, loop, accepted, received, dropped>>
  PROVE  /\ WebhookTypeOK' /\ PlacesOK'
         /\ buffer' = <<>> /\ Len(buffer') < batchSize'
         /\ inFlight'["caller"] = buffer /\ inFlight'["loop"] = inFlight["loop"]
<1>0. WebhookTypeOK /\ PlacesOK /\ WebhookOK
  BY WritersParts
<1>1. inFlight["caller"] = <<>> /\ "caller" \in Posters /\ "loop" \in Posters \ {"caller"}
      /\ Posters = {"caller", "loop"}
  BY <1>0 DEF WebhookOK, Posters
<1>2. Batches' /\ PlacesOK' /\ inFlight'["caller"] = buffer /\ buffer' = <<>>
      /\ inFlight'["loop"] = inFlight["loop"]
  BY <1>0, <1>1, TakePlaces, BatchesTyped
<1>3. batchSize \in 0..MaxBatchSize /\ batchSize # 0
  BY <1>0 DEF WebhookTypeOK, WebhookOK
<1>4. Len(buffer') < batchSize'
  BY <1>2, <1>3, ElementsOfEmpty, WebhookAssumption
<1>5. \A p \in Posters : Len(inFlight'[p]) <= batchSize'
  BY <1>0, <1>1, <1>2 DEF WebhookTypeOK
<1>6. Len(buffer') <= batchSize'
  BY <1>2, <1>3, ElementsOfEmpty, WebhookAssumption
<1>7. WebhookTypeOK'
  BY <1>0, <1>2, <1>5, <1>6 DEF WebhookTypeOK, Batches
<1> QED
  BY <1>2, <1>4, <1>7

\* A request returns to the caller.
LEMMA CallerPosted ==
  ASSUME WritersInv, NEW ok \in BOOLEAN, Post("caller", ok), UNCHANGED loop
  PROVE  /\ WebhookTypeOK' /\ PlacesOK'
         /\ UNCHANGED <<batchSize, buffer, cancelled, accepted>>
         /\ inFlight'["caller"] = <<>> /\ inFlight'["loop"] = inFlight["loop"]
<1>0. WebhookTypeOK /\ PlacesOK /\ WebhookOK
  BY WritersParts
<1>1. "caller" \in Posters /\ "loop" \in Posters \ {"caller"} /\ Posters = {"caller", "loop"}
  BY DEF Posters
<1>2. Batches' /\ PlacesOK' /\ inFlight'["caller"] = <<>> /\ inFlight'["loop"] = inFlight["loop"]
  BY <1>0, <1>1, PostPlaces, BatchesTyped
<1>3. UNCHANGED <<batchSize, buffer, cancelled, accepted>>
  BY DEF Post, Forget
<1>4. \A p \in Posters : Len(inFlight'[p]) <= batchSize'
  <2>1. batchSize \in Nat /\ Len(<<>>) <= batchSize
    BY <1>0, ElementsOfEmpty, WebhookAssumption DEF WebhookTypeOK
  <2> QED
    BY <2>1, <1>0, <1>1, <1>2, <1>3 DEF WebhookTypeOK
<1>5. WebhookTypeOK'
  BY <1>0, <1>2, <1>3, <1>4 DEF WebhookTypeOK, Batches
<1> QED
  BY <1>2, <1>3, <1>5

LEMMA WebhookFlushHolds ==
  ASSUME WritersInv, WebhookFlush
  PROVE  WritersInv'
<1>0. FileInv /\ WebhookTypeOK /\ PlacesOK /\ CallerTypeOK /\ CallerOK /\ WebhookOK
  BY WritersParts
<1>1. /\ caller = "flush" /\ caller' = (IF buffer = <<>> THEN "idle" ELSE "post")
      /\ line' = (IF caller' = "idle" THEN NoLine ELSE line)
      /\ Take("caller") /\ UNCHANGED <<cfg, count>> /\ UNCHANGED fileVars
      /\ UNCHANGED <<batchSize, cancelled, loop, accepted, received, dropped>>
  BY DEF WebhookFlush, Go, Stay
<1>2. /\ WebhookTypeOK' /\ PlacesOK'
      /\ buffer' = <<>> /\ Len(buffer') < batchSize'
      /\ inFlight'["caller"] = buffer /\ inFlight'["loop"] = inFlight["loop"]
  BY <1>1, CallerTakes
<1>3. FileInv'
  BY <1>0, <1>1, FileSame
<1>4. CallerTypeOK' /\ CallerOK'
  BY <1>0, <1>1 DEF CallerTypeOK, CallerOK, fileVars
<1>5. WebhookOK'
  BY <1>0, <1>1, <1>2 DEF WebhookOK, fileVars
<1> QED
  BY <1>2, <1>3, <1>4, <1>5, WritersPartsNext

LEMMA PostedHolds ==
  ASSUME WritersInv, WebhookPosted \/ FinalPosted
  PROVE  WritersInv'
<1>0. FileInv /\ WebhookTypeOK /\ PlacesOK /\ CallerTypeOK /\ CallerOK /\ WebhookOK
  BY WritersParts
<1>1. /\ (caller = "post" /\ caller' = "idle") \/ (caller = "final" /\ caller' = "closed")
      /\ line' = (IF caller' = "idle" THEN NoLine ELSE line)
      /\ UNCHANGED <<cfg, count>> /\ UNCHANGED fileVars /\ UNCHANGED loop
  BY DEF WebhookPosted, FinalPosted, Go, Stay
<1>2. PICK ok \in BOOLEAN : Post("caller", ok)
  BY DEF WebhookPosted, FinalPosted
<1>3. /\ WebhookTypeOK' /\ PlacesOK'
      /\ UNCHANGED <<batchSize, buffer, cancelled, accepted>>
      /\ inFlight'["caller"] = <<>> /\ inFlight'["loop"] = inFlight["loop"]
  BY <1>1, <1>2, CallerPosted
<1>4. FileInv'
  BY <1>0, <1>1, FileSame
<1>5. CallerTypeOK' /\ CallerOK'
  BY <1>0, <1>1 DEF CallerTypeOK, CallerOK, fileVars
<1>6. WebhookOK'
  BY <1>0, <1>1, <1>3 DEF WebhookOK, fileVars
<1> QED
  BY <1>3, <1>4, <1>5, <1>6, WritersPartsNext

LEMMA FileCloseHolds ==
  ASSUME WritersInv, FileClose
  PROVE  WritersInv'
<1>0. FileInv /\ WebhookTypeOK /\ PlacesOK /\ CallerTypeOK /\ CallerOK /\ WebhookOK
  BY WritersParts
<1>1. /\ caller = "idle" /\ caller' = "webhookClose" /\ line' = line /\ UNCHANGED <<cfg, count>>
      /\ CloseFile /\ UNCHANGED webhookVars
  BY DEF FileClose, AfterFileClose, Go, Stay
<1>2. FileInv' /\ handle' = "closed" /\ wrote' = wrote
  BY <1>0, <1>1, HandleHolds, FileNumbers DEF CloseFile, FileInv
<1>3. WebhookTypeOK' /\ PlacesOK'
  BY <1>0, <1>1, WebhookSame DEF webhookVars, WebhookTypeOK
<1>4. CallerTypeOK' /\ CallerOK'
  BY <1>0, <1>1, <1>2 DEF CallerTypeOK, CallerOK
<1>5. WebhookOK'
  BY <1>0, <1>1, <1>2 DEF WebhookOK, webhookVars
<1> QED
  BY <1>2, <1>3, <1>4, <1>5, WritersPartsNext

LEMMA WebhookCancelHolds ==
  ASSUME WritersInv, WebhookCancel
  PROVE  WritersInv'
<1>0. FileInv /\ WebhookTypeOK /\ PlacesOK /\ CallerTypeOK /\ CallerOK /\ WebhookOK
  BY WritersParts
<1>1. /\ caller = "webhookClose" /\ caller' = "wait" /\ line' = line /\ UNCHANGED <<cfg, count>>
      /\ cancelled' = TRUE /\ UNCHANGED fileVars
      /\ UNCHANGED <<batchSize, buffer, loop, inFlight, accepted, received, dropped>>
  BY DEF WebhookCancel, Go, Stay
<1>2. FileInv'
  BY <1>0, <1>1, FileSame
<1>3. WebhookTypeOK' /\ PlacesOK'
  BY <1>0, <1>1, WebhookSame DEF WebhookTypeOK
<1>4. CallerTypeOK' /\ CallerOK'
  BY <1>0, <1>1 DEF CallerTypeOK, CallerOK, fileVars
<1>5. WebhookOK'
  BY <1>0, <1>1 DEF WebhookOK, fileVars
<1> QED
  BY <1>2, <1>3, <1>4, <1>5, WritersPartsNext

LEMMA FinalFlushHolds ==
  ASSUME WritersInv, FinalFlush
  PROVE  WritersInv'
<1>0. FileInv /\ WebhookTypeOK /\ PlacesOK /\ CallerTypeOK /\ CallerOK /\ WebhookOK
  BY WritersParts
<1>1. /\ caller = "wait" /\ caller' = (IF buffer = <<>> THEN "closed" ELSE "final") /\ loop = "done"
      /\ line' = line /\ Take("caller") /\ UNCHANGED <<cfg, count>> /\ UNCHANGED fileVars
      /\ UNCHANGED <<batchSize, cancelled, loop, accepted, received, dropped>>
  BY DEF FinalFlush, Go, Stay
<1>2. /\ WebhookTypeOK' /\ PlacesOK'
      /\ buffer' = <<>> /\ Len(buffer') < batchSize'
      /\ inFlight'["caller"] = buffer /\ inFlight'["loop"] = inFlight["loop"]
  BY <1>1, CallerTakes
<1>3. FileInv'
  BY <1>0, <1>1, FileSame
<1>4. CallerTypeOK' /\ CallerOK'
  BY <1>0, <1>1 DEF CallerTypeOK, CallerOK, fileVars
<1>5. WebhookOK'
  BY <1>0, <1>1, <1>2 DEF WebhookOK, fileVars
<1> QED
  BY <1>2, <1>3, <1>4, <1>5, WritersPartsNext

LEMMA LoopFlushHolds ==
  ASSUME WebhookTypeOK, PlacesOK, WebhookOK, LoopFlush, UNCHANGED <<fileVars, callerVars>>
  PROVE  WebhookTypeOK' /\ PlacesOK' /\ WebhookOK'
<1>1. /\ loop = "select" /\ loop' = "post" /\ Take("loop")
      /\ UNCHANGED <<batchSize, cancelled, accepted, received, dropped>>
  BY DEF LoopFlush
<1>2. inFlight["loop"] = <<>> /\ "loop" \in Posters /\ "caller" \in Posters \ {"loop"}
      /\ Posters = {"caller", "loop"}
  BY <1>1 DEF WebhookOK, Posters
<1>3. Batches' /\ PlacesOK' /\ inFlight'["loop"] = buffer /\ buffer' = <<>>
      /\ inFlight'["caller"] = inFlight["caller"]
  BY <1>1, <1>2, TakePlaces, BatchesTyped
<1>4. batchSize \in 0..MaxBatchSize /\ batchSize # 0
  BY <1>1 DEF WebhookTypeOK, WebhookOK
<1>5. Len(buffer') < batchSize' /\ Len(buffer') <= batchSize'
  BY <1>1, <1>3, <1>4, ElementsOfEmpty, WebhookAssumption
<1>6. \A p \in Posters : Len(inFlight'[p]) <= batchSize'
  BY <1>1, <1>2, <1>3 DEF WebhookTypeOK
<1>7. WebhookTypeOK'
  BY <1>1, <1>3, <1>5, <1>6 DEF WebhookTypeOK, Batches
<1>8. WebhookOK'
  BY <1>1, <1>3, <1>5 DEF WebhookOK, fileVars, callerVars
<1> QED
  BY <1>3, <1>7, <1>8

LEMMA LoopPostedHolds ==
  ASSUME WebhookTypeOK, PlacesOK, WebhookOK, LoopPosted, UNCHANGED <<fileVars, callerVars>>
  PROVE  WebhookTypeOK' /\ PlacesOK' /\ WebhookOK'
<1>1. loop = "post" /\ loop' = "select"
  BY DEF LoopPosted
<1>2. PICK ok \in BOOLEAN : Post("loop", ok)
  BY DEF LoopPosted
<1>3. "loop" \in Posters /\ "caller" \in Posters \ {"loop"} /\ Posters = {"caller", "loop"}
  BY DEF Posters
<1>4. Batches' /\ PlacesOK' /\ inFlight'["loop"] = <<>> /\ inFlight'["caller"] = inFlight["caller"]
  BY <1>2, <1>3, PostPlaces, BatchesTyped
<1>5. UNCHANGED <<batchSize, buffer, cancelled, accepted>>
  BY <1>2 DEF Post, Forget
<1>6. \A p \in Posters : Len(inFlight'[p]) <= batchSize'
  <2>1. batchSize \in Nat /\ Len(<<>>) <= batchSize
    BY ElementsOfEmpty, WebhookAssumption DEF WebhookTypeOK
  <2> QED
    BY <2>1, <1>3, <1>4, <1>5 DEF WebhookTypeOK
<1>7. WebhookTypeOK'
  BY <1>1, <1>4, <1>5, <1>6 DEF WebhookTypeOK, Batches
<1>8. WebhookOK'
  BY <1>1, <1>4, <1>5 DEF WebhookOK, fileVars, callerVars
<1> QED
  BY <1>4, <1>7, <1>8

LEMMA LoopFlushLateHolds ==
  ASSUME WebhookTypeOK, PlacesOK, WebhookOK, LoopFlushLate, UNCHANGED <<fileVars, callerVars>>
  PROVE  WebhookTypeOK' /\ PlacesOK' /\ WebhookOK'
<1>1. /\ loop = "select" /\ buffer' = <<>>
      /\ UNCHANGED <<batchSize, cancelled, loop, inFlight, accepted>>
  BY DEF LoopFlushLate
<1>2. Batches' /\ PlacesOK'
  BY LatePlaces, BatchesTyped
<1>3. batchSize \in 0..MaxBatchSize /\ batchSize # 0
  BY <1>1 DEF WebhookTypeOK, WebhookOK
<1>4. Len(buffer') < batchSize' /\ Len(buffer') <= batchSize'
  BY <1>1, <1>3, ElementsOfEmpty, WebhookAssumption
<1>5. WebhookTypeOK'
  BY <1>1, <1>2, <1>4 DEF WebhookTypeOK, Batches
<1>6. WebhookOK'
  BY <1>1, <1>4 DEF WebhookOK, fileVars, callerVars
<1> QED
  BY <1>2, <1>5, <1>6

LEMMA LoopHolds ==
  ASSUME WritersInv, Loop
  PROVE  WritersInv'
<1>0. FileInv /\ WebhookTypeOK /\ PlacesOK /\ CallerTypeOK /\ CallerOK /\ WebhookOK
  BY WritersParts
<1>1. flushLoop /\ UNCHANGED fileVars /\ UNCHANGED cfg /\ UNCHANGED callerVars
  BY DEF Loop
<1>2. FileInv'
  BY <1>0, <1>1, FileSame
<1>3. CallerTypeOK' /\ CallerOK'
  BY <1>0, <1>1 DEF CallerTypeOK, CallerOK, fileVars, callerVars
<1>4. CASE LoopExits
  <2>1. /\ loop = "select" /\ loop' = "done"
        /\ UNCHANGED <<batchSize, buffer, cancelled, inFlight, accepted, received, dropped>>
    BY <1>4 DEF LoopExits
  <2>2. WebhookTypeOK' /\ PlacesOK'
    BY <2>1, <1>0, WebhookSame DEF WebhookTypeOK
  <2>3. WebhookOK'
    BY <2>1, <1>0, <1>1 DEF WebhookOK, fileVars, callerVars
  <2> QED
    BY <2>2, <2>3, <1>2, <1>3, WritersPartsNext
<1>5. CASE LoopFlush \/ LoopPosted \/ LoopFlushLate
  <2>1. WebhookTypeOK' /\ PlacesOK' /\ WebhookOK'
    BY <1>0, <1>1, <1>5, LoopFlushHolds, LoopPostedHolds, LoopFlushLateHolds
  <2> QED
    BY <2>1, <1>2, <1>3, WritersPartsNext
<1> QED
  BY <1>1, <1>4, <1>5 DEF flushLoop

LEMMA DiskStepHolds ==
  ASSUME WritersInv, Disk
  PROVE  WritersInv'
<1>0. FileInv /\ WebhookTypeOK /\ PlacesOK /\ CallerTypeOK /\ CallerOK /\ WebhookOK
  BY WritersParts
<1>1. /\ Tick \/ compressFile \/ cleanupOldFiles
      /\ UNCHANGED webhookVars /\ UNCHANGED cfg /\ UNCHANGED callerVars
  BY DEF Disk
<1>2. FileInv' /\ UNCHANGED <<handle, wrote>> /\ (path \in DOMAIN disk => path \in DOMAIN disk')
  BY <1>0, <1>1, DiskHolds
<1>3. WebhookTypeOK' /\ PlacesOK'
  BY <1>0, <1>1, WebhookSame DEF webhookVars, WebhookTypeOK
<1>4. CallerTypeOK' /\ CallerOK'
  BY <1>0, <1>1, <1>2 DEF CallerTypeOK, CallerOK, callerVars
<1>5. WebhookOK'
  BY <1>0, <1>1, <1>2 DEF WebhookOK, webhookVars, callerVars
<1> QED
  BY <1>2, <1>3, <1>4, <1>5, WritersPartsNext

LEMMA StutterHolds ==
  ASSUME WritersInv, UNCHANGED writersVars
  PROVE  WritersInv'
<1>0. FileInv /\ WebhookTypeOK /\ PlacesOK /\ CallerTypeOK /\ CallerOK /\ WebhookOK
  BY WritersParts
<1>1. UNCHANGED fileVars /\ UNCHANGED webhookVars /\ UNCHANGED cfg /\ UNCHANGED callerVars
  BY DEF writersVars
<1>2. FileInv'
  BY <1>0, <1>1, FileSame
<1>3. WebhookTypeOK' /\ PlacesOK'
  BY <1>0, <1>1, WebhookSame DEF webhookVars, WebhookTypeOK
<1>4. CallerTypeOK' /\ CallerOK' /\ WebhookOK'
  BY <1>0, <1>1 DEF CallerTypeOK, CallerOK, WebhookOK, fileVars, webhookVars, callerVars
<1> QED
  BY <1>2, <1>3, <1>4, WritersPartsNext

LEMMA FileStarts ==
  ASSUME NEW bytes \in OldSizes, NEW c \in Configs, FileInit(bytes, c)
  PROVE  FileInv /\ path \in DOMAIN disk /\ handle = "none" /\ DOMAIN wrote = {}
<1>0. bytes \in Nat /\ c.maxSize \in Nat /\ c.maxAge \in Nat /\ c.compress \in BOOLEAN
  BY WritersAssumption
<1>1. /\ now = 0 /\ now \in Times
      /\ maxSize = c.maxSize /\ maxAge = c.maxAge /\ compress = c.compress
      /\ handle = "none" /\ size = 0 /\ gzips = {} /\ cleaners = {} /\ wrote = <<>> /\ DOMAIN wrote = {}
      /\ rotatedAt = [t \in Times |-> <<>>]
  BY FileWriterAssumption DEF FileInit, Times
<1>2. PICK f : f = [lines |-> {}, bytes |-> bytes, mtime |-> 0, whole |-> TRUE]
  OBVIOUS
<1>3. f \in File /\ f.lines = {} /\ f.bytes = bytes /\ f.whole
  BY <1>0, <1>1, <1>2 DEF File
<1>4. DOMAIN disk = {path} /\ disk[path] = f
  BY <1>2 DEF FileInit
<1>5. \A t \in Times : Rotated(t) \notin DOMAIN disk /\ Gz(t) \notin DOMAIN disk
  BY <1>4, NamesDiffer
<1>6. \A t \in Times : rotatedAt[t] = <<>> /\ Len(rotatedAt[t]) = 0
  BY <1>1
<1>7. FileTypeOK
  <2>1. rotatedAt \in [Times -> Seq(SUBSET (1..MaxWrites))]
    BY <1>1
  <2>2. DOMAIN disk \subseteq Names /\ \A n \in DOMAIN disk : disk[n] \in File
    BY <1>3, <1>4 DEF Names
  <2> QED
    BY <2>1, <2>2, <1>0, <1>1 DEF FileTypeOK
<1>8. FileBounded
  BY <1>1, <1>3, <1>4 DEF FileBounded
<1>9. PathOK /\ WroteOK
  BY <1>1, <1>3, <1>4 DEF PathOK, HoldsLines, WroteOK
<1>10. RotatedOK
  BY <1>5, <1>6 DEF RotatedOK
<1>11. GzipsOK /\ CleanersOK
  BY <1>1 DEF GzipsOK, CleanersOK
<1>12. Kept
  BY <1>6 DEF Kept, Single
<1> QED
  BY <1>1, <1>4, <1>7, <1>8, <1>9, <1>10, <1>11, <1>12 DEF FileInv, Keeps

LEMMA WritersStart ==
  ASSUME WritersInit
  PROVE  WritersInv
<1>1. FileInv /\ path \in DOMAIN disk /\ handle = "none" /\ DOMAIN wrote = {} /\ cfg \in Configs
  BY FileStarts DEF WritersInit
<1>2. /\ caller = "file" /\ line = NoLine /\ count = 0
      /\ batchSize = 0 /\ buffer = <<>> /\ cancelled = FALSE /\ loop = "none"
      /\ inFlight = [p \in Posters |-> <<>>]
      /\ accepted = {} /\ received = [id \in Items |-> 0] /\ dropped = {}
  BY Zenon DEF WritersInit, WebhookInit
<1>3. buffer \in Seq(Items) /\ Len(buffer) = 0 /\ inFlight \in [Posters -> Seq(Items)]
      /\ \A p \in Posters : inFlight[p] = <<>> /\ Len(inFlight[p]) = 0
  BY <1>2, ElementsOfEmpty
<1>4. cancelled \in BOOLEAN
  BY <1>2
<1>5. WebhookTypeOK
  BY <1>2, <1>3, <1>4, WebhookAssumption DEF WebhookTypeOK
<1>6. PlacesOK
  <2>1. Elements(buffer) = {} /\ NoRepeats(buffer)
    BY <1>2, ElementsOfEmpty
  <2>2. \A p \in Posters : Elements(inFlight[p]) = {} /\ NoRepeats(inFlight[p])
    BY <1>3, ElementsOfEmpty
  <2>3. \A id \in Items : received[id] = 0 /\ ~Finished(id) /\ id \notin accepted
    BY <1>2 DEF Finished
  <2> QED
    BY <2>1, <2>2, <2>3 DEF PlacesOK
<1>7. CallerTypeOK /\ CallerOK
  BY <1>1, <1>2, FileWriterAssumption DEF CallerTypeOK, CallerOK
<1>8. WebhookOK
  <2>1. inFlight["caller"] = <<>> /\ inFlight["loop"] = <<>>
    BY <1>3 DEF Posters
  <2> QED
    BY <2>1, <1>2 DEF WebhookOK
<1> QED
  BY <1>1, <1>5, <1>6, <1>7, <1>8, WritersParts

LEMMA WritersStep ==
  ASSUME WritersInv, [WritersNext]_writersVars
  PROVE  WritersInv'
<1>1. CASE createWriter
  BY <1>1, OpenFileHolds, OpenFailsHolds, OpenWebhookHolds DEF createWriter
<1>2. CASE MultiWrite
  BY <1>2, PrimaryWriteHolds, FileWriteHolds, WebhookWriteHolds, WebhookFlushHolds, PostedHolds
     DEF MultiWrite
<1>3. CASE MultiClose
  BY <1>3, FileCloseHolds, WebhookCancelHolds, FinalFlushHolds, PostedHolds DEF MultiClose
<1>4. CASE Loop
  BY <1>4, LoopHolds
<1>5. CASE Disk
  BY <1>5, DiskStepHolds
<1>6. CASE UNCHANGED writersVars
  BY <1>6, StutterHolds
<1> QED
  BY <1>1, <1>2, <1>3, <1>4, <1>5, <1>6 DEF WritersNext, Caller

\* The invariant holds throughout.
THEOREM WritersInvariant == WritersSpec => []WritersInv
  BY WritersStart, WritersStep, PTL DEF WritersSpec

\* The invariant is enough to find a line: in the file, or under the name of the
\* second in which it was rotated.
LEMMA LinesFound ==
  ASSUME WritersInv
  PROVE  FileKeepsLines
<1>0. FileTypeOK /\ Keeps
  BY WritersParts DEF FileInv
<1>1. SUFFICES ASSUME NEW id \in DOMAIN wrote, id \notin SameSecond,
                      maxAge = 0 \/ now - wrote[id] <= maxAge
               PROVE  \E n \in DOMAIN disk : id \in disk[n].lines /\ disk[n].whole
  BY DEF FileKeepsLines
<1>2. CASE path \in DOMAIN disk /\ id \in disk[path].lines
  BY <1>0, <1>2 DEF Keeps, PathOK, HoldsLines
<1>3. CASE InRotation(id)
  <2>1. PICK t \in Times : \E i \in 1..Len(rotatedAt[t]) : id \in rotatedAt[t][i]
    BY <1>3 DEF InRotation
  <2>2. PICK i \in 1..Len(rotatedAt[t]) : id \in rotatedAt[t][i]
    BY <2>1
  <2>3. rotatedAt[t] \in Seq(SUBSET (1..MaxWrites))
    BY <1>0 DEF FileTypeOK
  <2>4. ~(Len(rotatedAt[t]) > 1)
    BY <1>1, <2>2, <2>3 DEF SameSecond, Elements
  <2>5. Len(rotatedAt[t]) = 1 /\ i = 1
    <3>1. PICK k \in Nat : k = Len(rotatedAt[t])
      BY <2>3
    <3>2. i \in 1..k /\ ~(k > 1)
      BY <3>1, <2>2, <2>4
    <3>3. k = 1 /\ i = 1
      BY <3>2
    <3> QED
      BY <3>1, <3>3
  <2>6. PICK L : L = rotatedAt[t][1] /\ id \in L
    BY <2>2, <2>5
  <2>7. KeptAt(t, L)
    BY <1>0, <2>5, <2>6 DEF Keeps, Kept, Single
  <2>8. ~Gone(L)
    <3>1. now \in Nat /\ maxAge \in Nat /\ wrote[id] \in Nat
      BY <1>0, FileNumbers
    <3> QED
      BY <3>1, <1>1, <2>6 DEF Gone
  <2> QED
    BY <2>6, <2>7, <2>8 DEF KeptAt, HoldsLines, Compressed
<1> QED
  BY <1>0, <1>2, <1>3 DEF Keeps, WroteOK

LEMMA PlacesCounted ==
  ASSUME WritersInv
  PROVE  PostedAtMostOnce
<1>0. WebhookTypeOK /\ PlacesOK /\ WebhookOK /\ WritersTypeOK
  BY WritersParts DEF WritersInv
<1>1. ASSUME NEW id \in accepted
      PROVE  /\ received[id] <= 1
             /\ Cardinality({i \in DOMAIN buffer : buffer[i] = id})
                + Cardinality({p \in Posters : id \in Elements(inFlight[p])})
                + (IF received[id] = 1 \/ id \in dropped THEN 1 ELSE 0) = 1
  <2>1. id \in Items
    BY <1>0 DEF WebhookTypeOK
  <2>2. /\ received[id] <= 1
        /\ id \in Elements(buffer) => ~Finished(id) /\ \A p \in Posters : id \notin Elements(inFlight[p])
        /\ \A p \in Posters : id \in Elements(inFlight[p]) =>
              ~Finished(id) /\ \A q \in Posters \ {p} : id \notin Elements(inFlight[q])
        /\ id \in Elements(buffer) \/ Finished(id) \/ \E p \in Posters : id \in Elements(inFlight[p])
    BY <1>0, <2>1 DEF PlacesOK
  <2>3. PICK w : w = Cardinality({i \in DOMAIN buffer : buffer[i] = id})
    OBVIOUS
  <2>4. w = IF id \in Elements(buffer) THEN 1 ELSE 0
    BY <1>0, <2>3, Occurrences DEF PlacesOK
  <2>5. PICK c : c = Cardinality({p \in Posters : id \in Elements(inFlight[p])})
    OBVIOUS
  <2>6. PICK d : d = IF Finished(id) THEN 1 ELSE 0
    OBVIOUS
  <2>7. CASE \E p \in Posters : id \in Elements(inFlight[p])
    <3>1. PICK p \in Posters : id \in Elements(inFlight[p])
      BY <2>7
    <3>2. {q \in Posters : id \in Elements(inFlight[q])} = {p}
      BY <3>1, <2>2
    <3>3. c = 1
      BY <3>2, <2>5, FS_Singleton
    <3>4. w = 0 /\ d = 0
      BY <3>1, <2>2, <2>4, <2>6
    <3>5. w + c + d = 1
      BY <3>3, <3>4
    <3> QED
      BY <3>5, <2>2, <2>3, <2>5, <2>6 DEF Finished
  <2>8. CASE ~\E p \in Posters : id \in Elements(inFlight[p])
    <3>1. {q \in Posters : id \in Elements(inFlight[q])} = {}
      BY <2>8
    <3>2. c = 0
      BY <3>1, <2>5, FS_EmptySet
    <3>3. w + d = 1 /\ w \in {0, 1} /\ d \in {0, 1}
      BY <2>2, <2>4, <2>6, <2>8
    <3>4. w + c + d = 1
      BY <3>2, <3>3
    <3> QED
      BY <3>4, <2>2, <2>3, <2>5, <2>6 DEF Finished
  <2> QED
    BY <2>7, <2>8
<1>2. caller = "closed" => buffer = <<>> /\ \A p \in Posters : inFlight[p] = <<>>
  BY <1>0 DEF WebhookOK, Posters
<1>3. accepted \subseteq DOMAIN wrote
  BY <1>0 DEF WebhookOK
<1> QED
  BY <1>0, <1>1, <1>2, <1>3 DEF PostedAtMostOnce

\* A line that the file writer has written can be read back for as long as
\* maxAge asks for: rotate, compressFile and cleanupOldFiles, in goroutines of
\* their own and failing wherever they may, never remove its last copy - unless
\* two rotations fall into one second.
THEOREM LinesKept == WritersSpec => []FileKeepsLines
  BY WritersInvariant, LinesFound, PTL

\* fw.size is the size of the file, and the file stays within maxSize but for a
\* single line that is longer and a file that was longer at the start.
THEOREM SizeBounded == WritersSpec => []FileBounded
<1>1. WritersInv => FileBounded
  BY DEF WritersInv
<1> QED
  BY <1>1, WritersInvariant, PTL

\* A line that WebhookWriter.Write has accepted is in one place, is posted once
\* at most, and is not left behind by Close.
THEOREM PostedOnce == WritersSpec => []PostedAtMostOnce
  BY WritersInvariant, PlacesCounted, PTL

=============================================================================
