-------------------------------- MODULE Hub --------------------------------
(***************************************************************************)
(* internal/api/hub.go and the WebSocket handlers of                       *)
(* internal/api/websocket.go: lines are broadcast to the browsers.         *)
(*                                                                         *)
(* Hub.Run is one goroutine that selects over the register, unregister and *)
(* broadcast channels; each connection has an HTTP handler that registers  *)
(* its client, then a read pump and a write pump, each of which            *)
(* unregisters the client when it ends.  The browser may vanish at any     *)
(* time.  Lines are numbered in the order in which they are broadcast.     *)
(***************************************************************************)
EXTENDS Naturals, Sequences, FiniteSets

CONSTANTS Clients,        \* the connections that are opened
          Wants(_, _),    \* matchesFilter: client, line
          MaxClients,     \* maxWsClients
          MaxLines,       \* bound on the lines broadcast
          ConnCap,        \* hubConnBuffer
          SendCap,        \* clientSendBuffer
          BroadcastCap    \* hubBroadcastBuffer

ASSUME HubAssumption ==
    /\ \A c \in Clients, n \in 1..MaxLines : Wants(c, n) \in BOOLEAN
    /\ {MaxClients, ConnCap, SendCap, BroadcastCap} \subseteq Nat \ {0}
    /\ MaxLines \in Nat

VARIABLES
    clients,     \* h.clients
    register,    \* h.register
    unregister,  \* h.unregister
    broadcast,   \* h.broadcast
    done,        \* h.done is closed
    running,     \* Run has not returned
    send,        \* client.Send of each client
    closed,      \* clients whose Send is closed
    handler,     \* where the HTTP handler of each client is
    reader,      \* where the read pump of each client is
    writer,      \* where the write pump of each client is
    connected,   \* clients whose connection is up
    lines,       \* lines given to Broadcast so far
    seen         \* history: the lines written to each connection

hubVars == <<clients, register, unregister, broadcast, running, send, closed>>
vars == <<hubVars, done, handler, reader, writer, connected, lines, seen>>

Pump == {"none", "running", "unregistering", "gone"}

TypeOK ==
    /\ clients \subseteq Clients
    /\ register \in Seq(Clients) /\ Len(register) <= ConnCap
    /\ unregister \in Seq(Clients) /\ Len(unregister) <= ConnCap
    /\ broadcast \in Seq(1..MaxLines) /\ Len(broadcast) <= BroadcastCap
    /\ done \in BOOLEAN
    /\ running \in BOOLEAN
    /\ send \in [Clients -> Seq(1..MaxLines)]
    /\ \A c \in Clients : Len(send[c]) <= SendCap
    /\ closed \subseteq Clients
    /\ handler \in [Clients -> {"none", "upgraded", "rejected", "registered"}]
    /\ reader \in [Clients -> Pump]
    /\ writer \in [Clients -> Pump]
    /\ connected \subseteq Clients
    /\ lines \in 0..MaxLines
    /\ seen \in [Clients -> Seq(1..MaxLines)]

Init ==
    /\ clients = {}
    /\ register = <<>>
    /\ unregister = <<>>
    /\ broadcast = <<>>
    /\ done = FALSE
    /\ running = TRUE
    /\ send = [c \in Clients |-> <<>>]
    /\ closed = {}
    /\ handler = [c \in Clients |-> "none"]
    /\ reader = [c \in Clients |-> "none"]
    /\ writer = [c \in Clients |-> "none"]
    /\ connected = {}
    /\ lines = 0
    /\ seen = [c \in Clients |-> <<>>]

\* h.ClientCount() >= maxWsClients
Full == Cardinality(clients) >= MaxClients

-----------------------------------------------------------------------------
(* Hub.Run.                                                                *)

RunRegister ==
    /\ running
    /\ register # <<>>
    /\ clients' = clients \cup {Head(register)}
    /\ register' = Tail(register)
    /\ UNCHANGED <<unregister, broadcast, running, send, closed, done, handler,
                   reader, writer, connected, lines, seen>>

\* Mutant: the client's channel is closed and the client stays in the map.
RunUnregisterKeeps ==
    /\ running
    /\ unregister # <<>>
    /\ closed' = closed \cup (clients \cap {Head(unregister)})
    /\ unregister' = Tail(unregister)
    /\ UNCHANGED <<clients, register, broadcast, running, send, done, handler,
                   reader, writer, connected, lines, seen>>

\* A client that is not in the map is ignored; one that is leaves it and has
\* its channel closed.
RunUnregister ==
    /\ running
    /\ unregister # <<>>
    /\ clients' = clients \ {Head(unregister)}
    /\ closed' = closed \cup (clients \cap {Head(unregister)})
    /\ unregister' = Tail(unregister)
    /\ UNCHANGED <<register, broadcast, running, send, done, handler, reader,
                   writer, connected, lines, seen>>

\* Mutant: the line is queued twice.
DeliverTwice(q, n) ==
    IF Len(q) + 1 < SendCap THEN q \o <<n, n>> ELSE IF Len(q) < SendCap THEN Append(q, n) ELSE q

\* A client whose channel is full misses the line.
Deliver(q, n) == IF Len(q) < SendCap THEN Append(q, n) ELSE q

RunBroadcast ==
    /\ running
    /\ broadcast # <<>>
    /\ LET n == Head(broadcast)
       IN  send' = [c \in Clients |->
                      IF c \in clients /\ Wants(c, n) THEN Deliver(send[c], n) ELSE send[c]]
    /\ broadcast' = Tail(broadcast)
    /\ UNCHANGED <<clients, register, unregister, running, closed, done, handler,
                   reader, writer, connected, lines, seen>>

\* case <-h.done: every client's channel is closed and Run returns.
RunDone ==
    /\ running
    /\ done
    /\ closed' = closed \cup clients
    /\ clients' = {}
    /\ running' = FALSE
    /\ UNCHANGED <<register, unregister, broadcast, send, done, handler, reader,
                   writer, connected, lines, seen>>

Run == RunRegister \/ RunUnregister \/ RunBroadcast \/ RunDone

-----------------------------------------------------------------------------
(* Broadcast, by the pipeline, and Stop, by main.                          *)

Broadcast ==
    /\ lines < MaxLines
    /\ lines' = lines + 1
    /\ broadcast' = IF Len(broadcast) < BroadcastCap
                    THEN Append(broadcast, lines + 1) ELSE broadcast
    /\ UNCHANGED <<clients, register, unregister, running, send, closed, done,
                   handler, reader, writer, connected, seen>>

Stop ==
    /\ ~done
    /\ done' = TRUE
    /\ UNCHANGED <<hubVars, handler, reader, writer, connected, lines, seen>>

-----------------------------------------------------------------------------
(* handleWebSocket.                                                        *)

\* The client count is checked before the upgrade.
Connect(c) ==
    /\ handler[c] = "none"
    /\ handler' = [handler EXCEPT ![c] = IF Full THEN "rejected" ELSE "upgraded"]
    /\ connected' = IF Full THEN connected ELSE connected \cup {c}
    /\ UNCHANGED <<hubVars, done, reader, writer, lines, seen>>

\* Mutant: Register and Unregister do not watch h.done.
PutBlocking(chan, chan2, c) == Len(chan) < ConnCap /\ chan2 = Append(chan, c)

\* The select of Register and of Unregister: the channel, or h.done.
Put(chan, chan2, c) ==
    \/ Len(chan) < ConnCap /\ chan2 = Append(chan, c)
    \/ done /\ chan2 = chan

\* Register, after which the pumps start.
Register(c) ==
    /\ handler[c] = "upgraded"
    /\ Put(register, register', c)
    /\ handler' = [handler EXCEPT ![c] = "registered"]
    /\ reader' = [reader EXCEPT ![c] = "running"]
    /\ writer' = [writer EXCEPT ![c] = "running"]
    /\ UNCHANGED <<clients, unregister, broadcast, running, send, closed, done,
                   connected, lines, seen>>

\* The browser closes the connection, or the network fails.
Disconnect(c) ==
    /\ c \in connected
    /\ connected' = connected \ {c}
    /\ UNCHANGED <<hubVars, done, handler, reader, writer, lines, seen>>

-----------------------------------------------------------------------------
(* The pumps.                                                              *)

\* wsReadPump closes a connection whose client sends too much ...
ReadRejects(c) ==
    /\ reader[c] = "running"
    /\ c \in connected
    /\ reader' = [reader EXCEPT ![c] = "unregistering"]
    /\ UNCHANGED <<hubVars, done, handler, writer, connected, lines, seen>>

\* ... and ends when ReadMessage fails.
ReadEnds(c) ==
    /\ reader[c] = "running"
    /\ c \notin connected
    /\ reader' = [reader EXCEPT ![c] = "unregistering"]
    /\ UNCHANGED <<hubVars, done, handler, writer, connected, lines, seen>>

\* Its deferred calls: Unregister, then conn.Close.
ReadUnregister(c) ==
    /\ reader[c] = "unregistering"
    /\ Put(unregister, unregister', c)
    /\ reader' = [reader EXCEPT ![c] = "gone"]
    /\ connected' = connected \ {c}
    /\ UNCHANGED <<clients, register, broadcast, running, send, closed, done,
                   handler, writer, lines, seen>>

\* wsWritePump: a line is written.
WriteLine(c) ==
    /\ writer[c] = "running"
    /\ send[c] # <<>>
    /\ c \in connected
    /\ seen' = [seen EXCEPT ![c] = Append(@, Head(send[c]))]
    /\ send' = [send EXCEPT ![c] = Tail(@)]
    /\ UNCHANGED <<clients, register, unregister, broadcast, running, closed, done,
                   handler, reader, writer, connected, lines>>

\* wsWritePump ends: Send is closed and drained, or a write or a ping fails.
\* Its deferred calls begin with conn.Close.
WriteEnds(c) ==
    /\ writer[c] = "running"
    /\ c \notin connected \/ (c \in closed /\ send[c] = <<>>)
    /\ writer' = [writer EXCEPT ![c] = "unregistering"]
    /\ connected' = connected \ {c}
    /\ UNCHANGED <<hubVars, done, handler, reader, lines, seen>>

WriteUnregister(c) ==
    /\ writer[c] = "unregistering"
    /\ Put(unregister, unregister', c)
    /\ writer' = [writer EXCEPT ![c] = "gone"]
    /\ UNCHANGED <<clients, register, broadcast, running, send, closed, done,
                   handler, reader, connected, lines, seen>>

Conn(c) ==
    \/ Register(c)
    \/ ReadEnds(c)
    \/ ReadUnregister(c)
    \/ WriteLine(c)
    \/ WriteEnds(c)
    \/ WriteUnregister(c)

Next ==
    \/ Run
    \/ Broadcast
    \/ Stop
    \/ \E c \in Clients : Connect(c) \/ Disconnect(c) \/ ReadRejects(c) \/ Conn(c)

Spec == Init /\ [][Next]_vars

\* Goroutines are scheduled, and Run's select does not pass over a channel that
\* stays ready for ever.  Nothing makes a browser connect, stay or leave.
FairSpec ==
    /\ Spec
    /\ WF_vars(RunRegister) /\ WF_vars(RunUnregister)
    /\ WF_vars(RunBroadcast) /\ WF_vars(RunDone)
    /\ \A c \in Clients : WF_vars(Conn(c)) /\ WF_vars(WriteEnds(c))

-----------------------------------------------------------------------------
(* Properties.                                                             *)

\* The hub never sends on a closed channel and never closes one twice, both of
\* which panic: a client in the map has an open channel, although each client is
\* unregistered by two goroutines and by Stop.  The channels, which others wait
\* on, stay within their capacities (TypeOK).
MappedAreOpen == TypeOK /\ clients \cap closed = {}

\* A browser sees the lines it wants in the order of the broadcasts, none
\* twice, whatever it misses.
InBroadcastOrder ==
    \A c \in Clients :
        LET flow == seen[c] \o send[c]
        IN  /\ \A i, j \in 1..Len(flow) : i < j => flow[i] < flow[j]
            /\ \A i \in 1..Len(flow) : Wants(c, flow[i])

\* "It never blocks after Stop has been called": when a connection is lost its
\* handler and both of its pumps end, each pump through the other and whether or
\* not the hub still runs.
ConnectionsEnd ==
    \A c \in Clients :
        (c \notin connected /\ handler[c] # "none")
            ~> (handler[c] # "upgraded" /\ reader[c] \in {"none", "gone"}
                  /\ writer[c] \in {"none", "gone"})

Queued(q, c) == \E i \in 1..Len(q) : q[i] = c

\* "Unregister removes a client from the hub": once both pumps have ended and
\* Run has served every request of the client, the client is not in the map.
Unregistered ==
    \A c \in Clients :
        /\ ~done /\ reader[c] = "gone" /\ writer[c] = "gone"
        /\ ~Queued(register, c) /\ ~Queued(unregister, c)
        => c \notin clients

=============================================================================
