----------------------------- MODULE ConnTable -----------------------------
(* The main loop of the server (main.c): the table of open connections, the *)
(* accept loop, the pass over the table with its in-place compaction, and  *)
(* the eviction of an idle connection when the table is full.              *)
(*                                                                         *)
(* A connection is named by the client at its other end; a client that was  *)
(* dropped may connect again.  What a connection does inside               *)
(* conn_processDataReady is limited by ConnContract!Admissible alone.      *)
EXTENDS Naturals, Sequences

CONSTANTS Client,      \* peers that may connect
          NoConn,      \* an array element that was never written
          MaxClients,  \* config_getMaxClients(), "maxclients" of the configuration
          Event,       \* bound: which of "data", "eof" and "resp" come to pass (see Readable)
          IdleCap      \* bound: the ghost idle age stops counting here

ASSUME NoConnAssumption == NoConn \notin Client
ASSUME MaxClientsAssumption == MaxClients \in Nat
ASSUME EventAssumption == Event \subseteq {"data", "eof", "resp"}
ASSUME IdleCapAssumption == IdleCap \in Nat

VARIABLES
  backlog,          \* clients in the kernel's accept queue, first come first
  connections,      \* the array of lines 23 and 41
  busyConnections,  \* the second array
  connCount, idleConnCount, busyConnCount,
  i,                \* index of the pass over the table
  pc,               \* which part of the loop body is executing
  open,             \* connections made by conn_new and not yet given to conn_free
  rrs,              \* the read state of each open connection
  ready,            \* events waiting on the descriptors of each client's connection
  awaits,           \* events that the latest call gave its descriptors to the selector for
  idleAge,          \* ghost: consecutive passes in which the connection was CONN_IDLE
  call              \* ghost: the latest call of conn_processDataReady

table == <<connections, busyConnections, connCount, idleConnCount, busyConnCount, i>>
vars == <<backlog, table, pc, open, rrs, ready, awaits, idleAge, call>>

Contract == INSTANCE ConnContract WITH rrs <- "RRS_IDLE", call <- NoConn

Index == 0 .. (MaxClients - 1)

\* On the socket: "data", bytes to read; "eof", the peer closed or reset.  "resp" is what a
\* request waits for elsewhere: room in the socket, output of a CGI program, or room in the
\* pipe to it when its body is not yet read.
Readable == {"data", "eof"}

\* what a call may set on the selector (lines 255 to 262 of serverconnection.c): the socket
\* is not read while the request is complete, or waits for a full pipe
Waits == {Readable, {"resp"}, Readable \union {"resp"}}

\* one more idle pass, counted up to the bound
Older(n) == IF n < IdleCap THEN n + 1 ELSE n

NoCall == [conn |-> NoConn, didRead |-> FALSE, evicted |-> FALSE, result |-> "CONN_IDLE"]

Init ==
  /\ backlog = << >>
  /\ connections = [k \in Index |-> NoConn]
  /\ busyConnections = [k \in Index |-> NoConn]
  /\ connCount = 0 /\ idleConnCount = 0 /\ busyConnCount = 0 /\ i = 0
  /\ pc = "select"
  /\ open = {}
  /\ rrs = [c \in Client |-> "IN_REQUEST"]
  /\ ready = [c \in Client |-> {}]
  /\ awaits = [c \in Client |-> Readable]
  /\ idleAge = [c \in Client |-> 0]
  /\ call = NoCall

----------------------------------------------------------------------------
(* The peers and the programs the connections wait for.                    *)

InBacklog(c) == \E k \in DOMAIN backlog : backlog[k] = c

Connect(c) ==
  /\ c \notin open /\ ~InBacklog(c)
  /\ backlog' = Append(backlog, c)
  /\ ready' = [ready EXCEPT ![c] = {}]
  /\ UNCHANGED <<table, pc, open, rrs, awaits, idleAge, call>>

Arrive(c, e) ==
  /\ c \in open \/ (InBacklog(c) /\ e # "resp")
  /\ e \notin ready[c]
  /\ e = "data" => "eof" \notin ready[c]
  /\ e = "resp" => "resp" \in awaits[c]
  /\ ready' = [ready EXCEPT ![c] = @ \union {e}]
  /\ UNCHANGED <<backlog, table, pc, open, rrs, awaits, idleAge, call>>

\* something that the connection waits for is there
Awaited(c) == ready[c] \intersect awaits[c]

----------------------------------------------------------------------------
(* Wrong variants of the loop, none of them part of Spec: each one breaks a *)
(* property below, which shows that the property can fail.                 *)

\* the listening socket is not watched while a connection is open
SelectDeaf ==
  /\ pc = "select"
  /\ \/ connCount = 0 /\ backlog # << >>
     \/ \E c \in open : Awaited(c) # {}
  /\ pc' = "accept"
  /\ UNCHANGED <<backlog, table, open, rrs, ready, awaits, idleAge, call>>

\* only the connection at the head of the table may be evicted
CloseIfIdleHeadOnly == connCount = MaxClients /\ i = 0

\* the connection at the end of the table is evicted
CloseIfIdleAtEnd == connCount = MaxClients /\ i = connCount - 1

\* an idle connection is moved before the elements still to be visited
KeepIdleUnpacked(c) ==
  /\ connections' = [connections EXCEPT ![busyConnCount] = c]
  /\ idleConnCount' = idleConnCount + 1
  /\ idleAge' = [idleAge EXCEPT ![c] = Older(@)]
  /\ UNCHANGED <<busyConnections, busyConnCount, open>>

\* the busy connections go first
BusyFirst == [k \in Index |->
  IF k < busyConnCount THEN busyConnections[k]
  ELSE IF k < idleConnCount + busyConnCount THEN connections[k - busyConnCount]
  ELSE NoConn]

\* the new count starts from the old one
AppendBusyCountKept ==
  /\ pc = "pass" /\ i = connCount
  /\ connCount' = connCount + busyConnCount
  /\ idleConnCount' = 0 /\ busyConnCount' = 0 /\ i' = 0
  /\ pc' = "select"
  /\ UNCHANGED <<backlog, connections, busyConnections, call, open, rrs, ready, awaits, idleAge>>

\* the busy connections are not put back
AppendBusyForgotten ==
  /\ pc = "pass" /\ i = connCount
  /\ connections' = [k \in Index |-> IF k < idleConnCount THEN connections[k] ELSE NoConn]
  /\ busyConnections' = [k \in Index |-> NoConn]
  /\ connCount' = idleConnCount
  /\ idleConnCount' = 0 /\ busyConnCount' = 0 /\ i' = 0
  /\ pc' = "select"
  /\ call' = NoCall
  /\ UNCHANGED <<backlog, open, rrs, ready, awaits, idleAge>>

----------------------------------------------------------------------------
(* The loop.                                                               *)

\* drs_select returns when something that is watched is ready: the listening socket,
\* watched only below the limit, or what the latest pass set for a connection.  (The
\* sets are empty then; every connection that stays open sets its own again.)
Select ==
  /\ pc = "select"
  /\ \/ connCount < MaxClients /\ backlog # << >>
     \/ \E c \in open : Awaited(c) # {}
  /\ pc' = "accept"
  /\ UNCHANGED <<backlog, table, open, rrs, ready, awaits, idleAge, call>>

\* one iteration of the accept loop that gives a connection
Accept ==
  /\ pc = "accept"
  /\ connCount < MaxClients /\ backlog # << >>
  /\ connections' = [connections EXCEPT ![connCount] = Head(backlog)]
  /\ connCount' = connCount + 1
  /\ open' = open \union {Head(backlog)}
  /\ rrs' = [rrs EXCEPT ![Head(backlog)] = "IN_REQUEST"]
  /\ awaits' = [awaits EXCEPT ![Head(backlog)] = Readable]   \* the pass that follows reads it
  /\ idleAge' = [idleAge EXCEPT ![Head(backlog)] = 0]
  /\ backlog' = Tail(backlog)
  /\ UNCHANGED <<busyConnections, idleConnCount, busyConnCount, i, pc, ready, call>>

\* lines 66 and 67: i and the two counters are 0 here
BeginPass ==
  /\ pc' = "pass"
  /\ UNCHANGED <<backlog, table, open, rrs, ready, awaits, idleAge, call>>

\* the table is full, or accept() gives EWOULDBLOCK
AcceptDone ==
  /\ pc = "accept"
  /\ connCount = MaxClients \/ backlog = << >>
  /\ BeginPass

\* accept() fails with a client waiting (no descriptor left, say); the test of
\* line 61 is never true, so the failure only ends the accept loop
AcceptError ==
  /\ pc = "accept"
  /\ connCount < MaxClients /\ backlog # << >>
  /\ BeginPass

CloseIfIdle == connCount = MaxClients /\ i = busyConnCount

\* What conn_processDataReady(c) may do.  "closes": the call found a reason to
\* close of its own (end of input, an error, "Connection: close", HTTP/1.0);
\* "closing as most idle" (line 250) comes after that.  What a closed connection
\* awaits and leaves is of no interest, as conn_free follows.
Outcomes(c, closeIfIdle) ==
  {o \in [after : Contract!RRS, left : SUBSET (ready[c] \ {"resp"}), awaits : Waits,
          didRead : BOOLEAN, closes : BOOLEAN, evicted : BOOLEAN, result : Contract!Result] :
     \* nothing it waits for is there: it does nothing and waits on
     /\ Awaited(c) = {} => /\ o.after = rrs[c] /\ o.left = ready[c] /\ o.awaits = awaits[c]
                           /\ ~o.didRead /\ ~o.closes
     \* a call that has to read begins with that, and a closed socket ends it
     /\ "data" \in awaits[c] => (o.didRead <=> "data" \in ready[c])
     /\ "eof" \in Awaited(c) /\ ~o.didRead => o.closes
     \* input leaves by being read, and the end of it by closing
     /\ o.didRead => "data" \in ready[c]
     /\ "data" \in ready[c] \ o.left => o.didRead \/ o.closes
     /\ "eof" \in ready[c] \ o.left => o.closes
     \* the socket is awaited when all of it was read
     /\ "data" \in o.awaits => o.left = {}
     /\ o.after = "RRS_IDLE" => o.awaits = Readable
     /\ o.closes => o.after = "RRS_IDLE"
     /\ o.evicted <=> ~o.closes /\ closeIfIdle /\ o.after = "RRS_IDLE"
     /\ o.result = IF o.closes \/ o.evicted THEN "CONN_TO_CLOSE"
                   ELSE IF rrs[c] = "RRS_IDLE" /\ ~o.didRead THEN "CONN_IDLE"
                   ELSE "CONN_BUSY"
     /\ Contract!Admissible(rrs[c], o.after, o.didRead, closeIfIdle, o.result)}

KeepBusy(c) ==
  /\ busyConnections' = [busyConnections EXCEPT ![busyConnCount] = c]
  /\ busyConnCount' = busyConnCount + 1
  /\ idleAge' = [idleAge EXCEPT ![c] = 0]
  /\ UNCHANGED <<connections, idleConnCount, open>>

KeepIdle(c) ==
  /\ connections' = [connections EXCEPT ![idleConnCount] = c]
  /\ idleConnCount' = idleConnCount + 1
  /\ idleAge' = [idleAge EXCEPT ![c] = Older(@)]
  /\ UNCHANGED <<busyConnections, busyConnCount, open>>

Drop(c) ==
  /\ open' = open \ {c}
  /\ UNCHANGED <<connections, busyConnections, idleConnCount, busyConnCount, idleAge>>

\* one iteration of the pass (lines 68 to 86)
Process ==
  /\ pc = "pass" /\ i < connCount
  /\ LET c == connections[i] IN
       \E o \in Outcomes(c, CloseIfIdle) :
         /\ rrs' = [rrs EXCEPT ![c] = o.after]
         /\ ready' = [ready EXCEPT ![c] = o.left]
         /\ awaits' = [awaits EXCEPT ![c] = o.awaits]
         /\ call' = [conn |-> c, didRead |-> o.didRead, evicted |-> o.evicted,
                     result |-> o.result]
         /\ \/ o.result = "CONN_BUSY" /\ KeepBusy(c)
            \/ o.result = "CONN_IDLE" /\ KeepIdle(c)
            \/ o.result = "CONN_TO_CLOSE" /\ Drop(c)
  /\ i' = i + 1
  /\ UNCHANGED <<backlog, connCount, pc>>

Appended == [k \in Index |->
  IF k < idleConnCount THEN connections[k]
  ELSE IF k < idleConnCount + busyConnCount THEN busyConnections[k - idleConnCount]
  ELSE NoConn]

\* lines 87 to 89; elements the loop will not read again are forgotten
AppendBusy ==
  /\ pc = "pass" /\ i = connCount
  /\ connections' = Appended
  /\ busyConnections' = [k \in Index |-> NoConn]
  /\ connCount' = idleConnCount + busyConnCount
  /\ idleConnCount' = 0 /\ busyConnCount' = 0 /\ i' = 0
  /\ pc' = "select"
  /\ call' = NoCall
  /\ UNCHANGED <<backlog, open, rrs, ready, awaits, idleAge>>

Loop == Select \/ Accept \/ AcceptDone \/ AcceptError \/ Process \/ AppendBusy

Next ==
  \/ \E c \in Client : Connect(c) \/ \E e \in Event : Arrive(c, e)
  \/ Loop

Spec == Init /\ [][Next]_vars

\* The loop never stops by itself; accept() does not fail for ever.
FairSpec == Spec /\ WF_vars(Loop) /\ SF_vars(Accept)

----------------------------------------------------------------------------
(* Properties.                                                             *)

TypeOK ==
  /\ backlog \in Seq(Client)
  /\ connections \in [Index -> Client \union {NoConn}]
  /\ busyConnections \in [Index -> Client \union {NoConn}]
  /\ connCount \in 0 .. MaxClients
  /\ i \in 0 .. MaxClients
  /\ idleConnCount \in 0 .. MaxClients /\ busyConnCount \in 0 .. MaxClients
  /\ pc \in {"select", "accept", "pass"}
  /\ open \subseteq Client
  /\ rrs \in [Client -> Contract!RRS]
  /\ ready \in [Client -> SUBSET Event] /\ awaits \in [Client -> Waits]
  /\ idleAge \in [Client -> 0 .. IdleCap]
  /\ call \in [conn : Client \union {NoConn}, didRead : BOOLEAN, evicted : BOOLEAN,
               result : Contract!Result]

\* The elements that stand for a connection: in connections the ones kept as
\* idle and the ones the pass has not reached (outside the pass i and the two
\* counters are 0, and these are all of them), and the busy ones set aside.
Kept == 0 .. (idleConnCount - 1) \union i .. (connCount - 1)
SetAside == 0 .. (busyConnCount - 1)

\* Whatever the pass keeps, moves or frees, every open connection stands in the
\* table exactly once (none leaks, none is freed or processed twice), and every
\* element of the table is a connection that is still open.
EachOpenOnce ==
  /\ \A k \in Kept : connections[k] \in open
  /\ \A k \in SetAside : busyConnections[k] \in open
  /\ \A j, k \in Kept : connections[j] = connections[k] => j = k
  /\ \A j, k \in SetAside : busyConnections[j] = busyConnections[k] => j = k
  /\ \A j \in Kept, k \in SetAside : connections[j] # busyConnections[k]
  /\ \A c \in open : \/ \E k \in Kept : connections[k] = c
                     \/ \E k \in SetAside : busyConnections[k] = c

\* The server never waits with a full table that holds an idle connection: the
\* pass that met the limit made room, so the listening socket is watched again.
AtCapacityNoneIdle ==
  pc = "select" /\ connCount = MaxClients => \A c \in open : rrs[c] # "RRS_IDLE"

\* "keep connections ordered descending by idle time" (line 63): when the server
\* waits, a connection never stands behind one that was idle for fewer passes.
OrderedByIdleAge ==
  pc = "select" =>
    \A j, k \in 0 .. (connCount - 1) :
      j < k => idleAge[connections[j]] >= idleAge[connections[k]]

\* Eviction takes a connection that no other one had been idle for longer than,
\* except those that are now in the middle of a request.
EvictsMostIdle ==
  [][call'.evicted =>
       \A d \in open \ {call'.conn} :
         rrs[d] # "RRS_IDLE" \/ idleAge[d] <= idleAge[call'.conn]]_call

\* serverconnection.h:29-30: closeIfIdle closes a connection that "is in idle
\* state and no data was read".
EvictedReadNothing == call.evicted => ~call.didRead

\* A client waiting in the accept queue is accepted, whatever the others do, if
\* the server keeps coming back to select with room in the table.
WaitingIsAccepted ==
  []<>(pc = "select" /\ connCount < MaxClients) =>
    \A c \in Client : InBacklog(c) ~> c \in open

\* What an open connection waits for is followed, when it is there, by a call of
\* conn_processDataReady for that connection: no order of events starves one, and no
\* pass leaves one out.  (What it does not wait for wakes nobody, such as a client that
\* leaves while a CGI program is silent.)
EventIsProcessed ==
  \A c \in Client : c \in open /\ Awaited(c) # {} ~> call.conn = c
============================================================================
