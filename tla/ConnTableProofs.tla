------------------------- MODULE ConnTableProofs -------------------------
(* Theorems about ConnTable, for every set of clients and every limit.   *)
EXTENDS ConnTable, TLAPS

(* Where the pass stands; a client is in the accept queue at most once,  *)
(* and only when the server holds no connection of that client.          *)
Shape ==
  /\ pc # "pass" => i = 0 /\ idleConnCount = 0 /\ busyConnCount = 0
  /\ i <= connCount /\ idleConnCount + busyConnCount <= i
  /\ \A k \in DOMAIN backlog : backlog[k] \notin open
  /\ \A j, k \in DOMAIN backlog : backlog[j] = backlog[k] => j = k

(* In a full table the pass has met busy connections only, all of them   *)
(* in the middle of a request, or it has already freed an element.       *)
RoomMade ==
  connCount = MaxClients =>
    \/ /\ i = busyConnCount
       /\ \A k \in SetAside : rrs[busyConnections[k]] # "RRS_IDLE"
    \/ idleConnCount + busyConnCount < i

PassInv == pc = "pass" => RoomMade

Inv == TypeOK /\ Shape /\ EachOpenOnce

USE NoConnAssumption, MaxClientsAssumption, IdleCapAssumption, EventAssumption

LEMMA InitInv == Init => Inv
  BY DEF Init, Inv, TypeOK, Shape, EachOpenOnce, Kept, SetAside, Index, NoCall,
         Waits, Contract!RRS, Contract!Result

(* What the environment does touches neither the table nor open. *)
LEMMA ConnectInv ==
  ASSUME Inv, NEW c \in Client, Connect(c)
  PROVE  Inv'
<1>1. TypeOK'
  BY DEF Inv, TypeOK, Connect, table
<1>2. /\ backlog \in Seq(Client) /\ DOMAIN backlog = 1 .. Len(backlog)
      /\ Len(backlog) \in Nat
      /\ backlog' = Append(backlog, c)
      /\ Len(backlog') = Len(backlog) + 1
      /\ DOMAIN backlog' = 1 .. (Len(backlog) + 1)
      /\ \A k \in 1 .. Len(backlog) : backlog'[k] = backlog[k]
      /\ backlog'[Len(backlog) + 1] = c
  BY DEF Inv, TypeOK, Connect
<1>4. Shape'
  <2>1. \A k \in DOMAIN backlog' : backlog'[k] \notin open'
    BY <1>2 DEF Inv, Shape, Connect
  <2>2. \A j, k \in DOMAIN backlog' : backlog'[j] = backlog'[k] => j = k
    BY <1>2 DEF Inv, Shape, Connect, InBacklog
  <2> QED BY <2>1, <2>2 DEF Inv, Shape, Connect, table
<1>3. EachOpenOnce'
  BY DEF Inv, EachOpenOnce, Kept, SetAside, Connect, table
<1> QED BY <1>1, <1>3, <1>4 DEF Inv

LEMMA ArriveInv ==
  ASSUME Inv, NEW c \in Client, NEW e \in Event, Arrive(c, e)
  PROVE  Inv'
<1>1. TypeOK'
  BY DEF Inv, TypeOK, Arrive, table
<1>2. Shape'
  BY DEF Inv, TypeOK, Shape, Arrive, table
<1>3. EachOpenOnce'
  BY DEF Inv, EachOpenOnce, Kept, SetAside, Arrive, table
<1> QED BY <1>1, <1>2, <1>3 DEF Inv

LEMMA ControlInv ==
  ASSUME Inv, Select \/ AcceptDone \/ AcceptError
  PROVE  Inv'
<1>1. TypeOK'
  BY DEF Inv, TypeOK, Select, AcceptDone, AcceptError, BeginPass, table
<1>2. Shape'
  BY DEF Inv, TypeOK, Shape, Select, AcceptDone, AcceptError, BeginPass, table
<1>3. EachOpenOnce'
  BY DEF Inv, EachOpenOnce, Kept, SetAside, Select, AcceptDone, AcceptError, BeginPass, table
<1> QED BY <1>1, <1>2, <1>3 DEF Inv

LEMMA AcceptInv ==
  ASSUME Inv, Accept
  PROVE  Inv'
<1> DEFINE h == Head(backlog)
<1>1. /\ backlog \in Seq(Client) /\ backlog # << >>
      /\ h \in Client /\ h = backlog[1] /\ 1 \in DOMAIN backlog
      /\ Tail(backlog) \in Seq(Client)
      /\ Len(Tail(backlog)) = Len(backlog) - 1
      /\ \A k \in 1 .. Len(Tail(backlog)) : Tail(backlog)[k] = backlog[k + 1]
  BY DEF Inv, TypeOK, Accept
<1>2. h \notin open
  BY <1>1 DEF Inv, Shape
<1>3. connCount \in Index /\ pc = "accept"
  BY DEF Inv, TypeOK, Accept, Index
<1>4. TypeOK'
  <2>1. connections' \in [Index -> Client \union {NoConn}]
    BY <1>1, <1>3 DEF Inv, TypeOK, Accept
  <2>2. open' \subseteq Client /\ idleAge' \in [Client -> 0 .. IdleCap]
    BY <1>1 DEF Inv, TypeOK, Accept
  <2>3. rrs' \in [Client -> Contract!RRS] BY <1>1 DEF Inv, TypeOK, Accept, Contract!RRS
  <2>4. connCount' \in 0 .. MaxClients BY <1>3 DEF Accept, Index
  <2>5. backlog' \in Seq(Client) BY <1>1 DEF Accept
  <2>6. /\ busyConnections' \in [Index -> Client \union {NoConn}]
        /\ ready' \in [Client -> SUBSET Event]
        /\ i' \in 0 .. MaxClients /\ idleConnCount' \in 0 .. MaxClients
        /\ busyConnCount' \in 0 .. MaxClients
    BY DEF Inv, TypeOK, Accept
  <2>7. awaits' \in [Client -> Waits]
    <3>1. Readable \in Waits BY DEF Waits
    <3> QED BY <1>1, <3>1 DEF Inv, TypeOK, Accept
  <2> QED BY <2>1, <2>2, <2>3, <2>4, <2>5, <2>6, <2>7 DEF Inv, TypeOK, Accept
<1>5. Shape'
  <2> DEFINE rest == Tail(backlog)
  <2>1. backlog' = rest /\ open' = open \union {h} BY DEF Accept
  <2>2. /\ DOMAIN rest = 1 .. Len(rest)
        /\ \A k \in DOMAIN rest : rest[k] = backlog[k + 1] /\ k + 1 \in DOMAIN backlog /\ k + 1 # 1
    BY <1>1
  <2>3. /\ \A k \in DOMAIN backlog : backlog[k] \notin open
        /\ \A j, k \in DOMAIN backlog : backlog[j] = backlog[k] => j = k
    BY DEF Inv, Shape
  <2> HIDE DEF h, rest
  <2>4. \A k \in DOMAIN rest : rest[k] \notin open /\ rest[k] # h BY <1>1, <2>2, <2>3
  <2>5. \A j, k \in DOMAIN rest : rest[j] = rest[k] => j = k
    <3> SUFFICES ASSUME NEW j \in DOMAIN rest, NEW k \in DOMAIN rest, rest[j] = rest[k] PROVE j = k
      OBVIOUS
    <3>1. j + 1 = k + 1 BY <2>2, <2>3
    <3>2. j \in Nat /\ k \in Nat BY <1>1, <2>2
    <3> QED BY <3>1, <3>2
  <2>6. /\ \A k \in DOMAIN backlog' : backlog'[k] \notin open'
        /\ \A j, k \in DOMAIN backlog' : backlog'[j] = backlog'[k] => j = k
    BY <2>1, <2>4, <2>5
  <2> QED BY <1>3, <2>6 DEF Inv, TypeOK, Shape, Accept
<1>6. EachOpenOnce'
  <2>1. /\ Kept = 0 .. (connCount - 1) /\ SetAside = {}
        /\ Kept' = Kept \union {connCount} /\ SetAside' = {}
        /\ connCount \notin Kept
    BY <1>3 DEF Inv, TypeOK, Shape, Kept, SetAside, Accept
  <2>2. /\ \A k \in Kept : connections'[k] = connections[k]
        /\ connections'[connCount] = h
        /\ open' = open \union {h}
    BY <1>3, <2>1 DEF Inv, TypeOK, Accept, Index
  <2>3. \A k \in Kept : connections[k] # h
    BY <1>2 DEF Inv, EachOpenOnce
  <2> HIDE DEF h
  <2>4. \A k \in Kept' : connections'[k] \in open'
    BY <2>1, <2>2 DEF Inv, EachOpenOnce
  <2>5. \A j, k \in Kept' : connections'[j] = connections'[k] => j = k
    BY <2>1, <2>2, <2>3 DEF Inv, EachOpenOnce
  <2>6. \A c \in open' : \E k \in Kept' : connections'[k] = c
    BY <2>1, <2>2 DEF Inv, EachOpenOnce
  <2> QED BY <2>1, <2>4, <2>5, <2>6 DEF EachOpenOnce
<1> QED BY <1>4, <1>5, <1>6 DEF Inv

(* One iteration of the pass, by the result of the call. *)
LEMMA ProcessFacts ==
  ASSUME Inv, Process
  PROVE  /\ i \in Index /\ i' = i + 1 /\ connCount' = connCount /\ pc = "pass" /\ pc' = "pass"
         /\ connections[i] \in open /\ connections[i] \in Client
         /\ idleConnCount \in Index /\ busyConnCount \in Index
         /\ idleConnCount <= i /\ busyConnCount <= i /\ i < connCount
         /\ rrs' \in [Client -> Contract!RRS]
         /\ ready' \in [Client -> SUBSET Event] /\ awaits' \in [Client -> Waits]
         /\ call' \in [conn : Client \union {NoConn}, didRead : BOOLEAN, evicted : BOOLEAN,
                       result : Contract!Result]
         /\ \/ KeepBusy(connections[i])
            \/ KeepIdle(connections[i])
            \/ Drop(connections[i])
<1> DEFINE c == connections[i]
<1>1. /\ i \in Index /\ i' = i + 1 /\ connCount' = connCount /\ pc = "pass" /\ pc' = "pass"
      /\ idleConnCount \in Index /\ busyConnCount \in Index
      /\ idleConnCount <= i /\ busyConnCount <= i /\ i < connCount
  BY DEF Inv, TypeOK, Shape, Process, Index
<1>2. c \in open /\ c \in Client
  BY <1>1 DEF Inv, TypeOK, EachOpenOnce, Kept, Index
<1>3. PICK o \in Outcomes(c, CloseIfIdle) :
        /\ rrs' = [rrs EXCEPT ![c] = o.after]
        /\ ready' = [ready EXCEPT ![c] = o.left]
        /\ awaits' = [awaits EXCEPT ![c] = o.awaits]
        /\ call' = [conn |-> c, didRead |-> o.didRead, evicted |-> o.evicted,
                    result |-> o.result]
        /\ \/ o.result = "CONN_BUSY" /\ KeepBusy(c)
           \/ o.result = "CONN_IDLE" /\ KeepIdle(c)
           \/ o.result = "CONN_TO_CLOSE" /\ Drop(c)
  BY DEF Process
<1>4. /\ o.after \in Contract!RRS /\ o.left \in SUBSET ready[c] /\ o.result \in Contract!Result
      /\ o.awaits \in Waits /\ o.didRead \in BOOLEAN /\ o.evicted \in BOOLEAN
  BY <1>3 DEF Outcomes
<1> HIDE DEF c
<1>5. /\ rrs' \in [Client -> Contract!RRS]
      /\ ready' \in [Client -> SUBSET Event] /\ awaits' \in [Client -> Waits]
  BY <1>2, <1>3, <1>4 DEF Inv, TypeOK
<1>6. call' \in [conn : Client \union {NoConn}, didRead : BOOLEAN, evicted : BOOLEAN,
                 result : Contract!Result]
  BY <1>2, <1>3, <1>4
<1> QED BY <1>1, <1>2, <1>3, <1>5, <1>6 DEF c

LEMMA ProcessInv ==
  ASSUME Inv, Process
  PROVE  Inv'
<1> DEFINE c == connections[i]
<1>1. /\ i \in Index /\ i' = i + 1 /\ connCount' = connCount /\ pc = "pass" /\ pc' = "pass"
      /\ c \in open /\ c \in Client /\ c = connections[i]
      /\ idleConnCount \in Index /\ busyConnCount \in Index
      /\ idleConnCount <= i /\ busyConnCount <= i /\ i < connCount
      /\ KeepBusy(c) \/ KeepIdle(c) \/ Drop(c)
      /\ backlog' = backlog
  BY ProcessFacts DEF Process
<1>8. /\ connCount \in Nat /\ connCount <= MaxClients
      /\ i \in Nat /\ idleConnCount \in Nat /\ busyConnCount \in Nat
  BY DEF Inv, TypeOK
<1>2. i \in Kept
  BY <1>1, <1>8 DEF Kept
<1>3. /\ \A k \in Kept : k # i => connections[k] # c
      /\ \A k \in SetAside : busyConnections[k] # c
  BY <1>1, <1>2 DEF Inv, EachOpenOnce
<1>4. /\ rrs' \in [Client -> Contract!RRS]
      /\ ready' \in [Client -> SUBSET Event] /\ awaits' \in [Client -> Waits]
      /\ call' \in [conn : Client \union {NoConn}, didRead : BOOLEAN, evicted : BOOLEAN,
                    result : Contract!Result]
  BY ProcessFacts
<1> HIDE DEF c
<1>5. CASE KeepBusy(c)
  <2>1. TypeOK'
    <3>1. idleAge' \in [Client -> 0 .. IdleCap]
      BY <1>1, <1>5 DEF Inv, TypeOK, KeepBusy
    <3>2. busyConnections' \in [Index -> Client \union {NoConn}]
      BY <1>1, <1>5 DEF Inv, TypeOK, KeepBusy
    <3>3. i' \in 0 .. MaxClients /\ busyConnCount' \in 0 .. MaxClients
      BY <1>1, <1>5, <1>8 DEF KeepBusy, Index
    <3>4. /\ connections' \in [Index -> Client \union {NoConn}] /\ open' \subseteq Client
          /\ idleConnCount' \in 0 .. MaxClients
      BY <1>5 DEF Inv, TypeOK, KeepBusy
    <3>5. backlog' \in Seq(Client) /\ connCount' \in 0 .. MaxClients
      BY <1>1 DEF Inv, TypeOK
    <3> QED BY <1>1, <1>4, <3>1, <3>2, <3>3, <3>4, <3>5 DEF TypeOK
  <2>2. Shape'
    BY <1>1, <1>5 DEF Inv, TypeOK, Shape, KeepBusy
  <2>3. /\ Kept' = Kept \ {i} /\ SetAside' = SetAside \union {busyConnCount}
        /\ busyConnCount \notin SetAside
        /\ connections' = connections /\ busyConnections'[busyConnCount] = c
        /\ \A k \in SetAside : busyConnections'[k] = busyConnections[k]
        /\ open' = open
    <3>1. Kept' = Kept \ {i} BY <1>1, <1>5, <1>8 DEF KeepBusy, Kept
    <3>2. SetAside' = SetAside \union {busyConnCount} /\ busyConnCount \notin SetAside
      BY <1>5, <1>8 DEF KeepBusy, SetAside
    <3>3. busyConnections' = [busyConnections EXCEPT ![busyConnCount] = c]
      BY <1>5 DEF KeepBusy
    <3>4. /\ busyConnections \in [Index -> Client \union {NoConn}]
          /\ busyConnCount \in Index /\ SetAside \subseteq Index
      BY <1>1, <1>8 DEF Inv, TypeOK, SetAside, Index
    <3>5. /\ busyConnections'[busyConnCount] = c
          /\ \A k \in SetAside : busyConnections'[k] = busyConnections[k]
      BY <3>2, <3>3, <3>4
    <3>6. connections' = connections /\ open' = open BY <1>5 DEF KeepBusy
    <3> QED BY <3>1, <3>2, <3>5, <3>6
  <2>4. EachOpenOnce'
    <3>1. /\ \A k \in Kept' : connections'[k] \in open'
          /\ \A k \in SetAside' : busyConnections'[k] \in open'
      BY <1>1, <2>3 DEF Inv, EachOpenOnce
    <3>2. \A j, k \in Kept' : connections'[j] = connections'[k] => j = k
      BY <2>3 DEF Inv, EachOpenOnce
    <3>3. \A j, k \in SetAside' : busyConnections'[j] = busyConnections'[k] => j = k
      BY <1>3, <2>3 DEF Inv, EachOpenOnce
    <3>4. \A j \in Kept', k \in SetAside' : connections'[j] # busyConnections'[k]
      BY <1>3, <2>3 DEF Inv, EachOpenOnce
    <3>5. \A d \in open' : \/ \E k \in Kept' : connections'[k] = d
                           \/ \E k \in SetAside' : busyConnections'[k] = d
      BY <1>1, <1>3, <2>3 DEF Inv, EachOpenOnce
    <3> QED BY <3>1, <3>2, <3>3, <3>4, <3>5 DEF EachOpenOnce
  <2> QED BY <2>1, <2>2, <2>4 DEF Inv
<1>6. CASE KeepIdle(c)
  <2>1. TypeOK'
    <3>1. idleAge' \in [Client -> 0 .. IdleCap]
      BY <1>1, <1>6 DEF Inv, TypeOK, KeepIdle, Older
    <3>2. connections' \in [Index -> Client \union {NoConn}]
      BY <1>1, <1>6 DEF Inv, TypeOK, KeepIdle
    <3>3. i' \in 0 .. MaxClients /\ idleConnCount' \in 0 .. MaxClients
      BY <1>1, <1>6, <1>8 DEF KeepIdle, Index
    <3>4. /\ busyConnections' \in [Index -> Client \union {NoConn}] /\ open' \subseteq Client
          /\ busyConnCount' \in 0 .. MaxClients
      BY <1>6 DEF Inv, TypeOK, KeepIdle
    <3>5. backlog' \in Seq(Client) /\ connCount' \in 0 .. MaxClients
      BY <1>1 DEF Inv, TypeOK
    <3> QED BY <1>1, <1>4, <3>1, <3>2, <3>3, <3>4, <3>5 DEF TypeOK
  <2>2. Shape'
    BY <1>1, <1>6 DEF Inv, TypeOK, Shape, KeepIdle
  <2>3. /\ Kept' = (Kept \ {i}) \union {idleConnCount}
        /\ connections'[idleConnCount] = c
        /\ \A k \in Kept \ {i} : k # idleConnCount /\ connections'[k] = connections[k]
        /\ busyConnections' = busyConnections /\ SetAside' = SetAside
        /\ open' = open
    <3>1. Kept' = (Kept \ {i}) \union {idleConnCount}
      BY <1>1, <1>6, <1>8 DEF KeepIdle, Kept
    <3>2. \A k \in Kept \ {i} : k # idleConnCount
      BY <1>1, <1>8 DEF Kept
    <3>3. connections' = [connections EXCEPT ![idleConnCount] = c]
      BY <1>6 DEF KeepIdle
    <3>4. connections \in [Index -> Client \union {NoConn}] /\ Kept \subseteq Index
      BY <1>1, <1>8 DEF Inv, TypeOK, Kept, Index
    <3> QED BY <1>1, <1>6, <3>1, <3>2, <3>3, <3>4 DEF KeepIdle, SetAside
  <2>4. EachOpenOnce'
    <3>1. /\ \A k \in Kept' : connections'[k] \in open'
          /\ \A k \in SetAside' : busyConnections'[k] \in open'
      BY <1>1, <2>3 DEF Inv, EachOpenOnce
    <3>2. \A j, k \in Kept' : connections'[j] = connections'[k] => j = k
      BY <1>3, <2>3 DEF Inv, EachOpenOnce
    <3>3. \A j, k \in SetAside' : busyConnections'[j] = busyConnections'[k] => j = k
      BY <2>3 DEF Inv, EachOpenOnce
    <3>4. \A j \in Kept', k \in SetAside' : connections'[j] # busyConnections'[k]
      BY <1>3, <2>3 DEF Inv, EachOpenOnce
    <3>5. \A d \in open' : \/ \E k \in Kept' : connections'[k] = d
                           \/ \E k \in SetAside' : busyConnections'[k] = d
      BY <1>1, <1>3, <2>3 DEF Inv, EachOpenOnce
    <3> QED BY <3>1, <3>2, <3>3, <3>4, <3>5 DEF EachOpenOnce
  <2> QED BY <2>1, <2>2, <2>4 DEF Inv
<1>7. CASE Drop(c)
  <2>1. TypeOK'
    BY <1>1, <1>4, <1>7 DEF Inv, TypeOK, Drop, Index
  <2>2. Shape'
    BY <1>1, <1>7 DEF Inv, TypeOK, Shape, Drop
  <2>3. /\ Kept' = Kept \ {i} /\ SetAside' = SetAside
        /\ connections' = connections /\ busyConnections' = busyConnections
        /\ open' = open \ {c}
    <3>1. Kept' = Kept \ {i} BY <1>1, <1>7, <1>8 DEF Drop, Kept
    <3> QED BY <1>7, <3>1 DEF Drop, SetAside
  <2>4. EachOpenOnce'
    BY <1>1, <1>3, <2>3 DEF Inv, EachOpenOnce
  <2> QED BY <2>1, <2>2, <2>4 DEF Inv
<1> QED BY <1>1, <1>5, <1>6, <1>7

LEMMA AppendBusyInv ==
  ASSUME Inv, AppendBusy
  PROVE  Inv'
<1>1. /\ i = connCount /\ connCount' = idleConnCount + busyConnCount
      /\ connCount' <= connCount /\ pc' = "select"
      /\ i' = 0 /\ idleConnCount' = 0 /\ busyConnCount' = 0
      /\ idleConnCount \in Nat /\ busyConnCount \in Nat /\ connCount \in Nat
      /\ connCount <= MaxClients
      /\ backlog' = backlog /\ open' = open /\ connections' = Appended
  BY DEF Inv, TypeOK, Shape, AppendBusy
<1>2. /\ Kept = 0 .. (idleConnCount - 1) /\ SetAside = 0 .. (busyConnCount - 1)
      /\ Kept' = 0 .. (idleConnCount + busyConnCount - 1) /\ SetAside' = {}
  BY <1>1 DEF Kept, SetAside
<1>3. /\ \A k \in Kept : k \in Kept' /\ connections'[k] = connections[k]
      /\ \A k \in SetAside : /\ k + idleConnCount \in Kept'
                             /\ connections'[k + idleConnCount] = busyConnections[k]
      /\ \A k \in Kept' : \/ k \in Kept
                          \/ k - idleConnCount \in SetAside
      /\ \A k \in Kept' \ Kept : connections'[k] = busyConnections[k - idleConnCount]
  BY <1>1, <1>2 DEF Appended, Index
<1>4. TypeOK'
  <2>1. connections' \in [Index -> Client \union {NoConn}]
    BY <1>1 DEF Inv, TypeOK, Appended, Index
  <2> QED BY <1>1, <2>1 DEF Inv, TypeOK, AppendBusy, NoCall, Contract!Result
<1>5. Shape'
  BY <1>1 DEF Inv, Shape
<1>6. EachOpenOnce'
  <2>1. \A k \in Kept' : connections'[k] \in open'
    BY <1>1, <1>3 DEF Inv, EachOpenOnce
  <2>2. \A j, k \in Kept' : connections'[j] = connections'[k] => j = k
    <3> SUFFICES ASSUME NEW j \in Kept', NEW k \in Kept', connections'[j] = connections'[k]
                 PROVE  j = k
      OBVIOUS
    <3>1. CASE j \in Kept /\ k \in Kept
      BY <1>3, <3>1 DEF Inv, EachOpenOnce
    <3>2. CASE j \in Kept /\ k \notin Kept
      BY <1>3, <3>2 DEF Inv, EachOpenOnce
    <3>3. CASE j \notin Kept /\ k \in Kept
      BY <1>3, <3>3 DEF Inv, EachOpenOnce
    <3>4. CASE j \notin Kept /\ k \notin Kept
      <4>1. j - idleConnCount = k - idleConnCount
        BY <1>3, <3>4 DEF Inv, EachOpenOnce
      <4> QED BY <1>1, <1>2, <4>1
    <3> QED BY <3>1, <3>2, <3>3, <3>4
  <2>3. \A d \in open' : \E k \in Kept' : connections'[k] = d
    BY <1>1, <1>3 DEF Inv, EachOpenOnce
  <2> QED BY <1>2, <2>1, <2>2, <2>3 DEF EachOpenOnce
<1> QED BY <1>4, <1>5, <1>6 DEF Inv

LEMMA NextInv ==
  ASSUME Inv, [Next]_vars
  PROVE  Inv'
<1>1. CASE UNCHANGED vars
  <2>1. UNCHANGED <<backlog, connections, busyConnections, connCount, idleConnCount,
                    busyConnCount, i, pc, open, rrs, ready, awaits, idleAge, call>>
    BY <1>1 DEF vars, table
  <2>2. TypeOK'
    BY <2>1 DEF Inv, TypeOK
  <2>3. Shape'
    BY <2>1 DEF Inv, Shape
  <2>4. EachOpenOnce'
    BY <2>1 DEF Inv, EachOpenOnce, Kept, SetAside
  <2> QED BY <2>2, <2>3, <2>4 DEF Inv
<1>2. ASSUME NEW c \in Client, Connect(c) PROVE Inv'
  BY <1>2, ConnectInv
<1>3. ASSUME NEW c \in Client, NEW e \in Event, Arrive(c, e) PROVE Inv'
  BY <1>3, ArriveInv
<1>4. CASE Loop
  BY <1>4, ControlInv, AcceptInv, ProcessInv, AppendBusyInv DEF Loop
<1> QED BY <1>1, <1>2, <1>3, <1>4 DEF Next

LEMMA Invariance == Spec => []Inv
<1>1. Init => Inv
  BY InitInv
<1>2. Inv /\ [Next]_vars => Inv'
  BY NextInv
<1> QED BY <1>1, <1>2, PTL DEF Spec

(* The variables of the main loop keep their types: no counter passes the *)
(* size of the arrays, so every element written lies inside them.         *)
THEOREM TypeCorrect == Spec => []TypeOK
<1>1. Inv => TypeOK
  BY DEF Inv
<1> QED BY <1>1, Invariance, PTL

(* The pass over the table, its in-place compaction and the append of the *)
(* busy connections never lose, duplicate or revive a connection.         *)
THEOREM TableCorrect == Spec => []EachOpenOnce
<1>1. Inv => EachOpenOnce
  BY DEF Inv
<1> QED BY <1>1, Invariance, PTL

---------------------------------------------------------------------------
(* Order and eviction. *)

Age(k) == idleAge[connections[k]]

IdlePart == 0 .. (idleConnCount - 1)
Pending == i .. (connCount - 1)

(* The part kept as idle and the part not reached yet are both ordered by  *)
(* descending idle age, and the first is one pass older than the second.   *)
Ordered ==
  /\ \A j, k \in IdlePart : j < k => Age(j) >= Age(k)
  /\ \A j, k \in Pending : j < k => Age(j) >= Age(k)
  /\ \A j \in IdlePart, k \in Pending : Age(j) >= Older(Age(k))
  /\ \A k \in SetAside : idleAge[busyConnections[k]] = 0

FullInv == Inv /\ PassInv /\ AtCapacityNoneIdle /\ Ordered

LEMMA InitFull == Init => FullInv
<1> SUFFICES ASSUME Init PROVE FullInv
  OBVIOUS
<1>1. PassInv /\ AtCapacityNoneIdle
  BY DEF Init, PassInv, AtCapacityNoneIdle
<1>2. Ordered
  BY DEF Init, Ordered, IdlePart, Pending, SetAside
<1> QED BY <1>1, <1>2, InitInv DEF FullInv

LEMMA QuietFull ==
  ASSUME FullInv, Inv',
         UNCHANGED <<table, open, rrs, idleAge>>,
         pc' = pc \/ (pc' # "select" /\ pc # "pass")
  PROVE  FullInv'
<1>1. Ordered'
  BY DEF FullInv, Ordered, IdlePart, Pending, SetAside, Age, table
<1>2. PassInv'
  <2>1. CASE pc = "pass"
    BY <2>1 DEF FullInv, PassInv, RoomMade, SetAside, table
  <2>2. CASE pc # "pass"
    BY <2>2 DEF FullInv, Inv, TypeOK, Shape, PassInv, RoomMade, SetAside, table
  <2> QED BY <2>1, <2>2
<1>3. AtCapacityNoneIdle'
  BY DEF FullInv, AtCapacityNoneIdle, table
<1> QED BY <1>1, <1>2, <1>3 DEF FullInv

LEMMA AcceptFull ==
  ASSUME FullInv, Accept
  PROVE  FullInv'
<1>1. Inv'
  BY AcceptInv DEF FullInv
<1>2. PassInv' /\ AtCapacityNoneIdle'
  BY DEF Accept, PassInv, AtCapacityNoneIdle
<1>3. Ordered'
  <2> DEFINE h == Head(backlog)
  <2>1. h \in Client /\ h \notin open
    BY DEF FullInv, Inv, TypeOK, Shape, Accept
  <2>2. /\ i = 0 /\ idleConnCount = 0 /\ busyConnCount = 0
        /\ i' = 0 /\ idleConnCount' = 0 /\ busyConnCount' = 0
        /\ connCount \in Nat /\ connCount' = connCount + 1 /\ connCount \in Index
        /\ connections' = [connections EXCEPT ![connCount] = h]
        /\ idleAge' = [idleAge EXCEPT ![h] = 0]
    BY DEF FullInv, Inv, TypeOK, Shape, Accept, Index
  <2> HIDE DEF h
  <2>8. \A k \in 0 .. (connCount - 1) :
          connections[k] \in open /\ connections[k] # h /\ k \in Index /\ k # connCount
    BY <2>1, <2>2 DEF FullInv, Inv, EachOpenOnce, Kept, Index
  <2>9. /\ connections \in [Index -> Client \union {NoConn}] /\ open \subseteq Client
        /\ idleAge \in [Client -> 0 .. IdleCap]
    BY DEF FullInv, Inv, TypeOK
  <2>3. \A k \in 0 .. (connCount - 1) :
          /\ connections[k] \in open /\ connections'[k] = connections[k]
          /\ connections[k] \in Client
          /\ idleAge'[connections'[k]] = idleAge[connections[k]]
    BY <2>1, <2>2, <2>8, <2>9
  <2>4. idleAge'[connections'[connCount]] = 0
    BY <2>1, <2>2, <2>9
  <2>5. \A k \in 0 .. (connCount - 1) : Age(k) \in Nat
    BY <2>3 DEF FullInv, Inv, TypeOK, Age
  <2>6. \A j, k \in Pending' : j < k => Age(j)' >= Age(k)'
    BY <2>2, <2>3, <2>4, <2>5 DEF FullInv, Ordered, Pending, Age
  <2>7. IdlePart' = {} /\ SetAside' = {}
    BY <2>2 DEF IdlePart, SetAside
  <2> QED BY <2>6, <2>7 DEF Ordered
<1> QED BY <1>1, <1>2, <1>3 DEF FullInv

(* What the outcome of a call says about the connection. *)
LEMMA OutcomeFacts ==
  ASSUME FullInv, Process
  PROVE  LET c == connections[i] IN
         /\ KeepBusy(c) => (CloseIfIdle => rrs'[c] # "RRS_IDLE")
         /\ KeepIdle(c) \/ KeepBusy(c) \/ Drop(c)
         /\ CloseIfIdle => KeepBusy(c) \/ Drop(c)
         /\ \A d \in Client : d # c => rrs'[d] = rrs[d]
         /\ call'.evicted => CloseIfIdle
         /\ call'.conn = c
<1> DEFINE c == connections[i]
<1>1. PICK o \in Outcomes(c, CloseIfIdle) :
        /\ rrs' = [rrs EXCEPT ![c] = o.after]
        /\ call' = [conn |-> c, didRead |-> o.didRead, evicted |-> o.evicted,
                    result |-> o.result]
        /\ \/ o.result = "CONN_BUSY" /\ KeepBusy(c)
           \/ o.result = "CONN_IDLE" /\ KeepIdle(c)
           \/ o.result = "CONN_TO_CLOSE" /\ Drop(c)
  BY DEF Process
<1>2. c \in Client
  BY ProcessFacts DEF FullInv
<1>3. Contract!Admissible(rrs[c], o.after, o.didRead, CloseIfIdle, o.result)
  BY <1>1 DEF Outcomes
<1>4. o.evicted => CloseIfIdle
  BY <1>1 DEF Outcomes
<1> HIDE DEF c
<1>5. rrs'[c] = o.after /\ \A d \in Client : d # c => rrs'[d] = rrs[d]
  BY <1>1, <1>2 DEF FullInv, Inv, TypeOK
<1>6. busyConnCount \in Nat /\ idleConnCount \in Nat
  BY DEF FullInv, Inv, TypeOK
<1>7. KeepBusy(c) => o.result = "CONN_BUSY"
  BY <1>1, <1>6 DEF KeepBusy, KeepIdle, Drop
<1>8. CloseIfIdle => o.result # "CONN_IDLE"
  BY <1>3 DEF Contract!Admissible
<1>9. KeepBusy(c) /\ CloseIfIdle => o.after # "RRS_IDLE"
  BY <1>3, <1>7 DEF Contract!Admissible
<1> QED BY <1>1, <1>4, <1>5, <1>8, <1>9 DEF c

LEMMA ProcessRoom ==
  ASSUME FullInv, Process
  PROVE  PassInv'
<1> DEFINE c == connections[i]
<1> SUFFICES ASSUME connCount' = MaxClients
             PROVE  \/ /\ i' = busyConnCount'
                       /\ \A k \in SetAside' : rrs'[busyConnections'[k]] # "RRS_IDLE"
                    \/ idleConnCount' + busyConnCount' < i'
  BY DEF PassInv, RoomMade
<1>1. /\ i \in Nat /\ idleConnCount \in Nat /\ busyConnCount \in Nat
      /\ idleConnCount + busyConnCount <= i
      /\ c \in Client /\ pc = "pass" /\ i' = i + 1 /\ connCount' = connCount
      /\ busyConnCount \in Index /\ i \in Kept
      /\ busyConnections \in [Index -> Client \union {NoConn}]
  BY ProcessFacts DEF FullInv, Inv, TypeOK, Shape, Kept
<1>2. /\ KeepBusy(c) => (CloseIfIdle => rrs'[c] # "RRS_IDLE")
      /\ KeepIdle(c) \/ KeepBusy(c) \/ Drop(c)
      /\ CloseIfIdle => KeepBusy(c) \/ Drop(c)
      /\ \A d \in Client : d # c => rrs'[d] = rrs[d]
  BY OutcomeFacts
<1>3. CloseIfIdle <=> i = busyConnCount
  BY <1>1 DEF CloseIfIdle
<1>4. \A k \in SetAside : busyConnections[k] # c /\ busyConnections[k] \in Client
  BY <1>1 DEF FullInv, Inv, TypeOK, EachOpenOnce
<1>5. RoomMade
  BY <1>1 DEF FullInv, PassInv
<1> HIDE DEF c
<1>6. CASE idleConnCount + busyConnCount < i
  BY <1>1, <1>2, <1>6 DEF KeepBusy, KeepIdle, Drop
<1>7. CASE Drop(c)
  BY <1>1, <1>7 DEF Drop
<1>8. CASE i = busyConnCount /\ KeepBusy(c)
  <2>1. \A k \in SetAside : rrs[busyConnections[k]] # "RRS_IDLE"
    BY <1>1, <1>5, <1>8 DEF RoomMade
  <2>2. /\ SetAside' = SetAside \union {busyConnCount} /\ i' = busyConnCount'
        /\ busyConnections' = [busyConnections EXCEPT ![busyConnCount] = c]
    BY <1>1, <1>8 DEF SetAside, KeepBusy
  <2>3. \A k \in SetAside : busyConnections'[k] = busyConnections[k]
    BY <1>1, <2>2 DEF SetAside, Index
  <2>4. busyConnections'[busyConnCount] = c
    BY <1>1, <2>2
  <2> QED BY <1>2, <1>3, <1>4, <1>8, <2>1, <2>2, <2>3, <2>4
<1> QED BY <1>1, <1>2, <1>3, <1>5, <1>6, <1>7, <1>8 DEF RoomMade

LEMMA AppendRoom ==
  ASSUME FullInv, AppendBusy
  PROVE  AtCapacityNoneIdle'
<1> SUFFICES ASSUME connCount' = MaxClients
             PROVE  \A c \in open' : rrs'[c] # "RRS_IDLE"
  BY DEF AtCapacityNoneIdle
<1>1. /\ i = connCount /\ connCount \in Nat /\ connCount <= MaxClients
      /\ connCount' = idleConnCount + busyConnCount
      /\ idleConnCount \in Nat /\ busyConnCount \in Nat
      /\ idleConnCount + busyConnCount <= i
      /\ open' = open /\ rrs' = rrs
  BY DEF FullInv, Inv, TypeOK, Shape, AppendBusy
<1>2. /\ i = busyConnCount /\ idleConnCount = 0
      /\ \A k \in SetAside : rrs[busyConnections[k]] # "RRS_IDLE"
  BY <1>1 DEF FullInv, PassInv, RoomMade, AppendBusy
<1>3. Kept = {}
  BY <1>1, <1>2 DEF Kept
<1> QED BY <1>1, <1>2, <1>3 DEF FullInv, Inv, EachOpenOnce

LEMMA ProcessOrdered ==
  ASSUME FullInv, Process
  PROVE  Ordered'
<1> DEFINE c == connections[i]
<1>1. /\ i \in Nat /\ i' = i + 1 /\ connCount \in Nat /\ connCount' = connCount /\ i < connCount
      /\ connCount <= MaxClients
      /\ c = connections[i] /\ c \in Client /\ i \in Index
      /\ idleConnCount \in Nat /\ busyConnCount \in Nat
      /\ idleConnCount \in Index /\ busyConnCount \in Index
      /\ idleConnCount <= i /\ busyConnCount <= i
      /\ KeepBusy(c) \/ KeepIdle(c) \/ Drop(c)
  <2>1. connCount \in Nat /\ connCount <= MaxClients /\ i \in Nat
        /\ idleConnCount \in Nat /\ busyConnCount \in Nat
    BY DEF FullInv, Inv, TypeOK
  <2> QED BY <2>1, ProcessFacts DEF FullInv
<1>2. /\ connections \in [Index -> Client \union {NoConn}] /\ open \subseteq Client
      /\ busyConnections \in [Index -> Client \union {NoConn}]
      /\ idleAge \in [Client -> 0 .. IdleCap]
  BY DEF FullInv, Inv, TypeOK
<1>3. /\ IdlePart \subseteq Kept /\ Pending \subseteq Kept /\ Kept \subseteq Index
      /\ SetAside \subseteq Index
      /\ Pending' = Pending \ {i} /\ i \in Pending /\ i \notin IdlePart
      /\ \A k \in Pending : k >= i /\ (k # i => k > i /\ k # idleConnCount)
      /\ \A k \in IdlePart : k < idleConnCount
  BY <1>1 DEF IdlePart, Pending, Kept, SetAside, Index
<1>4. \A k \in Kept : /\ connections[k] \in Client /\ idleAge[connections[k]] \in Nat
                      /\ k # i => connections[k] # c
  BY <1>1, <1>2, <1>3 DEF FullInv, Inv, EachOpenOnce
<1>5. \A k \in SetAside : busyConnections[k] \in Client /\ busyConnections[k] # c
  BY <1>1, <1>2, <1>3 DEF FullInv, Inv, EachOpenOnce
<1>6. /\ \A j, k \in IdlePart : j < k => idleAge[connections[j]] >= idleAge[connections[k]]
      /\ \A j, k \in Pending : j < k => idleAge[connections[j]] >= idleAge[connections[k]]
      /\ \A j \in IdlePart, k \in Pending :
           idleAge[connections[j]] >= Older(idleAge[connections[k]])
      /\ \A k \in SetAside : idleAge[busyConnections[k]] = 0
  BY DEF FullInv, Ordered, Age
<1>7. SUFFICES
        /\ \A j, k \in IdlePart' : j < k => idleAge'[connections'[j]] >= idleAge'[connections'[k]]
        /\ \A j, k \in Pending' : j < k => idleAge'[connections'[j]] >= idleAge'[connections'[k]]
        /\ \A j \in IdlePart', k \in Pending' :
             idleAge'[connections'[j]] >= Older(idleAge'[connections'[k]])
        /\ \A k \in SetAside' : idleAge'[busyConnections'[k]] = 0
  BY DEF Ordered, Age, Older
<1> HIDE DEF c
<1>8. CASE Drop(c)
  <2>1. /\ IdlePart' = IdlePart /\ SetAside' = SetAside /\ idleAge' = idleAge
        /\ connections' = connections /\ busyConnections' = busyConnections
    BY <1>8 DEF Drop, IdlePart, SetAside
  <2> QED BY <1>3, <1>6, <2>1
<1>9. CASE KeepBusy(c)
  <2>1. /\ IdlePart' = IdlePart /\ SetAside' = SetAside \union {busyConnCount}
        /\ connections' = connections
        /\ busyConnections' = [busyConnections EXCEPT ![busyConnCount] = c]
        /\ idleAge' = [idleAge EXCEPT ![c] = 0]
        /\ busyConnCount \notin SetAside
    BY <1>1, <1>9 DEF KeepBusy, IdlePart, SetAside
  <2>2. \A k \in Kept : k # i => idleAge'[connections'[k]] = idleAge[connections[k]]
    BY <1>2, <1>4, <2>1
  <2>3. \A k \in SetAside' : idleAge'[busyConnections'[k]] = 0
    BY <1>1, <1>2, <1>3, <1>5, <1>6, <2>1
  <2> QED BY <1>3, <1>6, <2>1, <2>2, <2>3
<1>10. CASE KeepIdle(c)
  <2>1. /\ IdlePart' = IdlePart \union {idleConnCount} /\ SetAside' = SetAside
        /\ connections' = [connections EXCEPT ![idleConnCount] = c]
        /\ busyConnections' = busyConnections
        /\ idleAge' = [idleAge EXCEPT ![c] = Older(@)]
    BY <1>1, <1>10 DEF KeepIdle, IdlePart, SetAside
  <2>2. \A k \in Kept : k # i /\ k # idleConnCount =>
          idleAge'[connections'[k]] = idleAge[connections[k]]
    BY <1>1, <1>2, <1>4, <2>1
  <2>3. idleAge'[connections'[idleConnCount]] = Older(idleAge[connections[i]])
    BY <1>1, <1>2, <2>1
  <2>4. \A k \in SetAside : idleAge'[busyConnections'[k]] = 0
    BY <1>2, <1>5, <1>6, <2>1
  <2>6. \A k \in Pending' : Older(idleAge[connections[i]]) >= Older(idleAge[connections[k]])
    <3> SUFFICES ASSUME NEW k \in Pending'
                 PROVE  Older(idleAge[connections[i]]) >= Older(idleAge[connections[k]])
      OBVIOUS
    <3>1. k \in Pending /\ i < k /\ k \in Kept /\ i \in Kept
      BY <1>1, <1>3
    <3>2. idleAge[connections[i]] >= idleAge[connections[k]]
      BY <1>3, <1>6, <3>1
    <3>3. idleAge[connections[i]] \in Nat /\ idleAge[connections[k]] \in Nat
      BY <1>4, <3>1
    <3> DEFINE m == idleAge[connections[i]]
               n == idleAge[connections[k]]
    <3>4. m \in Nat /\ n \in Nat /\ m >= n
      BY <3>2, <3>3
    <3> HIDE DEF m, n
    <3>5. Older(m) >= Older(n)
      BY <3>4 DEF Older
    <3> QED BY <3>5 DEF m, n
  <2>7. \A j \in IdlePart : /\ j # i /\ j # idleConnCount
                            /\ idleAge[connections[j]] >= Older(idleAge[connections[i]])
    BY <1>1, <1>3, <1>6
  <2>8. \A j, k \in IdlePart' : j < k => idleAge'[connections'[j]] >= idleAge'[connections'[k]]
    <3> SUFFICES ASSUME NEW j \in IdlePart', NEW k \in IdlePart', j < k
                 PROVE  idleAge'[connections'[j]] >= idleAge'[connections'[k]]
      OBVIOUS
    <3>1. j \in IdlePart /\ j \in Kept /\ j # i /\ j # idleConnCount
      BY <1>1, <1>3, <2>1, <2>7 DEF IdlePart
    <3>2. idleAge'[connections'[j]] = idleAge[connections[j]]
      BY <2>2, <3>1
    <3>3. CASE k \in IdlePart
      <4>1. idleAge'[connections'[k]] = idleAge[connections[k]]
        BY <1>3, <2>2, <2>7, <3>3
      <4> QED BY <1>6, <3>1, <3>2, <3>3, <4>1
    <3>4. CASE k = idleConnCount
      BY <2>3, <2>7, <3>1, <3>2, <3>4
    <3> QED BY <2>1, <3>3, <3>4
  <2>9. \A j, k \in Pending' : j < k => idleAge'[connections'[j]] >= idleAge'[connections'[k]]
    BY <1>3, <1>6, <2>2
  <2>10. \A j \in IdlePart', k \in Pending' :
           idleAge'[connections'[j]] >= Older(idleAge'[connections'[k]])
    BY <1>3, <1>6, <2>1, <2>2, <2>3, <2>6, <2>7
  <2> QED BY <2>1, <2>4, <2>8, <2>9, <2>10
<1> QED BY <1>1, <1>8, <1>9, <1>10

LEMMA AppendOrdered ==
  ASSUME FullInv, AppendBusy
  PROVE  Ordered'
<1>1. /\ i = connCount /\ connCount' = idleConnCount + busyConnCount
      /\ i' = 0 /\ idleConnCount' = 0 /\ busyConnCount' = 0
      /\ idleConnCount \in Nat /\ busyConnCount \in Nat /\ connCount \in Nat
      /\ idleConnCount + busyConnCount <= MaxClients
      /\ connections' = Appended /\ idleAge' = idleAge
  BY DEF FullInv, Inv, TypeOK, Shape, AppendBusy
<1>2. IdlePart' = {} /\ SetAside' = {} /\ Pending' = 0 .. (idleConnCount + busyConnCount - 1)
  BY <1>1 DEF IdlePart, SetAside, Pending
<1>3. /\ \A k \in IdlePart : connections'[k] = connections[k]
      /\ \A k \in Pending' \ IdlePart : /\ k - idleConnCount \in SetAside
                                        /\ connections'[k] = busyConnections[k - idleConnCount]
  BY <1>1, <1>2 DEF Appended, Index, IdlePart, SetAside
<1>4. \A k \in Pending' \ IdlePart : idleAge'[connections'[k]] = 0
  BY <1>1, <1>3 DEF FullInv, Ordered
<1>5. \A k \in IdlePart : idleAge'[connections'[k]] = idleAge[connections[k]]
                         /\ idleAge[connections[k]] \in Nat
  <2>1. \A k \in IdlePart : connections[k] \in Client
    BY DEF FullInv, Inv, TypeOK, EachOpenOnce, Kept, IdlePart
  <2> QED BY <1>1, <1>3, <2>1 DEF FullInv, Inv, TypeOK
<1>6. \A j, k \in Pending' : j < k => idleAge'[connections'[j]] >= idleAge'[connections'[k]]
  <2> SUFFICES ASSUME NEW j \in Pending', NEW k \in Pending', j < k
               PROVE  idleAge'[connections'[j]] >= idleAge'[connections'[k]]
    OBVIOUS
  <2>1. CASE k \in IdlePart
    <3>1. j \in IdlePart
      BY <1>1, <1>2, <2>1 DEF IdlePart
    <3> QED BY <1>5, <2>1, <3>1 DEF FullInv, Ordered, Age
  <2>2. CASE k \notin IdlePart
    BY <1>4, <1>5, <2>2
  <2> QED BY <2>1, <2>2
<1> QED BY <1>2, <1>6 DEF Ordered, Age

LEMMA NextFull ==
  ASSUME FullInv, [Next]_vars
  PROVE  FullInv'
<1>1. Inv'
  BY NextInv DEF FullInv
<1>2. CASE UNCHANGED vars
  BY <1>1, <1>2, QuietFull DEF vars
<1>3. ASSUME NEW c \in Client, Connect(c) PROVE FullInv'
  BY <1>1, <1>3, QuietFull DEF Connect
<1>4. ASSUME NEW c \in Client, NEW e \in Event, Arrive(c, e) PROVE FullInv'
  BY <1>1, <1>4, QuietFull DEF Arrive
<1>5. CASE Select \/ AcceptDone \/ AcceptError
  BY <1>1, <1>5, QuietFull DEF Select, AcceptDone, AcceptError, BeginPass
<1>6. CASE Accept
  BY <1>6, AcceptFull
<1>7. CASE Process
  <2>1. AtCapacityNoneIdle'
    BY <1>7 DEF Process, AtCapacityNoneIdle
  <2> QED BY <1>1, <1>7, <2>1, ProcessRoom, ProcessOrdered DEF FullInv
<1>8. CASE AppendBusy
  <2>1. PassInv'
    BY <1>8 DEF AppendBusy, PassInv
  <2> QED BY <1>1, <1>8, <2>1, AppendRoom, AppendOrdered DEF FullInv
<1> QED BY <1>2, <1>3, <1>4, <1>5, <1>6, <1>7, <1>8 DEF Next, Loop

LEMMA FullInvariance == Spec => []FullInv
<1>1. Init => FullInv
  BY InitFull
<1>2. FullInv /\ [Next]_vars => FullInv'
  BY NextFull
<1> QED BY <1>1, <1>2, PTL DEF Spec

(* A full table holds no idle connection when the server waits: whatever the *)
(* order of events, the pass made room if it could.                        *)
THEOREM RoomIsMade == Spec => []AtCapacityNoneIdle
<1>1. FullInv => AtCapacityNoneIdle
  BY DEF FullInv
<1> QED BY <1>1, FullInvariance, PTL

(* The table is ordered by descending idle time when the server waits. *)
THEOREM TableOrdered == Spec => []OrderedByIdleAge
<1>1. FullInv => OrderedByIdleAge
  BY DEF FullInv, Inv, TypeOK, Shape, OrderedByIdleAge, Ordered, Pending, Age
<1> QED BY <1>1, FullInvariance, PTL

(* Eviction never takes a connection when another one, not in the middle of *)
(* a request, has been idle for longer.                                    *)
THEOREM EvictionFair == Spec => EvictsMostIdle
<1> DEFINE A == call'.evicted =>
                  \A d \in open \ {call'.conn} :
                    rrs[d] # "RRS_IDLE" \/ idleAge[d] <= idleAge[call'.conn]
<1>1. FullInv /\ [Next]_vars => [A]_call
  <2> SUFFICES ASSUME FullInv, [Next]_vars, call' # call, call'.evicted,
                      NEW d \in open \ {call'.conn}
               PROVE  rrs[d] # "RRS_IDLE" \/ idleAge[d] <= idleAge[call'.conn]
    OBVIOUS
  <2>1. CASE AppendBusy
    BY <2>1 DEF AppendBusy, NoCall
  <2>2. CASE Process
    <3>1. /\ CloseIfIdle /\ call'.conn = connections[i]
      BY <2>2, OutcomeFacts
    <3>2. /\ i = busyConnCount /\ connCount = MaxClients /\ pc = "pass"
          /\ i \in Nat /\ connCount \in Nat /\ i < connCount
          /\ idleConnCount \in Nat /\ idleConnCount + busyConnCount <= i
      BY <2>2, <3>1 DEF CloseIfIdle, Process, FullInv, Inv, TypeOK, Shape
    <3>3. \A k \in SetAside : rrs[busyConnections[k]] # "RRS_IDLE"
      BY <3>2 DEF FullInv, PassInv, RoomMade
    <3>4. Kept = Pending
      BY <3>2 DEF Kept, Pending
    <3>5. CASE \E k \in Kept : connections[k] = d
      <4>1. PICK k \in Pending : connections[k] = d
        BY <3>4, <3>5
      <4>2. k # i /\ i < k /\ i \in Pending
        BY <3>1, <3>2, <4>1 DEF Pending
      <4> QED BY <3>1, <4>1, <4>2 DEF FullInv, Ordered, Age
    <3> QED BY <3>3, <3>5 DEF FullInv, Inv, EachOpenOnce
  <2>3. CASE ~Process /\ ~AppendBusy
    BY <2>3 DEF Next, Loop, Connect, Arrive, Select, Accept, AcceptDone, AcceptError,
                BeginPass, vars
  <2> QED BY <2>1, <2>2, <2>3
<1> QED BY <1>1, FullInvariance, PTL DEF Spec, EvictsMostIdle
===========================================================================
