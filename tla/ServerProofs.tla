---------------------------- MODULE ServerProofs ----------------------------
(***************************************************************************)
(* The safety of the server for any number of clients and queries: its     *)
(* answers stay in step with the clients' queries, and when it has stopped *)
(* no thread and no connection is left.                                    *)
(***************************************************************************)
EXTENDS Server, SequenceTheorems, TLAPS

\* The queries and answers are numbers.
MessagesType ==
    /\ query \in [Clients -> Nat] /\ asked \in [Clients -> Nat]
    /\ reply \in [Clients -> Nat]
    /\ to_server \in [Clients -> Seq(Nat)] /\ to_client \in [Clients -> Seq(Nat)]

Queued(c) == \E i \in DOMAIN backlog : backlog[i] = c
Serving(c) == worker[c] \notin {"none", "done"}

\* A connection waits in the backlog, once, or has a thread, or is closed.
Connections ==
    /\ \A i, j \in DOMAIN backlog : backlog[i] = backlog[j] => i = j
    /\ \A c \in Clients :
          /\ Queued(c) => /\ worker[c] = "none" /\ server_end[c] = "open"
                          /\ client[c] # "off"
          /\ server_end[c] = "open" => Queued(c) \/ Serving(c)
          /\ client[c] = "off" => worker[c] = "none" /\ server_end[c] = "closed"

\* A server that is to stop does not listen, and one that has stopped serves
\* nobody.
Control ==
    /\ g_running = listening
    /\ ~listening => backlog = <<>>
    /\ main \in {"join", "stopped"} => ~g_running
    /\ main = "stopped" => \A c \in Clients : ~Serving(c)

\* The last query of a client that waits is in one place: unread, being
\* executed, answered, or it was lost with the connection.  A client that
\* does not wait has none.
Exchange(c) ==
    /\ client[c] \in {"off", "ready"} =>
          /\ reply[c] = asked[c] /\ to_client[c] = <<>> /\ to_server[c] = <<>>
          /\ worker[c] # "query"
    /\ client[c] = "waiting" =>
          \/ to_server[c] = <<asked[c]>> /\ to_client[c] = <<>> /\ worker[c] # "query"
          \/ /\ to_server[c] = <<>> /\ to_client[c] = <<>>
             /\ worker[c] = "query" => query[c] = asked[c]
          \/ to_server[c] = <<>> /\ to_client[c] = <<asked[c]>> /\ worker[c] # "query"

\* The inductive invariant.
IInv ==
    /\ TypeOK
    /\ MessagesType
    /\ Connections
    /\ Control
    /\ \A c \in Clients : Exchange(c)

-----------------------------------------------------------------------------
\* The invariant holds when the process starts.
LEMMA InitInv == Init => IInv
<1> SUFFICES ASSUME Init PROVE IInv
  OBVIOUS
<1>1. TypeOK
  BY DEF Init, TypeOK, MainStates, WorkerStates, ClientStates
<1>2. MessagesType
  BY DEF Init, MessagesType
<1>3. Connections /\ Control
  BY DEF Init, Connections, Control, Queued, Serving
<1>4. \A c \in Clients : Exchange(c)
  BY DEF Init, Exchange
<1> QED
  BY <1>1, <1>2, <1>3, <1>4 DEF IInv

\* The accepted connection leaves the backlog, and only it.
LEMMA AcceptedConnection ==
    ASSUME TypeOK, Connections, backlog # <<>>
    PROVE  /\ Head(backlog) \in Clients /\ Queued(Head(backlog))
           /\ Tail(backlog) \in Seq(Clients)
           /\ \A i, j \in DOMAIN Tail(backlog) : Tail(backlog)[i] = Tail(backlog)[j] => i = j
           /\ \A c \in Clients : (\E i \in DOMAIN Tail(backlog) : Tail(backlog)[i] = c)
                                    <=> Queued(c) /\ c # Head(backlog)
<1> DEFINE t == Tail(backlog)
<1>1. /\ backlog \in Seq(Clients) /\ Len(backlog) \in Nat /\ Len(backlog) > 0
      /\ DOMAIN backlog = 1 .. Len(backlog)
  BY EmptySeq, LenProperties DEF TypeOK
<1>2. /\ Head(backlog) = backlog[1] /\ Head(backlog) \in Clients
      /\ t \in Seq(Clients) /\ Len(t) = Len(backlog) - 1 /\ DOMAIN t = 1 .. Len(t)
      /\ \A i \in 1 .. Len(t) : t[i] = backlog[i + 1]
  BY <1>1, HeadTailProperties, LenProperties
<1> HIDE DEF t
<1>3. \A i, j \in DOMAIN t : t[i] = t[j] => i = j
  <2> SUFFICES ASSUME NEW i \in DOMAIN t, NEW j \in DOMAIN t, t[i] = t[j]
               PROVE  i = j
    OBVIOUS
  <2>1. /\ i + 1 \in DOMAIN backlog /\ j + 1 \in DOMAIN backlog
        /\ backlog[i + 1] = backlog[j + 1]
    BY <1>1, <1>2
  <2>2. i + 1 = j + 1
    BY <2>1 DEF Connections
  <2> QED
    BY <2>2, <1>2
<1>4. ASSUME NEW c \in Clients
      PROVE  (\E i \in DOMAIN t : t[i] = c) <=> Queued(c) /\ c # Head(backlog)
  <2>1. ASSUME NEW i \in DOMAIN t, t[i] = c
        PROVE  Queued(c) /\ c # Head(backlog)
    <3>1. i + 1 \in DOMAIN backlog /\ 1 \in DOMAIN backlog /\ backlog[i + 1] = c /\ i + 1 # 1
      BY <2>1, <1>1, <1>2
    <3> QED
      BY <3>1, <1>2 DEF Connections, Queued
  <2>2. ASSUME NEW i \in DOMAIN backlog, backlog[i] = c, c # Head(backlog)
        PROVE  \E j \in DOMAIN t : t[j] = c
    <3>1. i - 1 \in DOMAIN t /\ t[i - 1] = c
      BY <2>2, <1>1, <1>2
    <3> QED
      BY <3>1
  <2> QED
    BY <2>1, <2>2 DEF Queued
<1>5. Queued(Head(backlog))
  BY <1>1, <1>2 DEF Queued
<1> QED
  BY <1>2, <1>3, <1>4, <1>5 DEF t

\* A new connection joins the backlog.
LEMMA NewConnection ==
    ASSUME TypeOK, Connections, NEW c \in Clients, ~Queued(c)
    PROVE  /\ Append(backlog, c) \in Seq(Clients)
           /\ \A i, j \in DOMAIN Append(backlog, c) :
                 Append(backlog, c)[i] = Append(backlog, c)[j] => i = j
           /\ \A d \in Clients : (\E i \in DOMAIN Append(backlog, c) : Append(backlog, c)[i] = d)
                                    <=> Queued(d) \/ d = c
<1> DEFINE b == Append(backlog, c)
<1>1. /\ backlog \in Seq(Clients) /\ Len(backlog) \in Nat
      /\ DOMAIN backlog = 1 .. Len(backlog)
  BY LenProperties DEF TypeOK
<1>2. /\ b \in Seq(Clients) /\ DOMAIN b = 1 .. Len(backlog) + 1
      /\ \A i \in 1 .. Len(backlog) : b[i] = backlog[i]
      /\ b[Len(backlog) + 1] = c
  BY <1>1, AppendProperties, LenProperties
<1> HIDE DEF b
<1>3. \A i \in DOMAIN b : i = Len(backlog) + 1 \/ i \in DOMAIN backlog
  BY <1>1, <1>2
<1>4. \A i, j \in DOMAIN b : b[i] = b[j] => i = j
  BY <1>1, <1>2, <1>3 DEF Connections, Queued
<1>5. \A d \in Clients : (\E i \in DOMAIN b : b[i] = d) <=> Queued(d) \/ d = c
  <2>1. Len(backlog) + 1 \in DOMAIN b /\ DOMAIN backlog \subseteq DOMAIN b
    BY <1>1, <1>2
  <2> QED
    BY <2>1, <1>1, <1>2, <1>3 DEF Queued
<1> QED
  BY <1>2, <1>4, <1>5 DEF b

-----------------------------------------------------------------------------
(* The steps of the main thread. *)

\* The signal handler clears g_running and closes the listening socket.
LEMMA SignalStep ==
    ASSUME IInv, Signal
    PROVE  IInv'
<1> USE DEF IInv
<1>1. /\ g_running' = FALSE /\ listening' = FALSE /\ backlog' = <<>>
      /\ server_end' = [c \in Clients |-> IF Queued(c) THEN "closed" ELSE server_end[c]]
      /\ UNCHANGED <<main, worker, query, client, asked, reply, to_server, to_client>>
  BY DEF Signal, Queued
<1>2. TypeOK'
  <2>1. server_end' \in [Clients -> {"open", "closed"}]
    BY <1>1 DEF TypeOK
  <2>2. \A c \in Clients : Serving(c) => server_end'[c] = "open"
    BY <1>1 DEF TypeOK, Connections, Serving
  <2>3. backlog' \in Seq(Clients)
    BY <1>1
  <2> QED
    BY <1>1, <2>1, <2>2, <2>3 DEF TypeOK, Serving
<1>3. MessagesType'
  BY <1>1 DEF MessagesType
<1>4. \A c \in Clients : ~Queued(c)'
  BY <1>1 DEF Queued
<1>5. Connections'
  <2>1. DOMAIN backlog' = {}
    BY <1>1
  <2>2. \A c \in Clients : Serving(c)' <=> Serving(c)
    BY <1>1 DEF Serving
  <2>3. \A c \in Clients : server_end'[c] = IF Queued(c) THEN "closed" ELSE server_end[c]
    BY <1>1
  <2> QED
    BY <1>1, <1>4, <2>1, <2>2, <2>3 DEF Connections
<1>6. Control'
  BY <1>1 DEF Control, Signal, Serving
<1>7. \A c \in Clients : Exchange(c)'
  BY <1>1 DEF Exchange
<1> QED
  BY <1>2, <1>3, <1>5, <1>6, <1>7

\* The main thread looks at g_running, fails to accept, or joins the threads.
LEMMA MainCheckStep ==
    ASSUME IInv, MainCheck \/ AcceptFails \/ Join
    PROVE  IInv'
<1> USE DEF IInv
<1>1. UNCHANGED <<g_running, listening, backlog, worker, query, client, asked, reply,
                  to_server, to_client, server_end>>
  BY DEF MainCheck, AcceptFails, Join
<1>2. /\ main' \in MainStates
      /\ main' \in {"join", "stopped"} => ~g_running
      /\ main' = "stopped" => \A c \in Clients : ~Serving(c)
  BY DEF MainCheck, AcceptFails, Join, MainStates, Control, Serving
<1>3. TypeOK' /\ MessagesType'
  BY <1>1, <1>2 DEF TypeOK, MessagesType
<1>4. Connections'
  BY <1>1 DEF Connections, Queued, Serving
<1>5. Control'
  BY <1>1, <1>2 DEF Control, Serving
<1>6. \A c \in Clients : Exchange(c)'
  BY <1>1 DEF Exchange
<1> QED
  BY <1>3, <1>4, <1>5, <1>6

\* The main thread accepts a connection and starts its thread.
LEMMA AcceptStep ==
    ASSUME IInv, Accept
    PROVE  IInv'
<1> USE DEF IInv
<1> DEFINE new == Head(backlog)
<1>1. /\ main = "accept" /\ main' = "check" /\ backlog # <<>>
      /\ worker' = [worker EXCEPT ![new] = "check"]
      /\ backlog' = Tail(backlog)
      /\ UNCHANGED <<g_running, listening, query, client, asked, reply, to_server,
                     to_client, server_end>>
  BY DEF Accept
<1>2. /\ new \in Clients /\ Queued(new) /\ backlog' \in Seq(Clients)
      /\ \A i, j \in DOMAIN backlog' : backlog'[i] = backlog'[j] => i = j
      /\ \A c \in Clients : Queued(c)' <=> Queued(c) /\ c # new
  BY <1>1, AcceptedConnection DEF Queued
<1>3. worker[new] = "none" /\ server_end[new] = "open" /\ client[new] # "off"
  BY <1>2 DEF Connections
<1> HIDE DEF new
<1>4. /\ worker'[new] = "check"
      /\ \A c \in Clients : c # new => worker'[c] = worker[c]
  BY <1>1, <1>2 DEF TypeOK
<1>5. TypeOK'
  BY <1>1, <1>2, <1>3, <1>4 DEF TypeOK, MainStates, WorkerStates
<1>6. MessagesType'
  BY <1>1 DEF MessagesType
<1>7. Connections'
  BY <1>1, <1>2, <1>3, <1>4 DEF Connections, Serving
<1>8. Control'
  <2>1. listening
    BY <1>1 DEF Control
  <2> QED
    BY <2>1, <1>1 DEF Control
<1>9. \A c \in Clients : Exchange(c)'
  BY <1>1, <1>3, <1>4 DEF Exchange
<1> QED
  BY <1>5, <1>6, <1>7, <1>8, <1>9

-----------------------------------------------------------------------------
(* The steps of the thread of client c. *)

\* A step that leaves the sockets alone and keeps the thread serving.
LEMMA ServingStep ==
    ASSUME IInv, NEW c \in Clients, NEW w \in WorkerStates \ {"none", "done"},
           Serving(c), worker' = [worker EXCEPT ![c] = w],
           UNCHANGED <<g_running, listening, backlog, main, client, server_end>>,
           MessagesType', Exchange(c)',
           \A d \in Clients \ {c} :
              UNCHANGED <<query[d], asked[d], reply[d], to_server[d], to_client[d]>>
    PROVE  IInv'
<1> USE DEF IInv
<1>1. /\ worker'[c] = w /\ Serving(c)'
      /\ \A d \in Clients \ {c} : worker'[d] = worker[d]
  BY DEF TypeOK, Serving
<1>2. TypeOK'
  BY <1>1 DEF TypeOK, Serving
<1>3. \A d \in Clients : (Queued(d)' <=> Queued(d)) /\ (Serving(d)' <=> Serving(d))
  BY <1>1 DEF Queued, Serving
<1>4. Connections'
  BY <1>1, <1>3 DEF Connections, Serving
<1>5. Control'
  BY <1>3 DEF Control
<1>6. \A d \in Clients : Exchange(d)'
  BY <1>1 DEF Exchange
<1> QED
  BY <1>2, <1>4, <1>5, <1>6

\* A step of HandleClient.
LEMMA WorkerStepStep ==
    ASSUME IInv, NEW c \in Clients, WorkerStep(c)
    PROVE  IInv'
<1> USE DEF IInv
<1>1. CASE WorkerCheck(c) \/ WorkerEnd(c)
  <2>1. PICK w \in {"recv", "close"} : worker' = [worker EXCEPT ![c] = w]
    BY <1>1 DEF WorkerCheck, WorkerEnd
  <2>2. /\ Serving(c) /\ worker[c] # "query" /\ worker'[c] = w
        /\ UNCHANGED <<g_running, listening, backlog, main, query, client, asked, reply,
                       to_server, to_client, server_end>>
    BY <1>1, <2>1 DEF WorkerCheck, WorkerEnd, Serving, TypeOK
  <2>3. Exchange(c)'
    BY <2>2 DEF Exchange
  <2>4. MessagesType'
    BY <2>2 DEF MessagesType
  <2> QED
    BY <2>1, <2>2, <2>3, <2>4, ServingStep DEF WorkerStates
<1>2. CASE WorkerRecv(c)
  <2> DEFINE m == Head(to_server[c])
             w == IF m = TERMINATE THEN "close" ELSE "query"
  <2>1. /\ worker[c] = "recv" /\ to_server[c] # <<>>
        /\ worker' = [worker EXCEPT ![c] = w]
        /\ query' = [query EXCEPT ![c] = m]
        /\ to_server' = [to_server EXCEPT ![c] = Tail(to_server[c])]
        /\ UNCHANGED <<g_running, listening, backlog, main, client, asked, reply, to_client,
                       server_end>>
    BY <1>2 DEF WorkerRecv
  <2>2. to_server[c] \in Seq(Nat) /\ m \in Nat /\ Tail(to_server[c]) \in Seq(Nat)
    BY <2>1, HeadTailProperties DEF MessagesType
  <2>3. MessagesType'
    BY <2>1, <2>2 DEF MessagesType
  <2>4. /\ worker'[c] = w /\ query'[c] = m /\ to_server'[c] = Tail(to_server[c])
        /\ Serving(c) /\ w \in WorkerStates \ {"none", "done"}
    BY <2>1 DEF TypeOK, MessagesType, Serving, WorkerStates
  <2>5. Exchange(c)'
    <3>1. CASE client[c] = "gone"
      BY <3>1, <2>1 DEF Exchange
    <3>2. CASE client[c] = "waiting"
      <4>1. to_server[c] = <<asked[c]>> /\ to_client[c] = <<>>
        BY <3>2, <2>1 DEF Exchange
      <4>2. m = asked[c] /\ Tail(to_server[c]) = <<>>
        BY <4>1
      <4> QED
        BY <3>2, <4>1, <4>2, <2>1, <2>4 DEF Exchange
    <3> QED
      BY <3>1, <3>2, <2>1 DEF Exchange, TypeOK, ClientStates
  <2>6. \A d \in Clients \ {c} :
           UNCHANGED <<query[d], asked[d], reply[d], to_server[d], to_client[d]>>
    BY <2>1 DEF MessagesType
  <2> HIDE DEF w
  <2> QED
    BY <2>1, <2>3, <2>4, <2>5, <2>6, ServingStep
<1>3. CASE HandleQuery(c)
  <2> DEFINE out == IF client[c] = "gone" THEN to_client[c] ELSE Append(to_client[c], query[c])
  <2>1. /\ worker[c] = "query" /\ worker' = [worker EXCEPT ![c] = "check"]
        /\ to_client' = [to_client EXCEPT ![c] = out]
        /\ UNCHANGED <<g_running, listening, backlog, main, query, client, asked, reply,
                       to_server, server_end>>
    BY <1>3 DEF HandleQuery
  <2>2. out \in Seq(Nat)
    BY AppendProperties DEF MessagesType
  <2>3. MessagesType'
    BY <2>1, <2>2 DEF MessagesType
  <2>4. worker'[c] = "check" /\ to_client'[c] = out /\ Serving(c)
    BY <2>1 DEF TypeOK, MessagesType, Serving
  <2>5. Exchange(c)'
    <3>1. CASE client[c] = "waiting"
      <4>1. to_server[c] = <<>> /\ to_client[c] = <<>> /\ query[c] = asked[c]
        BY <3>1, <2>1 DEF Exchange
      <4>2. out = <<asked[c]>>
        BY <3>1, <4>1
      <4> QED
        BY <3>1, <4>1, <4>2, <2>1, <2>4 DEF Exchange
    <3> QED
      BY <3>1, <2>1 DEF Exchange, TypeOK, ClientStates
  <2>6. \A d \in Clients \ {c} :
           UNCHANGED <<query[d], asked[d], reply[d], to_server[d], to_client[d]>>
    BY <2>1 DEF MessagesType
  <2> QED
    BY <2>1, <2>3, <2>4, <2>5, <2>6, ServingStep DEF WorkerStates
<1>4. CASE WorkerClose(c)
  <2>1. /\ worker[c] = "close" /\ worker' = [worker EXCEPT ![c] = "done"]
        /\ server_end' = [server_end EXCEPT ![c] = "closed"]
        /\ UNCHANGED <<g_running, listening, backlog, main, query, client, asked, reply,
                       to_server, to_client>>
    BY <1>4 DEF WorkerClose
  <2>2. /\ worker'[c] = "done" /\ server_end'[c] = "closed"
        /\ \A d \in Clients \ {c} : worker'[d] = worker[d] /\ server_end'[d] = server_end[d]
    BY <2>1 DEF TypeOK
  <2>3. TypeOK' /\ MessagesType'
    BY <2>1, <2>2 DEF TypeOK, MessagesType, WorkerStates
  <2>4. \A d \in Clients : Queued(d)' <=> Queued(d)
    BY <2>1 DEF Queued
  <2>5. Connections'
    BY <2>1, <2>2, <2>4 DEF Connections, Serving
  <2>6. Control'
    BY <2>1, <2>2 DEF Control, Serving
  <2>7. \A d \in Clients : Exchange(d)'
    BY <2>1, <2>2 DEF Exchange
  <2> QED
    BY <2>3, <2>5, <2>6, <2>7
<1> QED
  BY <1>1, <1>2, <1>3, <1>4 DEF WorkerStep

-----------------------------------------------------------------------------
(* The steps of client c. *)

\* A client connects.
LEMMA ConnectStep ==
    ASSUME IInv, NEW c \in Clients, Connect(c)
    PROVE  IInv'
<1> USE DEF IInv
<1>1. /\ client[c] = "off" /\ listening
      /\ client' = [client EXCEPT ![c] = "ready"]
      /\ backlog' = Append(backlog, c)
      /\ server_end' = [server_end EXCEPT ![c] = "open"]
      /\ UNCHANGED <<g_running, listening, main, worker, query, asked, reply, to_server,
                     to_client>>
  BY DEF Connect
<1>2. worker[c] = "none" /\ ~Queued(c)
  BY <1>1 DEF Connections
<1>3. /\ backlog' \in Seq(Clients)
      /\ \A i, j \in DOMAIN backlog' : backlog'[i] = backlog'[j] => i = j
      /\ \A d \in Clients : Queued(d)' <=> Queued(d) \/ d = c
  BY <1>1, <1>2, NewConnection DEF Queued
<1>4. /\ client'[c] = "ready" /\ server_end'[c] = "open"
      /\ \A d \in Clients \ {c} : client'[d] = client[d] /\ server_end'[d] = server_end[d]
  BY <1>1 DEF TypeOK
<1>5. TypeOK'
  BY <1>1, <1>3, <1>4 DEF TypeOK, ClientStates
<1>6. MessagesType'
  BY <1>1 DEF MessagesType
<1>7. Connections'
  BY <1>1, <1>2, <1>3, <1>4 DEF Connections, Serving
<1>8. Control'
  BY <1>1 DEF Control, Serving
<1>9. \A d \in Clients : Exchange(d)'
  BY <1>1, <1>4 DEF Exchange
<1> QED
  BY <1>5, <1>6, <1>7, <1>8, <1>9

\* A step of a connected client that leaves the server's state alone.
LEMMA ClientStep ==
    ASSUME IInv, NEW c \in Clients, NEW s \in ClientStates \ {"off"},
           client[c] # "off", client' = [client EXCEPT ![c] = s],
           UNCHANGED <<g_running, listening, backlog, main, worker, query, server_end>>,
           MessagesType', Exchange(c)',
           \A d \in Clients \ {c} :
              UNCHANGED <<asked[d], reply[d], to_server[d], to_client[d]>>
    PROVE  IInv'
<1> USE DEF IInv
<1>1. client'[c] = s /\ \A d \in Clients \ {c} : client'[d] = client[d]
  BY DEF TypeOK
<1>2. TypeOK'
  BY DEF TypeOK
<1>3. Connections'
  BY <1>1 DEF Connections, Queued, Serving
<1>4. Control'
  BY DEF Control, Serving
<1>5. \A d \in Clients : Exchange(d)'
  BY <1>1 DEF Exchange
<1> QED
  BY <1>2, <1>3, <1>4, <1>5

\* A client sends a query.
LEMMA AskStep ==
    ASSUME IInv, NEW c \in Clients, Ask(c)
    PROVE  IInv'
<1> USE DEF IInv
<1> DEFINE n == asked[c] + 1
           out == IF server_end[c] = "open" THEN Append(to_server[c], n) ELSE to_server[c]
<1>1. /\ client[c] = "ready"
      /\ asked' = [asked EXCEPT ![c] = n]
      /\ client' = [client EXCEPT ![c] = "waiting"]
      /\ to_server' = [to_server EXCEPT ![c] = out]
      /\ UNCHANGED <<g_running, listening, backlog, main, worker, query, reply, to_client,
                     server_end>>
  BY DEF Ask
<1>2. n \in Nat /\ out \in Seq(Nat)
  BY AppendProperties DEF MessagesType
<1>3. MessagesType'
  BY <1>1, <1>2 DEF MessagesType
<1>4. to_server[c] = <<>> /\ to_client[c] = <<>> /\ worker[c] # "query"
  BY <1>1 DEF Exchange
<1>5. out = <<n>> \/ out = <<>>
  BY <1>4
<1>6. asked'[c] = n /\ to_server'[c] = out /\ client'[c] = "waiting"
  BY <1>1 DEF MessagesType, TypeOK
<1>7. Exchange(c)'
  BY <1>1, <1>4, <1>5, <1>6 DEF Exchange
<1>8. \A d \in Clients \ {c} : UNCHANGED <<asked[d], reply[d], to_server[d], to_client[d]>>
  BY <1>1 DEF MessagesType
<1> QED
  BY <1>1, <1>3, <1>7, <1>8, ClientStep DEF ClientStates

\* A client reads its answer or learns that the connection is lost.
LEMMA ClientReadsStep ==
    ASSUME IInv, NEW c \in Clients, ClientReads(c)
    PROVE  IInv'
<1> USE DEF IInv
<1>1. CASE Answered(c)
  <2>1. /\ client[c] = "waiting" /\ to_client[c] # <<>>
        /\ client' = [client EXCEPT ![c] = "ready"]
        /\ reply' = [reply EXCEPT ![c] = Head(to_client[c])]
        /\ to_client' = [to_client EXCEPT ![c] = Tail(to_client[c])]
        /\ UNCHANGED <<g_running, listening, backlog, main, worker, query, asked, to_server,
                       server_end>>
    BY <1>1 DEF Answered
  <2>2. to_client[c] = <<asked[c]>> /\ to_server[c] = <<>> /\ worker[c] # "query"
    BY <2>1 DEF Exchange
  <2>3. Head(to_client[c]) = asked[c] /\ Tail(to_client[c]) = <<>>
    BY <2>2
  <2>4. MessagesType'
    BY <2>1, <2>3 DEF MessagesType
  <2>5. reply'[c] = asked[c] /\ to_client'[c] = <<>> /\ client'[c] = "ready"
    BY <2>1, <2>3 DEF MessagesType, TypeOK
  <2>6. Exchange(c)'
    BY <2>1, <2>2, <2>5 DEF Exchange
  <2>7. \A d \in Clients \ {c} : UNCHANGED <<asked[d], reply[d], to_server[d], to_client[d]>>
    BY <2>1 DEF MessagesType
  <2> QED
    BY <2>1, <2>4, <2>6, <2>7, ClientStep DEF ClientStates
<1>2. CASE ConnectionLost(c)
  <2>1. /\ client[c] = "waiting" /\ client' = [client EXCEPT ![c] = "gone"]
        /\ UNCHANGED <<g_running, listening, backlog, main, worker, query, asked, reply,
                       to_server, to_client, server_end>>
    BY <1>2 DEF ConnectionLost
  <2>2. MessagesType'
    BY <2>1 DEF MessagesType
  <2>3. client'[c] = "gone"
    BY <2>1 DEF TypeOK
  <2>4. Exchange(c)'
    BY <2>3 DEF Exchange
  <2> QED
    BY <2>1, <2>2, <2>4, ClientStep DEF ClientStates
<1> QED
  BY <1>1, <1>2 DEF ClientReads

\* A client quits.
LEMMA ClientLeavesStep ==
    ASSUME IInv, NEW c \in Clients, ClientLeaves(c)
    PROVE  IInv'
<1> USE DEF IInv
<1>1. PICK last \in {<<>>, <<TERMINATE>>} :
         client[c] \in {"ready", "waiting"} /\ Leave(c, last)
  BY DEF ClientLeaves, Quit, HangUp
<1> DEFINE out == IF server_end[c] = "open" THEN to_server[c] \o last ELSE to_server[c]
<1>2. /\ client' = [client EXCEPT ![c] = "gone"]
      /\ to_server' = [to_server EXCEPT ![c] = out]
      /\ UNCHANGED <<g_running, listening, backlog, main, worker, query, asked, reply,
                     to_client, server_end>>
  BY <1>1 DEF Leave
<1>3. last \in Seq(Nat)
  <2>1. <<>> \in Seq(Nat) /\ <<0>> \in Seq(Nat)
    OBVIOUS
  <2> QED
    BY <1>1, <2>1 DEF TERMINATE
<1>4. out \in Seq(Nat)
  BY <1>3, ConcatProperties DEF MessagesType
<1>5. MessagesType'
  BY <1>2, <1>4 DEF MessagesType
<1>6. client'[c] = "gone"
  BY <1>2 DEF TypeOK
<1>7. Exchange(c)'
  BY <1>6 DEF Exchange
<1>8. \A d \in Clients \ {c} : UNCHANGED <<asked[d], reply[d], to_server[d], to_client[d]>>
  BY <1>2 DEF MessagesType
<1> QED
  BY <1>1, <1>2, <1>5, <1>7, <1>8, ClientStep DEF ClientStates

-----------------------------------------------------------------------------
(* The theorems. *)

\* Every step keeps the invariant.
LEMMA NextInv == IInv /\ [Next]_vars => IInv'
<1> SUFFICES ASSUME IInv, [Next]_vars PROVE IInv'
  OBVIOUS
<1>1. CASE MainStep \/ AcceptFails
  BY <1>1, MainCheckStep, AcceptStep DEF MainStep
<1>2. CASE Signal
  BY <1>2, SignalStep
<1>3. ASSUME NEW c \in Clients,
             WorkerStep(c) \/ Connect(c) \/ Ask(c) \/ ClientReads(c) \/ ClientLeaves(c)
      PROVE  IInv'
  BY <1>3, WorkerStepStep, ConnectStep, AskStep, ClientReadsStep, ClientLeavesStep
<1>4. CASE UNCHANGED vars
  BY <1>4 DEF vars, IInv, TypeOK, MessagesType, Connections, Control, Exchange, Queued, Serving
<1> QED
  BY <1>1, <1>2, <1>3, <1>4 DEF Next

\* The inductive invariant: connections, threads and the message each client
\* waits for fit together in every interleaving, shutdown included.
THEOREM ServerInvariant == Spec => []IInv
<1> QED
  BY InitInv, NextInv, PTL DEF Spec

\* The variables have their types, and a thread runs only on a connection
\* that is open.
THEOREM TypeCorrect == Spec => []TypeOK
<1>1. IInv => TypeOK
  BY DEF IInv
<1> QED
  BY ServerInvariant, <1>1, PTL

\* A client at its prompt has the answer to its own last query, and none is
\* left over to be taken for the answer to the next.
THEOREM AnswersStayInStep == Spec => []AnswersInStep
<1>1. IInv => AnswersInStep
  BY DEF IInv, AnswersInStep, Exchange
<1> QED
  BY ServerInvariant, <1>1, PTL

\* When main() has returned, no thread uses the instance and no connection is
\* open, whichever clients were connected, queued or waiting at the signal.
THEOREM ServerStopsCleanly == Spec => []StopsCleanly
<1>1. ASSUME IInv, main = "stopped", NEW c \in Clients
      PROVE  worker[c] \in {"none", "done"} /\ server_end[c] = "closed"
  <2>1. ~Serving(c) /\ backlog = <<>>
    BY <1>1 DEF IInv, Control
  <2>2. ~Queued(c)
    BY <2>1 DEF Queued
  <2>3. server_end[c] # "open"
    BY <1>1, <2>1, <2>2 DEF IInv, Connections
  <2> QED
    BY <1>1, <2>1, <2>3 DEF IInv, TypeOK, Serving
<1>2. IInv => StopsCleanly
  BY <1>1 DEF StopsCleanly
<1> QED
  BY ServerInvariant, <1>2, PTL
=============================================================================
