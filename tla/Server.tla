------------------------------- MODULE Server -------------------------------
(***************************************************************************)
(* The server of src/src/onebase_server/server_main.cpp, one thread per    *)
(* client, with the clients of client_main.cpp and the messages of         *)
(* protocol.h.  Executing a statement is one step here; a message is a     *)
(* query with its number, or TERMINATE.                                    *)
(***************************************************************************)
EXTENDS Integers, Sequences, FiniteSets

CONSTANTS
    Clients,           \* each connects once
    MaxQueries         \* bound: the queries a client sends

ASSUME ClientsAssumption == IsFiniteSet(Clients)
ASSUME MaxQueriesAssumption == MaxQueries \in Nat

TERMINATE == 0         \* the queries of a client are numbered from 1

VARIABLES
    g_running,         \* g_running
    listening,         \* g_listen_fd >= 0
    backlog,           \* connections that accept() has not returned yet
    main,              \* where the main thread is
    worker,            \* where the thread of each client is
    query,             \* the query that thread is executing
    client,            \* where each client is
    asked,             \* ghost: the number of each client's last query
    reply,             \* ghost: the answer each client received last
    to_server,         \* per connection: what the client has sent, unread
    to_client,         \* and what the server has sent
    server_end         \* the server's end of each connection

vars == <<g_running, listening, backlog, main, worker, query, client, asked, reply,
          to_server, to_client, server_end>>

MainStates == {"check", "accept", "join", "stopped"}
WorkerStates == {"none", "check", "recv", "query", "close", "done"}
ClientStates == {"off", "ready", "waiting", "gone"}

Init ==
    /\ g_running = TRUE /\ listening = TRUE /\ backlog = <<>>
    /\ main = "check"
    /\ worker = [c \in Clients |-> "none"]
    /\ query = [c \in Clients |-> 0]
    /\ client = [c \in Clients |-> "off"]
    /\ asked = [c \in Clients |-> 0]
    /\ reply = [c \in Clients |-> 0]
    /\ to_server = [c \in Clients |-> <<>>]
    /\ to_client = [c \in Clients |-> <<>>]
    /\ server_end = [c \in Clients |-> "closed"]

-----------------------------------------------------------------------------
(* The main thread. *)

Mutant_Signal ==                           \* does not close the listen socket
    /\ g_running
    /\ main # "stopped"
    /\ g_running' = FALSE
    /\ UNCHANGED <<listening, backlog, main, worker, query, client, asked, reply,
                   to_server, to_client, server_end>>

Mutant_SignalCloses ==                     \* closes the sockets of the threads too
    /\ g_running
    /\ main # "stopped"
    /\ g_running' = FALSE
    /\ listening' = FALSE
    /\ backlog' = <<>>
    /\ server_end' = [c \in Clients |-> "closed"]
    /\ UNCHANGED <<main, worker, query, client, asked, reply, to_server, to_client>>

\* SignalHandler; a second signal changes nothing.  It is assumed to run in the
\* main thread, wherever that is, as Linux prefers; POSIX lets any thread run
\* it, and then its close() would not wake the main thread in accept().  Calls
\* it interrupts are restarted (signal() of glibc), so a thread in read() goes
\* on reading, and accept() fails on the closed socket.  Closing that socket
\* resets the connections that were not accepted.
Signal ==
    /\ g_running
    /\ main # "stopped"
    /\ g_running' = FALSE
    /\ listening' = FALSE
    /\ backlog' = <<>>
    /\ server_end' = [c \in Clients |->
                         IF \E i \in DOMAIN backlog : backlog[i] = c THEN "closed"
                         ELSE server_end[c]]
    /\ UNCHANGED <<main, worker, query, client, asked, reply, to_server, to_client>>

MainCheck ==
    /\ main = "check"
    /\ main' = IF g_running THEN "accept" ELSE "join"
    /\ UNCHANGED <<g_running, listening, backlog, worker, query, client, asked, reply,
                   to_server, to_client, server_end>>

Accept ==
    /\ main = "accept" /\ backlog # <<>>
    /\ main' = "check"
    /\ worker' = [worker EXCEPT ![Head(backlog)] = "check"]
    /\ backlog' = Tail(backlog)
    /\ UNCHANGED <<g_running, listening, query, client, asked, reply, to_server,
                   to_client, server_end>>

\* accept() fails: on the closed socket, and the loop ends; or for another
\* reason, such as no file descriptor being left, and the loop goes on.
AcceptFails ==
    /\ main = "accept"
    /\ main' = IF g_running THEN "check" ELSE "join"
    /\ UNCHANGED <<g_running, listening, backlog, worker, query, client, asked, reply,
                   to_server, to_client, server_end>>

Mutant_Join ==                             \* does not wait for the threads
    /\ main = "join"
    /\ main' = "stopped"
    /\ UNCHANGED <<g_running, listening, backlog, worker, query, client, asked, reply,
                   to_server, to_client, server_end>>

\* The main thread joins all workers and returns.
Join ==
    /\ main = "join"
    /\ \A c \in Clients : worker[c] \in {"none", "done"}
    /\ main' = "stopped"
    /\ UNCHANGED <<g_running, listening, backlog, worker, query, client, asked, reply,
                   to_server, to_client, server_end>>

-----------------------------------------------------------------------------
(* HandleClient, the thread of client c. *)
WorkerCheck(c) ==
    /\ worker[c] = "check"
    /\ worker' = [worker EXCEPT ![c] = IF g_running THEN "recv" ELSE "close"]
    /\ UNCHANGED <<g_running, listening, backlog, main, query, client, asked, reply,
                   to_server, to_client, server_end>>

WorkerRecv(c) ==
    /\ worker[c] = "recv" /\ to_server[c] # <<>>
    /\ worker' = [worker EXCEPT ![c] = IF Head(to_server[c]) = TERMINATE THEN "close"
                                       ELSE "query"]
    /\ query' = [query EXCEPT ![c] = Head(to_server[c])]
    /\ to_server' = [to_server EXCEPT ![c] = Tail(@)]
    /\ UNCHANGED <<g_running, listening, backlog, main, client, asked, reply, to_client,
                   server_end>>

Mutant_WorkerEnd(c) ==                     \* tries again
    /\ worker[c] = "recv" /\ to_server[c] = <<>> /\ client[c] = "gone"
    /\ worker' = [worker EXCEPT ![c] = "check"]
    /\ UNCHANGED <<g_running, listening, backlog, main, query, client, asked, reply,
                   to_server, to_client, server_end>>

\* RecvMessage returns false: the client has closed the connection.
WorkerEnd(c) ==
    /\ worker[c] = "recv" /\ to_server[c] = <<>> /\ client[c] = "gone"
    /\ worker' = [worker EXCEPT ![c] = "close"]
    /\ UNCHANGED <<g_running, listening, backlog, main, query, client, asked, reply,
                   to_server, to_client, server_end>>

Mutant_HandleQuery(c) ==                   \* an error is sent after the result
    /\ worker[c] = "query"
    /\ to_client' = [to_client EXCEPT ![c] = IF client[c] = "gone" THEN @
                                             ELSE @ \o <<query[c], query[c]>>]
    /\ worker' = [worker EXCEPT ![c] = "check"]
    /\ UNCHANGED <<g_running, listening, backlog, main, query, client, asked, reply,
                   to_server, server_end>>

\* HandleQuery: a result or an error is sent; a client that has gone does not
\* read it, SIGPIPE is ignored and so is the result of SendMessage.
HandleQuery(c) ==
    /\ worker[c] = "query"
    /\ to_client' = [to_client EXCEPT ![c] = IF client[c] = "gone" THEN @
                                             ELSE Append(@, query[c])]
    /\ worker' = [worker EXCEPT ![c] = "check"]
    /\ UNCHANGED <<g_running, listening, backlog, main, query, client, asked, reply,
                   to_server, server_end>>

Mutant_WorkerClose(c) ==                   \* does not close client_fd
    /\ worker[c] = "close"
    /\ worker' = [worker EXCEPT ![c] = "done"]
    /\ UNCHANGED <<g_running, listening, backlog, main, query, client, asked, reply,
                   to_server, to_client, server_end>>

WorkerClose(c) ==
    /\ worker[c] = "close"
    /\ worker' = [worker EXCEPT ![c] = "done"]
    /\ server_end' = [server_end EXCEPT ![c] = "closed"]
    /\ UNCHANGED <<g_running, listening, backlog, main, query, client, asked, reply,
                   to_server, to_client>>

-----------------------------------------------------------------------------
(* The clients. *)
Connect(c) ==
    /\ client[c] = "off" /\ listening
    /\ client' = [client EXCEPT ![c] = "ready"]
    /\ backlog' = Append(backlog, c)
    /\ server_end' = [server_end EXCEPT ![c] = "open"]
    /\ UNCHANGED <<g_running, listening, main, worker, query, asked, reply, to_server,
                   to_client>>

Ask(c) ==
    /\ client[c] = "ready" /\ asked[c] < MaxQueries
    /\ asked' = [asked EXCEPT ![c] = @ + 1]
    /\ client' = [client EXCEPT ![c] = "waiting"]
    /\ to_server' = [to_server EXCEPT ![c] = IF server_end[c] = "open"
                                             THEN Append(@, asked[c] + 1) ELSE @]
    /\ UNCHANGED <<g_running, listening, backlog, main, worker, query, reply, to_client,
                   server_end>>

Answered(c) ==
    /\ client[c] = "waiting" /\ to_client[c] # <<>>
    /\ client' = [client EXCEPT ![c] = "ready"]
    /\ reply' = [reply EXCEPT ![c] = Head(to_client[c])]
    /\ to_client' = [to_client EXCEPT ![c] = Tail(@)]
    /\ UNCHANGED <<g_running, listening, backlog, main, worker, query, asked, to_server,
                   server_end>>

ConnectionLost(c) ==
    /\ client[c] = "waiting" /\ to_client[c] = <<>> /\ server_end[c] = "closed"
    /\ client' = [client EXCEPT ![c] = "gone"]
    /\ UNCHANGED <<g_running, listening, backlog, main, worker, query, asked, reply,
                   to_server, to_client, server_end>>

\* "\q" sends TERMINATE and closes the connection; the end of the input only
\* closes it, and a client may be killed at its prompt (also by SIGPIPE, which
\* it does not ignore, when it asks a server that has gone) or while it waits.
Leave(c, last) ==
    /\ client' = [client EXCEPT ![c] = "gone"]
    /\ to_server' = [to_server EXCEPT ![c] = IF server_end[c] = "open" THEN @ \o last ELSE @]
    /\ UNCHANGED <<g_running, listening, backlog, main, worker, query, asked, reply,
                   to_client, server_end>>

Quit(c) == client[c] = "ready" /\ Leave(c, <<TERMINATE>>)
HangUp(c) == client[c] \in {"ready", "waiting"} /\ Leave(c, <<>>)

-----------------------------------------------------------------------------
MainStep == MainCheck \/ Accept \/ (~listening /\ AcceptFails) \/ Join
WorkerStep(c) == WorkerCheck(c) \/ WorkerRecv(c) \/ WorkerEnd(c) \/ HandleQuery(c)
                     \/ WorkerClose(c)
ClientReads(c) == Answered(c) \/ ConnectionLost(c)
ClientLeaves(c) == Quit(c) \/ HangUp(c)

Next == \/ MainStep
        \/ AcceptFails
        \/ Signal
        \/ \E c \in Clients : \/ WorkerStep(c) \/ Connect(c) \/ Ask(c)
                              \/ ClientReads(c) \/ ClientLeaves(c)

\* The operating system runs every thread that can run, a statement ends,
\* a client that waits for a message reads it, and accept() does not go on
\* failing for a connection that waits.
Fairness == /\ WF_vars(MainStep) /\ SF_vars(Accept)
            /\ \A c \in Clients : WF_vars(WorkerStep(c)) /\ WF_vars(ClientReads(c))

Spec == Init /\ [][Next]_vars /\ Fairness

-----------------------------------------------------------------------------
(* Properties. *)

\* Type invariant; a thread exists only for a connection that was accepted.
TypeOK ==
    /\ g_running \in BOOLEAN /\ listening \in BOOLEAN
    /\ main \in MainStates
    /\ worker \in [Clients -> WorkerStates]
    /\ client \in [Clients -> ClientStates]
    /\ backlog \in Seq(Clients)
    /\ server_end \in [Clients -> {"open", "closed"}]
    /\ \A c \in Clients : worker[c] \notin {"none", "done"} => server_end[c] = "open"

\* Requests and answers stay in step: a client at its prompt has received the
\* answer to its last query, and no answer is left over for the next one,
\* also when the server is shut down between the two.
AnswersInStep ==
    \A c \in Clients : client[c] = "ready" => reply[c] = asked[c] /\ to_client[c] = <<>>

\* When main() returns, and the instance its threads use is destroyed, no
\* thread runs and no connection is left open.
StopsCleanly ==
    main = "stopped" => \A c \in Clients : /\ worker[c] \in {"none", "done"}
                                           /\ server_end[c] = "closed"

\* A client that waits is not left waiting: it is answered or told that the
\* connection is lost, whenever the server is stopped.
NoClientHangs == \A c \in Clients : client[c] = "waiting" ~> client[c] # "waiting"

\* The connection of a client that has gone is closed by the server.
ConnectionsClosed ==
    \A c \in Clients : client[c] = "gone" ~> server_end[c] = "closed"

\* What graceful shutdown means: after a signal the server stops.
ShutdownCompletes == ~g_running ~> main = "stopped"

\* It does if no user stays at the prompt for ever, wherever the signal finds
\* the main thread, the workers and the connections not yet accepted.
ShutdownOnceUsersLeave ==
    (\A c \in Clients : []<>(client[c] # "ready")) => ShutdownCompletes
=============================================================================
