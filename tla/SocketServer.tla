---------------------------- MODULE SocketServer ----------------------------
(***************************************************************************)
(* The server of kvstore/src/server/socket_server.c around its work queue: *)
(* the thread in server_run accepts connections and pushes their sockets,  *)
(* max_threads threads in request_handler pop a socket, read the request,  *)
(* write the response and pop again.  No code path closes a client socket, *)
(* so the descriptors of the process bound how many clients it can ever    *)
(* serve.  The items of the queue are the sockets, named by their clients. *)
(***************************************************************************)
EXTENDS WorkQueue

CONSTANTS Acceptor,    \* the thread in server_run, the only one that pushes
          MaxFds       \* descriptors left for client sockets

ASSUME SocketServerAssumption ==
  /\ Acceptor \in Pushers
  /\ IsFiniteSet(Poppers)
  /\ MaxFds \in Nat

VARIABLES master,     \* server->master: the handler is tpcmaster_handle
          client,     \* what each client has seen
          fds,        \* client sockets the process has open
          sock,       \* client_sock, the local of server_run
          listening,  \* server->listening
          apc,        \* where server_run is
          alive       \* the process has not been killed

svars == <<master, client, fds, sock, listening, apc, alive>>
allvars == <<vars, svars>>

ClientState == {"new", "backlog", "waiting", "answered", "gone", "refused"}

ServerInit ==
  /\ Init
  /\ client = [c \in Items |-> "new"]
  /\ fds = {}
  /\ sock = None
  /\ listening = TRUE
  /\ apc = "test"
  /\ alive = TRUE
  /\ master \in BOOLEAN

-----------------------------------------------------------------------------
\* A client connects: the kernel queues it on the listening socket, as long
\* as server_stop has not shut that down.
Connect(c) ==
  /\ client[c] = "new"
  /\ client' = [client EXCEPT ![c] = IF listening /\ alive
                                     THEN "backlog" ELSE "refused"]
  /\ UNCHANGED <<vars, master, fds, sock, listening, apc, alive>>

\* A client's own timeout expires and it closes its end.
Leave(c) ==
  /\ client[c] = "waiting"
  /\ client' = [client EXCEPT ![c] = "gone"]
  /\ UNCHANGED <<vars, master, fds, sock, listening, apc, alive>>

\* while (server->listening)
TestListening ==
  /\ alive /\ apc = "test"
  /\ apc' = IF listening THEN "accept" ELSE "done"
  /\ UNCHANGED <<vars, master, client, fds, sock, listening, alive>>

\* accept() returns a socket.
Accept(c) ==
  /\ alive /\ apc = "accept" /\ listening
  /\ client[c] = "backlog" /\ Cardinality(fds) < MaxFds
  /\ client' = [client EXCEPT ![c] = "waiting"]
  /\ fds' = fds \cup {c}
  /\ sock' = c
  /\ apc' = "lock"
  /\ UNCHANGED <<vars, master, listening, alive>>

\* The result of accept() is pushed whether or not it is a socket.
AcceptFails_PushAnyway ==
  /\ alive /\ apc = "accept"
  /\ \/ ~listening
     \/ Cardinality(fds) >= MaxFds /\ \E c \in Items : client[c] = "backlog"
  /\ sock' = -1
  /\ apc' = "lock"
  /\ UNCHANGED <<vars, master, client, fds, listening, alive>>

\* accept() returns -1: the listening socket was shut down, or the process
\* has no descriptor left (the connection stays in the backlog).
AcceptFails ==
  /\ alive /\ apc = "accept"
  /\ \/ ~listening
     \/ Cardinality(fds) >= MaxFds /\ \E c \in Items : client[c] = "backlog"
  /\ apc' = "test"
  /\ UNCHANGED <<vars, master, client, fds, sock, listening, alive>>

\* wq_push(&server->wq, client_sock), in its two steps.
PushStart ==
  /\ alive /\ apc = "lock"
  /\ PushLock(Acceptor, sock)
  /\ apc' = "push"
  /\ UNCHANGED <<master, client, fds, sock, listening, alive>>

Push ==
  /\ alive /\ apc = "push"
  /\ PushAppend(Acceptor)
  /\ apc' = "test"
  /\ UNCHANGED <<master, client, fds, sock, listening, alive>>

\* server_stop, from another thread: connections in the backlog are reset.
server_stop ==
  /\ alive /\ listening
  /\ listening' = FALSE
  /\ client' = [c \in Items |-> IF client[c] = "backlog" THEN "refused"
                                ELSE client[c]]
  /\ UNCHANGED <<vars, master, fds, sock, apc, alive>>

-----------------------------------------------------------------------------
\* A worker thread runs wq_pop.
Pop(t) ==
  /\ alive
  /\ \/ PopLock(t) \/ PopWait(t) \/ PopRelock(t) \/ PopTake(t)
     \/ PopDelete(t)
  /\ UNCHANGED svars

Spurious(t) == alive /\ SpuriousWakeup(t) /\ UNCHANGED svars

\* kvmessage_send writes the size and then the message.  If the client has
\* closed, the second write may find the connection reset, and SIGPIPE, which
\* no code ignores, ends the process.
Respond(t) ==
  LET c == job[t] IN
  \/ /\ client' = [client EXCEPT ![c] = IF @ = "waiting" THEN "answered"
                                        ELSE @]
     /\ UNCHANGED alive
  \/ /\ client[c] = "gone"
     /\ alive' = FALSE
     /\ UNCHANGED client

\* A request that cannot be parsed gets no response.
Handle_NoResponse(t) ==
  \E parsed \in BOOLEAN :
    /\ alive /\ PopAgain(t)
    /\ IF parsed THEN Respond(t) ELSE UNCHANGED <<client, alive>>
    /\ UNCHANGED <<master, fds, sock, listening, apc>>

\* kvserver_handle or tpcmaster_handle on the popped socket, then wq_pop
\* again; the socket stays open.  A short read makes kvmessage_parse return
\* NULL: kvserver_handle answers ERRMSG_INVALID_REQUEST, tpcmaster_handle
\* dereferences it before it tests for it.
Handle(t) ==
  \E parsed \in BOOLEAN :
    /\ alive /\ PopAgain(t)
    /\ IF master /\ ~parsed
       THEN alive' = FALSE /\ UNCHANGED client
       ELSE Respond(t)
    /\ UNCHANGED <<master, fds, sock, listening, apc>>

-----------------------------------------------------------------------------
ServerNext ==
  \/ \E c \in Items : Connect(c) \/ Leave(c) \/ Accept(c)
  \/ TestListening \/ AcceptFails \/ PushStart \/ Push \/ server_stop
  \/ \E t \in Poppers : Pop(t) \/ Spurious(t) \/ Handle(t)

ServerSpec == ServerInit /\ [][ServerNext]_allvars

\* The kernel schedules every thread that can run, and spurious wakeups of
\* pthread_cond_wait do not go on forever.
ServerFairness ==
  /\ WF_allvars(TestListening \/ AcceptFails \/ (\E c \in Items : Accept(c)))
  /\ WF_allvars(PushStart \/ Push)
  /\ \A t \in Poppers : WF_allvars(Handle(t) \/ Pop(t))
  /\ <>[][~ \E t \in Poppers : Spurious(t)]_allvars

FairServerSpec == ServerSpec /\ ServerFairness

-----------------------------------------------------------------------------
ServerTypeOK ==
  /\ TypeOK
  /\ master \in BOOLEAN
  /\ client \in [Items -> ClientState]
  /\ fds \subseteq Items
  /\ sock \in Items \cup {None}
  /\ listening \in BOOLEAN /\ alive \in BOOLEAN
  /\ apc \in {"test", "accept", "lock", "push", "done"}

(* Nothing but the last response of request_handler counts as an answer,   *)
(* and an accepted client is never dropped silently: each is in the queue, *)
(* in the hands of one thread, answered, or has left.                      *)
NoClientLost ==
  alive => \A c \in Items : client[c] = "waiting" =>
    \/ InSeq(c, queue)
    \/ apc \in {"lock", "push"} /\ sock = c
    \/ \E t \in Poppers : pc[t] = "work" /\ job[t] = c

(* socket_server.c: server_run "indefinitely (until server_stop is called) *)
(* listens for incoming requests".  A client that connects while the       *)
(* server listens is accepted, unless the server is stopped or all         *)
(* descriptors are in use, which is for ever because no client socket is   *)
(* closed; a client that was accepted gets its response or leaves; both as *)
(* long as the process lives.                                              *)
EveryClientAnswered ==
  \A c \in Items :
    /\ client[c] = "backlog" ~>
         client[c] # "backlog" \/ ~alive \/ Cardinality(fds) >= MaxFds
    /\ client[c] = "waiting" ~> client[c] # "waiting" \/ ~alive

(* Sockets and clients are accounted for: the server's state keeps its     *)
(* types, no signal leaves a socket in the queue while every worker is     *)
(* asleep, and no accepted client is dropped.                              *)
ClientsAccounted == ServerTypeOK /\ NoStrandedItem /\ NoClientLost
=============================================================================
