------------------------------ MODULE Win9xServer ------------------------------
(***************************************************************************)
(* The Windows 9x server (server_win32.c): the listener's accept loop, the *)
(* blocking client handler that the workers run, and the stop, over one    *)
(* start.  The pool's lists are those of ThreadPool, with client contexts  *)
(* for jobs; what is done under the mutex, which ThreadPool shows to be    *)
(* exclusive, is one step.  A worker reads its work item after that, when  *)
(* the item may have been used again: such a worker is astray, with the    *)
(* context of another, and nothing is said of what follows.                *)
(*                                                                         *)
(* Socket handles and context addresses are handed out again once they are *)
(* closed and freed.  sock is Winsock's handle table: calls on a handle    *)
(* reach whatever it refers to now, and serves remembers, for the          *)
(* properties, which connection a context was created for.                 *)
(***************************************************************************)
EXTENDS Integers, Sequences, FiniteSets, Functions

CONSTANTS Capacity,       \* MAX_PENDING_WORK
          Workers,        \* the worker threads
          MaxConns,       \* bound on the connections that clients make
          Handles,        \* values of socket handles
          Ctxs, NoCtx,    \* addresses of client contexts
          NoHandle,       \* INVALID_SOCKET
          MaxChunks,      \* the longest response body, in chunks
          Failing         \* what may fail: "accept", "malloc", "send",
                          \* or the 5 s wait that "join"s a worker

ASSUME Win9xAssumption ==
    /\ Capacity \in Nat \ {0} /\ MaxConns \in Nat /\ MaxChunks \in Nat
    /\ NoCtx \notin Ctxs /\ NoHandle \notin Handles
    /\ Failing \subseteq {"accept", "malloc", "send", "join"}

Conns == 1 .. MaxConns       \* numbered as they are made
Slots == 0 .. Capacity - 1   \* indices of work items
Nothing == 0                 \* what a closed handle refers to

VARIABLES
    running,           \* g_is_server_run
    shut,              \* pool->is_shutdown, and its event
    queue, item,       \* indices of the queued items, oldest first; work_items[i].param
    slot, held,        \* each worker's item_index, and the context it dequeued there
    sock,              \* what each handle of a client's socket refers to
    ssocket,           \* the listening socket: "none", "open" or "closed"
    live,              \* contexts allocated
    handle,            \* ctx->client_socket
    serves,            \* ghost: the connection a context was created for
    listener,          \* control state of the listener thread
    csocket, lctx,     \* its locals csocket and client_ctx
    pc,                \* control state of each worker
    left,              \* chunks left in each worker's stream
    client,            \* what each client does
    gui                \* control state of the thread that stops the server

poolVars == <<queue, item, slot, held>>
ctxVars  == <<live, handle, serves>>
lstVars  == <<listener, csocket, lctx>>
wrkVars  == <<pc, left>>
vars == <<running, shut, poolVars, sock, ssocket, ctxVars, lstVars, wrkVars, client, gui>>

TypeOK ==
    /\ running \in BOOLEAN /\ shut \in BOOLEAN
    /\ queue \in Seq(Slots) /\ Len(queue) <= Capacity
    /\ item \in [Slots -> Ctxs \cup {NoCtx}]
    /\ slot \in [Workers -> Slots]
    /\ held \in [Workers -> Ctxs \cup {NoCtx}]
    /\ sock \in [Handles -> 0 .. MaxConns]
    /\ ssocket \in {"none", "open", "closed"}
    /\ live \subseteq Ctxs
    /\ handle \in [Ctxs -> Handles \cup {NoHandle}]
    /\ serves \in [Ctxs -> 0 .. MaxConns]
    /\ listener \in {"make", "check", "accept", "create", "queue", "submit", "refuse", "drop",
                     "again", "exit", "cleanup", "exited"}
    /\ csocket \in Handles \cup {NoHandle} /\ lctx \in Ctxs \cup {NoCtx}
    /\ pc \in [Workers -> {"loop", "wait", "read", "astray", "recv", "head", "chunk", "close",
                           "free", "exited"}]
    /\ left \in [Workers -> 0 .. MaxChunks]
    /\ client \in [Conns -> {"away", "backlog", "sending", "sent", "stalled", "gone"}]
    /\ gui \in {"start", "up", "flag", "join", "socket", "done"}

(* start_server has created the pool and the listener thread.              *)
Init ==
    /\ running = TRUE /\ shut = FALSE
    /\ queue = <<>> /\ item = [s \in Slots |-> NoCtx]
    /\ slot = [w \in Workers |-> 0] /\ held = [w \in Workers |-> NoCtx]
    /\ sock = [h \in Handles |-> Nothing] /\ ssocket = "none"
    /\ live = {} /\ handle = [x \in Ctxs |-> NoHandle] /\ serves = [x \in Ctxs |-> Nothing]
    /\ listener = "make" /\ csocket = NoHandle /\ lctx = NoCtx
    /\ pc = [w \in Workers |-> "loop"]
    /\ left = [w \in Workers |-> 0]
    /\ client = [c \in Conns |-> "away"]
    /\ gui = "start"

(* closesocket; on a handle that is not open it only fails.  The client is *)
(* gone when its connection is closed.                                     *)
ClosedKept(H) == sock
Closed(H) == [h \in Handles |-> IF h \in H THEN Nothing ELSE sock[h]]

Connected(H) == {sock[h] : h \in H \cap Handles}

Close(H) == /\ sock' = Closed(H)
            /\ client' = [c \in Conns |-> IF c \in Connected(H) THEN "gone" ELSE client[c]]
-----------------------------------------------------------------------------
(* run_server_win9x, on the listener thread *)

MakeSocket ==
    /\ listener = "make"
    /\ ssocket' = "open"
    /\ listener' = "check"
    /\ gui' = "up"                                          \* SetEvent(cfg->lock)
    /\ UNCHANGED <<running, shut, poolVars, sock, ctxVars, csocket, lctx, wrkVars, client>>

Check ==
    /\ listener = "check"
    /\ listener' = IF running THEN "accept" ELSE "exit"
    /\ UNCHANGED <<running, shut, poolVars, sock, ssocket, ctxVars, csocket, lctx, wrkVars,
                   client, gui>>

Accept(c, h) ==
    /\ listener = "accept" /\ ssocket = "open"
    /\ client[c] = "backlog" /\ \A d \in 1 .. c - 1 : client[d] # "backlog"
    /\ sock[h] = Nothing
    /\ sock' = [sock EXCEPT ![h] = c]
    /\ client' = [client EXCEPT ![c] = "sending"]
    /\ csocket' = h
    /\ listener' = "create"
    /\ UNCHANGED <<running, shut, poolVars, ssocket, ctxVars, lctx, wrkVars, gui>>

AcceptError ==
    /\ listener = "accept" /\ (ssocket # "open" \/ "accept" \in Failing)
    /\ listener' = "exit"
    /\ UNCHANGED <<running, shut, poolVars, sock, ssocket, ctxVars, csocket, lctx, wrkVars,
                   client, gui>>

(* create_client_context; malloc returns NULL when no memory is left.      *)
CreateContext(x) ==
    /\ listener = "create" /\ x \notin live
    /\ live' = live \cup {x}
    /\ handle' = [handle EXCEPT ![x] = csocket]
    /\ serves' = [serves EXCEPT ![x] = sock[csocket]]
    /\ lctx' = x
    /\ listener' = "queue"
    /\ UNCHANGED <<running, shut, poolVars, sock, ssocket, csocket, wrkVars, client, gui>>

CreateFails ==
    /\ listener = "create" /\ (live = Ctxs \/ "malloc" \in Failing)
    /\ Close({csocket})
    /\ csocket' = NoHandle
    /\ listener' = "check"
    /\ UNCHANGED <<running, shut, poolVars, ssocket, ctxVars, lctx, wrkVars, gui>>

(* thread_pool_queue_work looks at is_shutdown first, and takes the mutex  *)
(* after that.                                                             *)
Queue ==
    /\ listener = "queue"
    /\ listener' = IF shut THEN "refuse" ELSE "submit"
    /\ UNCHANGED <<running, shut, poolVars, sock, ssocket, ctxVars, csocket, lctx, wrkVars,
                   client, gui>>

(* A worker has put its item back on the free stack when it leaves the     *)
(* mutex.  The code takes the item that was freed last; here, any of them. *)
FreeItemsAlways == Slots
FreeItems == Slots \ Range(queue)

Submit(s) ==
    /\ listener = "submit" /\ s \in FreeItems
    /\ queue' = Append(queue, s)
    /\ item' = [item EXCEPT ![s] = lctx]
    /\ lctx' = NoCtx /\ csocket' = NoHandle
    /\ listener' = "check"
    /\ UNCHANGED <<running, shut, slot, held, sock, ssocket, ctxVars, wrkVars, client, gui>>

SubmitFails ==
    /\ listener = "submit" /\ FreeItems = {}
    /\ listener' = "refuse"
    /\ UNCHANGED <<running, shut, poolVars, sock, ssocket, ctxVars, csocket, lctx, wrkVars,
                   client, gui>>

(* destroy_client_context, and then closesocket once more *)
FreeNever(x) == UNCHANGED ctxVars
Free(x) == /\ live' = live \ {x}
           /\ handle' = [handle EXCEPT ![x] = NoHandle]
           /\ serves' = [serves EXCEPT ![x] = Nothing]

Refuse ==
    /\ listener = "refuse"
    /\ Close({handle[lctx]})
    /\ listener' = "drop"
    /\ UNCHANGED <<running, shut, poolVars, ssocket, ctxVars, csocket, lctx, wrkVars, gui>>

Drop ==
    /\ listener = "drop"
    /\ Free(lctx)
    /\ lctx' = NoCtx
    /\ listener' = "again"
    /\ UNCHANGED <<running, shut, poolVars, sock, ssocket, csocket, wrkVars, client, gui>>

CloseAgain ==
    /\ listener = "again"
    /\ Close({csocket})
    /\ csocket' = NoHandle
    /\ listener' = "check"
    /\ UNCHANGED <<running, shut, poolVars, ssocket, ctxVars, lctx, wrkVars, gui>>

ListenerExit ==
    /\ listener = "exit"
    /\ ssocket' = "closed"
    /\ listener' = "cleanup"
    /\ UNCHANGED <<running, shut, poolVars, sock, ctxVars, csocket, lctx, wrkVars, client, gui>>

(* WSACleanup closes every socket of the process and ends the calls that   *)
(* other threads are blocked in.                                           *)
ClosedByCleanupNone == {}
ClosedByCleanup == Handles

Cleanup ==
    /\ listener = "cleanup"
    /\ Close(ClosedByCleanup)
    /\ listener' = "exited"
    /\ UNCHANGED <<running, shut, poolVars, ssocket, ctxVars, csocket, lctx, wrkVars, gui>>
-----------------------------------------------------------------------------
(* The workers: handle_client_win9x *)

Goto(w, to) == pc' = [pc EXCEPT ![w] = to]
Peer(w) == sock[handle[held[w]]]

WorkerLoop(w) ==
    /\ pc[w] = "loop"
    /\ Goto(w, IF shut THEN "exited" ELSE "wait")
    /\ UNCHANGED <<running, shut, poolVars, sock, ssocket, ctxVars, lstVars, left, client, gui>>

WorkerTake(w) ==
    /\ pc[w] = "wait" /\ queue # <<>>
    /\ slot' = [slot EXCEPT ![w] = Head(queue)]
    /\ held' = [held EXCEPT ![w] = item[Head(queue)]]
    /\ queue' = Tail(queue)
    /\ Goto(w, "read")
    /\ UNCHANGED <<running, shut, item, sock, ssocket, ctxVars, lstVars, left, client, gui>>

(* work_item->param is read when the item is free again.  If a submission  *)
(* has got it in between, the context in it is, or will be, another        *)
(* worker's too, and nobody has the one that was dequeued.                 *)
WorkerRead(w) ==
    /\ pc[w] = "read"
    /\ Goto(w, IF item[slot[w]] = held[w] THEN "recv" ELSE "astray")
    /\ UNCHANGED <<running, shut, poolVars, sock, ssocket, ctxVars, lstVars, left, client, gui>>

WorkerEvent(w) ==
    /\ pc[w] = "wait" /\ shut /\ queue = <<>>
    /\ Goto(w, "exited")
    /\ UNCHANGED <<running, shut, poolVars, sock, ssocket, ctxVars, lstVars, left, client, gui>>

(* process_client_request.  recv blocks until the header is complete or    *)
(* fills the buffer, the client is gone, or the socket is closed; whatever *)
(* was received is then answered.                                          *)
RecvReturns(w) == Peer(w) \in Conns => client[Peer(w)] \in {"sent", "gone"}

Recv(w) ==
    /\ pc[w] = "recv" /\ RecvReturns(w)
    /\ Goto(w, "head")
    /\ UNCHANGED <<running, shut, poolVars, sock, ssocket, ctxVars, lstVars, left, client, gui>>

(* send_all fails on a closed socket, and may fail when the client is      *)
(* gone.  It blocks while the connection is full, which what is sent may   *)
(* make it, if the client does not read.                                   *)
SendResults(w) == IF Peer(w) \notin Conns THEN {FALSE}
                  ELSE IF client[Peer(w)] = "gone" \/ "send" \in Failing THEN BOOLEAN
                  ELSE {TRUE}

SendReturns(w) == Peer(w) \in Conns => client[Peer(w)] # "stalled"

Sent(w) == client' \in {client} \cup {[client EXCEPT ![c] = "stalled"] :
                                        c \in {d \in Conns : d = Peer(w) /\ client[d] = "sent"}}

(* serve_http_request answers inline (0) or opens a stream of n chunks.    *)
SendHead(w, n) ==
    /\ pc[w] = "head" /\ SendReturns(w)
    /\ \E ok \in SendResults(w) : Goto(w, IF ok /\ n > 0 THEN "chunk" ELSE "close")
    /\ Sent(w)
    /\ left' = [left EXCEPT ![w] = n]
    /\ UNCHANGED <<running, shut, poolVars, sock, ssocket, ctxVars, lstVars, gui>>

LeftAfterSame(w) == left[w]
LeftAfter(w) == left[w] - 1

SendChunk(w) ==
    /\ pc[w] = "chunk" /\ left[w] > 0 /\ SendReturns(w)
    /\ left' = [left EXCEPT ![w] = LeftAfter(w)]
    /\ \E ok \in SendResults(w) : Goto(w, IF ok THEN "chunk" ELSE "close")
    /\ Sent(w)
    /\ UNCHANGED <<running, shut, poolVars, sock, ssocket, ctxVars, lstVars, gui>>

StreamEnds(w) ==
    /\ pc[w] = "chunk" /\ left[w] = 0
    /\ Goto(w, "close")
    /\ UNCHANGED <<running, shut, poolVars, sock, ssocket, ctxVars, lstVars, left, client, gui>>

(* destroy_client_context: stream_close, closesocket, free *)
AfterCloseTwice(w) == IF Peer(w) = Nothing THEN "free" ELSE "close"
AfterClose(w) == "free"

CloseSocket(w) ==
    /\ pc[w] = "close"
    /\ left' = [left EXCEPT ![w] = 0]
    /\ Close({handle[held[w]]})
    /\ Goto(w, AfterClose(w))
    /\ UNCHANGED <<running, shut, poolVars, ssocket, ctxVars, lstVars, gui>>

FreeContext(w) ==
    /\ pc[w] = "free"
    /\ Free(held[w])
    /\ held' = [held EXCEPT ![w] = NoCtx]
    /\ Goto(w, "loop")
    /\ UNCHANGED <<running, shut, queue, item, slot, sock, ssocket, lstVars, left, client, gui>>
-----------------------------------------------------------------------------
(* stop_server and thread_pool_shutdown, on the GUI thread *)

StopServer ==
    /\ gui = "up"
    /\ running' = FALSE
    /\ gui' = "flag"
    /\ UNCHANGED <<shut, poolVars, sock, ssocket, ctxVars, lstVars, wrkVars, client>>

ShutPool ==
    /\ gui = "flag"
    /\ shut' = TRUE
    /\ gui' = "join"
    /\ UNCHANGED <<running, poolVars, sock, ssocket, ctxVars, lstVars, wrkVars, client>>

JoinWorkers ==
    /\ gui = "join"
    /\ (\A w \in Workers : pc[w] \in {"exited", "astray"}) \/ "join" \in Failing
    /\ gui' = "socket"
    /\ UNCHANGED <<running, shut, poolVars, sock, ssocket, ctxVars, lstVars, wrkVars, client>>

CloseListening ==
    /\ gui = "socket"
    /\ ssocket' = "closed"
    /\ gui' = "done"
    /\ UNCHANGED <<running, shut, poolVars, sock, ctxVars, lstVars, wrkVars, client>>
-----------------------------------------------------------------------------
(* The clients *)

Become(c, to) ==
    /\ client' = [client EXCEPT ![c] = to]
    /\ UNCHANGED <<running, shut, poolVars, sock, ssocket, ctxVars, lstVars, wrkVars, gui>>

Connect(c)     == /\ client[c] = "away" /\ \A d \in 1 .. c - 1 : client[d] # "away"
                  /\ ssocket = "open" /\ Become(c, "backlog")
SendRequest(c) == client[c] = "sending" /\ Become(c, "sent")
Read(c)        == client[c] = "stalled" /\ Become(c, "sent")
Leave(c)       == client[c] \in {"sending", "sent", "stalled"} /\ Become(c, "gone")
-----------------------------------------------------------------------------
ListenerStep ==
    \/ \E c \in Conns, h \in Handles : Accept(c, h)
    \/ \E x \in Ctxs : CreateContext(x)
    \/ \E s \in Slots : Submit(s)
    \/ MakeSocket \/ Check \/ AcceptError \/ CreateFails \/ Queue \/ SubmitFails
    \/ Refuse \/ Drop \/ CloseAgain \/ ListenerExit \/ Cleanup

WorkerStep(w) ==
    \/ WorkerLoop(w) \/ WorkerTake(w) \/ WorkerRead(w) \/ WorkerEvent(w)
    \/ Recv(w)
    \/ \E n \in 0 .. MaxChunks : SendHead(w, n)
    \/ SendChunk(w) \/ StreamEnds(w) \/ CloseSocket(w) \/ FreeContext(w)

StopStep == ShutPool \/ JoinWorkers \/ CloseListening

ClientStep(c) == Connect(c) \/ SendRequest(c) \/ Read(c) \/ Leave(c)

Terminated == /\ gui = "done" /\ listener = "exited"
              /\ \A w \in Workers : pc[w] \in {"exited", "astray"}
              /\ UNCHANGED vars

Next == \/ ListenerStep \/ StopServer \/ StopStep
        \/ \E w \in Workers : WorkerStep(w)
        \/ \E c \in Conns : ClientStep(c)
        \/ Terminated

Spec == Init /\ [][Next]_vars

(* The server's threads run and a wait of 5 s ends; nothing is assumed of  *)
(* the clients, and nobody has to stop the server.                         *)
Fairness == /\ WF_vars(ListenerStep) /\ WF_vars(StopStep)
            /\ \A w \in Workers : WF_vars(WorkerStep(w))

FairSpec == Spec /\ Fairness
-----------------------------------------------------------------------------
(* From here on, what is said holds as long as no worker has gone astray:  *)
(* with one, one context is served and freed twice and another, with its   *)
(* socket, is nobody's.                                                    *)
Astray == \E w \in Workers : pc[w] = "astray"

(* A context is in one place at a time, with the listener, in the queue or *)
(* with a worker, and an address that is in none of them is free, although *)
(* items and addresses are used again.                                     *)
Places(x) == Cardinality({i \in 1 .. Len(queue) : item[queue[i]] = x})
             + Cardinality({w \in Workers : held[w] = x})
             + (IF lctx = x THEN 1 ELSE 0)

ContextPlaced == ~Astray => \A x \in Ctxs : Places(x) = (IF x \in live THEN 1 ELSE 0)

(* Until its owner closes it, the socket of a context stays the connection *)
(* the context was created for: no handle is closed under a context, and   *)
(* none is given to another connection, although the listener closes a     *)
(* refused client's socket twice.                                          *)
Closing(x) == \/ listener = "drop" /\ lctx = x
              \/ \E w \in Workers : held[w] = x /\ pc[w] = "free"

OwnConnection == ~Astray /\ listener # "exited" =>
    \A x \in live : ~Closing(x) => sock[handle[x]] = serves[x]

(* A connection that is open belongs to a context, or the listener has     *)
(* just accepted it: no client is left connected to nobody.                *)
NoSocketLost == ~Astray => \A h \in Handles : sock[h] \in Conns =>
    \/ listener = "create" /\ csocket = h
    \/ \E x \in live : handle[x] = h /\ serves[x] = sock[h]

(* A client that a worker serves is answered or given up, and disconnected *)
(* in the end, once it sent its request or went away, whatever the other   *)
(* clients do.  One that stays and stops reading for good holds its worker *)
(* in send, which has no timeout.                                          *)
Served(c) == client[c] \in {"sent", "gone"} /\ \E w \in Workers : pc[w] = "recv" /\ Peer(w) = c
Disconnected(c) == \A h \in Handles : sock[h] # c
RequestsEnd == \A c \in Conns :
    Served(c) ~> (Disconnected(c) \/ Astray \/ [](client[c] = "stalled"))

(* Stopping needs no client's help: a worker that is blocked in recv by a  *)
(* silent client, or in send by one that does not read, outlives the join, *)
(* and ends when the listener gives up Winsock.  By then every client is   *)
(* disconnected, also one whose context was queued behind the last worker. *)
StopEnds == (gui = "flag") ~>
    (Astray \/ (/\ listener = "exited" /\ \A w \in Workers : pc[w] = "exited"
                /\ \A c \in Conns : Disconnected(c)))
=============================================================================
