------------------------------ MODULE IocpServer ------------------------------
(***************************************************************************)
(* The Windows NT server: the completion port and its workers              *)
(* (thread_pool.c), the completion handlers and the listener thread        *)
(* (server_win32.c).  A client context is malloc'ed, lent to the kernel    *)
(* with an overlapped operation, comes back as a packet of the completion  *)
(* port, and is freed by whichever worker ends the connection.             *)
(*                                                                         *)
(* A context is identified by its address, which malloc may hand out again *)
(* once it is freed.  Its client socket and its stream handles are opened  *)
(* and closed with it and are not modelled apart, except that body counts  *)
(* the chunks its stream has yet to produce.                               *)
(***************************************************************************)
EXTENDS Integers, Sequences, FiniteSets

CONSTANTS ThreadCount,      \* cfg->worker_threads
          Ctxs, NoCtx,      \* addresses of client contexts
          MaxChunks,        \* the longest response body, in chunks
          Failing           \* what may fail: a call the "listener" or a "worker"
                            \* makes into Winsock, an overlapped "io" operation,
                            \* or the 5 s wait that "join"s a worker

ASSUME IocpAssumption ==
    /\ ThreadCount \in Nat \ {0}
    /\ NoCtx \notin Ctxs
    /\ MaxChunks \in Nat
    /\ Failing \subseteq {"listener", "worker", "io", "join"}

Workers == 1 .. ThreadCount

VARIABLES
    running,       \* g_is_server_run
    isShutdown,    \* pool->is_shutdown
    port,          \* the completion port: its packets, oldest first
    portOpen,
    ssocket,       \* the listening socket: "none", "open" or "closed"
    live,          \* contexts allocated
    inflight,      \* contexts whose overlapped operation is with the kernel
    op,            \* ctx->operation
    body,          \* chunks left in ctx's stream, 0 when there is none
    pc, cur,       \* control state and ctx of each worker
    posted,        \* accepts the listener has tried to post
    listener, lctx,\* control state and accept_ctx of the listener thread
    gui, count,    \* control state and loop counter of the thread that starts and stops
    lost           \* ghost: contexts nobody will ever free

ctxVars   == <<live, inflight, op, body, lost>>
portVars  == <<port, portOpen>>
guiVars   == <<gui, count, running, isShutdown>>
lstVars   == <<listener, lctx, posted>>
vars == <<ctxVars, portVars, guiVars, lstVars, ssocket, pc, cur>>

Packet == [ctx : Ctxs \cup {NoCtx}, ok : BOOLEAN, bytes : {0, 1}]
ShutdownPacket == [ctx |-> NoCtx, ok |-> TRUE, bytes |-> 0]

TypeOK ==
    /\ running \in BOOLEAN /\ isShutdown \in BOOLEAN /\ portOpen \in BOOLEAN
    /\ port \in Seq(Packet)
    /\ ssocket \in {"none", "open", "closed"}
    /\ live \subseteq Ctxs /\ inflight \subseteq live /\ lost \subseteq live
    /\ op \in [Ctxs -> {"none", "accept", "recv", "send"}]
    /\ body \in [Ctxs -> 0 .. MaxChunks]
    /\ pc \in [Workers -> {"off", "loop", "get", "accept", "acceptRecv", "acceptNew",
                           "acceptPost", "recv", "disconnect", "send", "exited"}]
    /\ cur \in [Workers -> Ctxs \cup {NoCtx}]
    /\ posted \in 0 .. ThreadCount /\ count \in 0 .. ThreadCount
    /\ listener \in {"off", "assoc", "new", "post", "sleep", "cleanup", "exited"}
    /\ lctx \in Ctxs \cup {NoCtx}
    /\ gui \in {"init", "create", "start", "up", "flag", "post", "join", "socket", "done"}

Init ==
    /\ running = TRUE /\ isShutdown = FALSE
    /\ port = <<>> /\ portOpen = FALSE /\ ssocket = "none"
    /\ live = {} /\ inflight = {} /\ lost = {}
    /\ op = [x \in Ctxs |-> "none"] /\ body = [x \in Ctxs |-> 0]
    /\ pc = [w \in Workers |-> "off"] /\ cur = [w \in Workers |-> NoCtx]
    /\ posted = 0 /\ listener = "off" /\ lctx = NoCtx
    /\ gui = "init" /\ count = 0

Goto(w, to) == pc' = [pc EXCEPT ![w] = to]
Return(w) == Goto(w, "loop") /\ cur' = [cur EXCEPT ![w] = NoCtx]

(* Once the listener thread has given up Winsock every call into it fails. *)
WinsockUp == listener # "exited"
Outcomes(who) == IF ~WinsockUp THEN {FALSE}
                 ELSE IF who \in Failing THEN BOOLEAN ELSE {TRUE}
-----------------------------------------------------------------------------
(* Contexts *)

(* create_client_context(INVALID_SOCKET, NULL), for an accept: malloc      *)
(* returns NULL when no memory is left.  The address of the peer is copied *)
(* from address 0, which is taken to read as something.                    *)
NoMemory == live = Ctxs

Create(x) ==
    /\ x \notin live
    /\ live' = live \cup {x}
    /\ op' = [op EXCEPT ![x] = "none"]
    /\ body' = [body EXCEPT ![x] = 0]

Freed(x) == /\ op' = [op EXCEPT ![x] = "none"]
            /\ body' = [body EXCEPT ![x] = 0]

Destroy(x) == live' = live \ {x} /\ Freed(x)

(* post_accept, post_recv and post_send set the operation, then hand the   *)
(* context to the kernel.                                                  *)
PostedKeepingOperation(x, o) == op
Posted(x, o) == [op EXCEPT ![x] = o]

Post(x, o) == /\ op' = Posted(x, o)
              /\ inflight' = inflight \cup {x}

(* The kernel completes an operation.  The packet of a port that is closed *)
(* reaches nobody.  An accept ends with the listening socket, any other    *)
(* operation with Winsock, and a packet says that it failed.               *)
Aborted(x) == ~WinsockUp \/ (op[x] = "accept" /\ ssocket # "open")

Result(x) == IF Aborted(x) THEN {}
             ELSE [ok : {TRUE}, bytes : CASE op[x] = "accept" -> {0}
                                           [] op[x] = "recv"   -> {0, 1}
                                           [] op[x] = "send"   -> {1}]

Failure(x) == IF "io" \in Failing \/ Aborted(x) THEN [ok : {FALSE}, bytes : {0}] ELSE {}

KernelCompletes(x) ==
    /\ x \in inflight
    /\ inflight' = inflight \ {x}
    /\ IF portOpen
         THEN \E r \in Result(x) \cup Failure(x) :
                /\ port' = Append(port, [ctx |-> x, ok |-> r.ok, bytes |-> r.bytes])
                /\ UNCHANGED lost
         ELSE lost' = lost \cup {x} /\ UNCHANGED port
    /\ UNCHANGED <<live, op, body, portOpen, guiVars, lstVars, ssocket, pc, cur>>
-----------------------------------------------------------------------------
(* iocp_worker_thread_proc *)

WorkerLoop(w) ==
    /\ pc[w] = "loop"
    /\ Goto(w, IF isShutdown THEN "exited" ELSE "get")
    /\ UNCHANGED <<ctxVars, portVars, guiVars, lstVars, ssocket, cur>>

Handler(x, bytes) ==
    CASE op[x] = "accept" -> "accept"
      [] op[x] = "recv"   -> IF bytes = 0 THEN "disconnect" ELSE "recv"
      [] op[x] = "send"   -> "send"

(* GetQueuedCompletionStatus.  A packet of a failed operation ends the     *)
(* worker like a shutdown packet does, and its context with it.            *)
WorkerGet(w) ==
    /\ pc[w] = "get" /\ portOpen /\ port # <<>>
    /\ LET p == Head(port) IN
         /\ port' = Tail(port)
         /\ IF p.ctx = NoCtx \/ ~p.ok
              THEN /\ Goto(w, "exited")
                   /\ lost' = lost \cup ({p.ctx} \ {NoCtx})
                   /\ UNCHANGED cur
              ELSE /\ Goto(w, Handler(p.ctx, p.bytes))
                   /\ cur' = [cur EXCEPT ![w] = p.ctx]
                   /\ UNCHANGED lost
    /\ UNCHANGED <<live, inflight, op, body, portOpen, guiVars, lstVars, ssocket>>

WorkerPortClosed(w) ==
    /\ pc[w] = "get" /\ ~portOpen
    /\ Goto(w, "exited")
    /\ UNCHANGED <<ctxVars, portVars, guiVars, lstVars, ssocket, cur>>
-----------------------------------------------------------------------------
(* handle_accept_completion *)

AcceptAssociate(w, ok) ==
    /\ pc[w] = "accept"
    /\ IF ok THEN Goto(w, "acceptRecv") /\ UNCHANGED <<live, op, body, cur>>
             ELSE Return(w) /\ Destroy(cur[w])
    /\ UNCHANGED <<inflight, lost, portVars, guiVars, lstVars, ssocket>>

AcceptRecv(w, ok) ==
    /\ pc[w] = "acceptRecv"
    /\ IF ok THEN /\ Post(cur[w], "recv")
                  /\ Goto(w, "acceptNew")
                  /\ cur' = [cur EXCEPT ![w] = NoCtx]
                  /\ UNCHANGED <<live, body>>
             ELSE /\ Destroy(cur[w])
                  /\ Return(w)
                  /\ UNCHANGED inflight
    /\ UNCHANGED <<lost, portVars, guiVars, lstVars, ssocket>>

AcceptNew(w) ==
    /\ pc[w] = "acceptNew"
    /\ IF NoMemory
         THEN Return(w) /\ UNCHANGED <<live, op, body>>
         ELSE \E x \in Ctxs : /\ Create(x)
                              /\ cur' = [cur EXCEPT ![w] = x]
                              /\ Goto(w, "acceptPost")
    /\ UNCHANGED <<inflight, lost, portVars, guiVars, lstVars, ssocket>>

AcceptPost(w, ok) ==
    /\ pc[w] = "acceptPost"
    /\ IF ok /\ ssocket = "open"
         THEN Post(cur[w], "accept") /\ UNCHANGED <<live, body>>
         ELSE Destroy(cur[w]) /\ UNCHANGED inflight
    /\ Return(w)
    /\ UNCHANGED <<lost, portVars, guiVars, lstVars, ssocket>>
-----------------------------------------------------------------------------
(* handle_recv_completion *)

FreedOnDisconnectNever(x) == live
FreedOnDisconnect(x) == live \ {x}

RecvDisconnected(w) ==
    /\ pc[w] = "disconnect"
    /\ live' = FreedOnDisconnect(cur[w])
    /\ Freed(cur[w])
    /\ Return(w)
    /\ UNCHANGED <<inflight, lost, portVars, guiVars, lstVars, ssocket>>

(* serve_http_request answers inline or opens a stream of some number of   *)
(* chunks; the head is sent first.                                         *)
Bodies == 0 .. MaxChunks

RecvAnswer(w, n, ok) ==
    /\ pc[w] = "recv"
    /\ IF ok THEN /\ Post(cur[w], "send")
                  /\ body' = [body EXCEPT ![cur[w]] = n]
                  /\ UNCHANGED live
             ELSE Destroy(cur[w]) /\ UNCHANGED inflight
    /\ Return(w)
    /\ UNCHANGED <<lost, portVars, guiVars, lstVars, ssocket>>
-----------------------------------------------------------------------------
(* handle_send_completion *)

NextChunkAgain(x) == body
NextChunk(x) == [body EXCEPT ![x] = @ - 1]

SendChunk(w) ==
    /\ pc[w] = "send" /\ body[cur[w]] > 0 /\ TRUE \in Outcomes("worker")
    /\ body' = NextChunk(cur[w])
    /\ Post(cur[w], "send")
    /\ Return(w)
    /\ UNCHANGED <<live, lost, portVars, guiVars, lstVars, ssocket>>

(* Inline response sent, end of the stream, or the read or the post of the *)
(* next chunk failed.                                                      *)
LentAfterEndAgain(x) == inflight \cup {x}
LentAfterEnd(x) == inflight

SendEnd(w) ==
    /\ pc[w] = "send" /\ (body[cur[w]] = 0 \/ FALSE \in Outcomes("worker"))
    /\ inflight' = LentAfterEnd(cur[w])
    /\ Destroy(cur[w])
    /\ Return(w)
    /\ UNCHANGED <<lost, portVars, guiVars, lstVars, ssocket>>
-----------------------------------------------------------------------------
(* run_server_nt, on the listener thread *)

ListenerAssociate(ok) ==
    /\ listener = "assoc"
    /\ ssocket' = IF ok THEN "open" ELSE "closed"
    /\ listener' = IF ok THEN "new" ELSE "exited"
    /\ gui' = "up"                                          \* SetEvent(cfg->lock)
    /\ UNCHANGED <<ctxVars, portVars, count, running, isShutdown, lctx, posted, pc, cur>>

MoreAcceptsOffByOne == posted <= ThreadCount
MoreAccepts == posted < ThreadCount

ListenerNew ==
    /\ listener = "new"
    /\ IF ~MoreAccepts
         THEN listener' = "sleep" /\ UNCHANGED <<live, op, body, lctx, posted>>
         ELSE IF NoMemory
           THEN /\ posted' = posted + 1
                /\ UNCHANGED <<listener, live, op, body, lctx>>
           ELSE \E x \in Ctxs : /\ Create(x)
                                /\ lctx' = x /\ listener' = "post"
                                /\ UNCHANGED posted
    /\ UNCHANGED <<inflight, lost, portVars, guiVars, ssocket, pc, cur>>

ListenerPost(ok) ==
    /\ listener = "post"
    /\ IF ok /\ ssocket = "open"
         THEN Post(lctx, "accept") /\ UNCHANGED <<live, body>>
         ELSE Destroy(lctx) /\ UNCHANGED inflight
    /\ posted' = posted + 1
    /\ listener' = "new" /\ lctx' = NoCtx
    /\ UNCHANGED <<lost, portVars, guiVars, ssocket, pc, cur>>

ListenerStop ==
    /\ listener = "sleep" /\ ~running
    /\ ssocket' = "closed"
    /\ listener' = "cleanup"
    /\ UNCHANGED <<ctxVars, portVars, guiVars, lctx, posted, pc, cur>>

(* WSACleanup ends the operations that are outstanding, of every client.   *)
Cleanup ==
    /\ listener = "cleanup"
    /\ listener' = "exited"
    /\ UNCHANGED <<ctxVars, portVars, guiVars, ssocket, lctx, posted, pc, cur>>
-----------------------------------------------------------------------------
(* start_server and iocp_pool_init, on the GUI thread *)

InitPort(ok) ==
    /\ gui = "init"
    /\ portOpen' = ok
    /\ gui' = IF ok THEN "create" ELSE "done"
    /\ UNCHANGED <<ctxVars, port, count, running, isShutdown, lstVars, ssocket, pc, cur>>

CreateWorker(ok) ==
    /\ gui = "create"
    /\ IF ok THEN Goto(count + 1, "loop") ELSE UNCHANGED pc
    /\ count' = IF ok /\ count + 1 < ThreadCount THEN count + 1 ELSE 0
    /\ gui' = IF ~ok THEN "flag" ELSE IF count + 1 < ThreadCount THEN gui ELSE "start"
    /\ UNCHANGED <<ctxVars, portVars, running, isShutdown, lstVars, ssocket, cur>>

StartListener ==
    /\ gui = "start" /\ listener = "off"
    /\ listener' = "assoc"
    /\ UNCHANGED <<ctxVars, portVars, guiVars, lctx, posted, ssocket, pc, cur>>

(* stop_server and iocp_pool_shutdown *)

StopServer ==
    /\ gui = "up"
    /\ running' = FALSE
    /\ gui' = "flag"
    /\ UNCHANGED <<ctxVars, portVars, count, isShutdown, lstVars, ssocket, pc, cur>>

PoolFlag ==
    /\ gui = "flag"
    /\ isShutdown' = TRUE
    /\ gui' = "post"
    /\ UNCHANGED <<ctxVars, portVars, count, running, lstVars, ssocket, pc, cur>>

PacketsToPostOffByOne == ThreadCount - 1
PacketsToPost == ThreadCount

PoolPost ==
    /\ gui = "post"
    /\ IF count < PacketsToPost
         THEN /\ port' = Append(port, ShutdownPacket)
              /\ count' = count + 1
              /\ UNCHANGED gui
         ELSE gui' = "join" /\ count' = 0 /\ UNCHANGED port
    /\ UNCHANGED <<ctxVars, portOpen, running, isShutdown, lstVars, ssocket, pc, cur>>

PoolJoin ==
    /\ gui = "join" /\ count < ThreadCount
    /\ pc[count + 1] \in {"off", "exited"} \/ "join" \in Failing
    /\ count' = count + 1
    /\ UNCHANGED <<ctxVars, portVars, gui, running, isShutdown, lstVars, ssocket, pc, cur>>

PoolClose ==
    /\ gui = "join" /\ count = ThreadCount
    /\ portOpen' = FALSE /\ port' = <<>>
    /\ lost' = lost \cup ({port[i].ctx : i \in 1 .. Len(port)} \ {NoCtx})
    /\ gui' = IF listener = "off" THEN "done" ELSE "socket"
    /\ UNCHANGED <<live, inflight, op, body, count, running, isShutdown, lstVars, ssocket,
                   pc, cur>>

CloseSocket ==
    /\ gui = "socket"
    /\ ssocket' = "closed"
    /\ gui' = "done"
    /\ UNCHANGED <<ctxVars, portVars, count, running, isShutdown, lstVars, pc, cur>>
-----------------------------------------------------------------------------
Start    == (\E ok \in BOOLEAN : InitPort(ok) \/ CreateWorker(ok)) \/ StartListener
Shutdown == PoolFlag \/ PoolPost \/ PoolJoin \/ PoolClose \/ CloseSocket

ListenerStep == \/ \E ok \in Outcomes("listener") : ListenerAssociate(ok) \/ ListenerPost(ok)
                \/ ListenerNew \/ ListenerStop \/ Cleanup

WorkerStep(w) ==
    \/ WorkerLoop(w) \/ WorkerGet(w) \/ WorkerPortClosed(w)
    \/ \E ok \in Outcomes("worker") :
          \/ AcceptAssociate(w, ok) \/ AcceptRecv(w, ok) \/ AcceptPost(w, ok)
          \/ \E n \in Bodies : RecvAnswer(w, n, ok)
    \/ AcceptNew(w) \/ RecvDisconnected(w) \/ SendChunk(w) \/ SendEnd(w)

Terminated == /\ gui = "done" /\ inflight = {} /\ listener \in {"off", "exited"}
              /\ \A w \in Workers : pc[w] \in {"off", "exited"}
              /\ UNCHANGED vars

Next == \/ Start \/ StopServer \/ Shutdown
        \/ ListenerStep
        \/ \E x \in Ctxs : KernelCompletes(x)
        \/ \E w \in Workers : WorkerStep(w)
        \/ Terminated

Spec == Init /\ [][Next]_vars

(* The server's own threads run.  Clients need not connect, but one that   *)
(* sent a request takes its answer or goes away.                           *)
Sends(x) == op[x] = "send" /\ KernelCompletes(x)

Fairness == /\ WF_vars(Start) /\ WF_vars(Shutdown)
            /\ WF_vars(ListenerStep)
            /\ \A w \in Workers : WF_vars(WorkerStep(w))
            /\ \A x \in Ctxs : WF_vars(Sends(x))

FairSpec == Spec /\ Fairness
-----------------------------------------------------------------------------
Using == {"accept", "acceptRecv", "acceptPost", "recv", "disconnect", "send"}

Users(x)   == {w \in Workers : pc[w] \in Using /\ cur[w] = x}
Packets(x) == {i \in 1 .. Len(port) : port[i].ctx = x}
Lent(x)    == IF x \in inflight THEN 1 ELSE 0
Listed(x)  == IF listener = "post" /\ lctx = x THEN 1 ELSE 0

Holders(x) == Cardinality(Users(x)) + Cardinality(Packets(x)) + Lent(x) + Listed(x)

(* A context is in one hand at a time: the kernel's, a packet's, one       *)
(* worker's or the listener's.  No two workers handle completions of the   *)
(* same connection at once, and no context is freed, let alone allocated   *)
(* again, while an operation on it is outstanding.                         *)
SingleOwner == \A x \in Ctxs : Holders(x) <= (IF x \in live THEN 1 ELSE 0)

(* Every context is freed in the end, or it is one of those lost to a      *)
(* failed operation, one that the stop aborts included, or to a closed     *)
(* completion port.                                                        *)
NoOtherLeak == \A x \in live \ lost : Holders(x) = 1

(* The listener and the workers never keep more accepts posted, or about   *)
(* to be, than there are worker threads.                                   *)
Accepting == {x \in live \ lost : op[x] \in {"none", "accept"}}
Replacing == {w \in Workers : pc[w] = "acceptNew"}
AcceptsBounded == Cardinality(Accepting) + Cardinality(Replacing) <= ThreadCount

(* A context is used for one exchange, in order, and server and kernel     *)
(* alternate.                                                              *)
Phase == [x \in Ctxs |-> IF x \notin live THEN "free"
                         ELSE IF op[x] = "none" THEN "fresh" ELSE op[x]]
Turn == [x \in Ctxs |-> IF x \in inflight THEN "kernel" ELSE "server"]
EX == INSTANCE Exchange WITH phase <- Phase, turn <- Turn
ImplementsExchange == EX!Spec

(* A worker ends only when the server is stopped or the pool shut down,    *)
(* whatever happens to the connections it serves: this is what the         *)
(* documentation's recovery from network failures asks for, and what the   *)
(* code after the break intends.                                           *)
WorkersSurvive == \A w \in Workers : pc[w] = "exited" => isShutdown \/ ~running

(* A request that arrived is answered or dropped, and its context freed,   *)
(* unless the server is shut down before.                                  *)
Serving(x) == x \in live /\ op[x] \in {"recv", "send"} /\ x \notin inflight
RequestsEnd == \A x \in Ctxs : Serving(x) ~> (x \notin live \/ isShutdown)

(* iocp_pool_shutdown returns: every worker that waits at the port gets a  *)
(* packet to end on.                                                       *)
ShutdownReturns == (gui = "flag") ~> (gui \in {"socket", "done"})
=============================================================================
