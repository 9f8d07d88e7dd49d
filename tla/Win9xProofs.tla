------------------------------ MODULE Win9xProofs -----------------------------
(***************************************************************************)
(* Proofs about Win9xServer, for every number of workers, connections,     *)
(* handles and contexts and whatever fails: type correctness and, as long  *)
(* as no worker has read its work item too late, that every allocated      *)
(* context is in one place, and that the socket of a context stays the     *)
(* connection the context was created for.                                 *)
(***************************************************************************)
EXTENDS Win9xServer, ListFacts

(* Where the contexts are: each thread has one exactly in some states, the *)
(* items on the queue hold the others, and nothing is allocated but these. *)
(* A worker that is to read its item, or has read another's there, has the *)
(* context it dequeued.  That it ends astray takes it away from nobody: it *)
(* is what it would do next that the model leaves out.                     *)
Waiting == [i \in 1 .. Len(queue) |-> item[queue[i]]]
Serving == {"read", "astray", "recv", "head", "chunk", "close", "free"}
Carrying == {"queue", "submit", "refuse", "drop"}
HeldNow == {held[w] : w \in Workers} \ {NoCtx}

Placed ==
    /\ \A w \in Workers : held[w] # NoCtx <=> pc[w] \in Serving
    /\ lctx # NoCtx <=> listener \in Carrying
    /\ IsInjective(queue)
    /\ Waiting \in Seq(Ctxs) /\ IsInjective(Waiting)
    /\ \A v, w \in Workers : held[v] = held[w] /\ held[v] # NoCtx => v = w
    /\ \A w \in Workers : held[w] \notin Range(Waiting) /\ (held[w] = lctx => lctx = NoCtx)
    /\ lctx \notin Range(Waiting)
    /\ live = Range(Waiting) \cup HeldNow \cup ({lctx} \ {NoCtx})

(* The contexts whose socket has not been closed, and their sockets.  The  *)
(* listener's csocket is nobody else's from accept to the second close.    *)
Owning == {x \in live : ~Closing(x)}
Owns(x, h) == handle[x] = h /\ serves[x] = sock[h]

Sockets ==
    /\ \A x \in Owning : handle[x] \in Handles /\ serves[x] \in Conns
    /\ \A x, y \in Owning : handle[x] = handle[y] => x = y
    /\ listener # "exited" => \A x \in Owning : sock[handle[x]] = serves[x]
    /\ listener = "exited" => \A h \in Handles : sock[h] = Nothing
    /\ \A h \in Handles : sock[h] \in Conns =>
          (listener = "create" /\ csocket = h) \/ \E x \in Owning : Owns(x, h)
    /\ listener = "create" => /\ csocket \in Handles /\ sock[csocket] \in Conns
                              /\ \A x \in Owning : handle[x] # csocket
    /\ listener \in {"queue", "submit", "refuse"} => handle[lctx] = csocket
    /\ listener \in {"drop", "again"} => csocket \in Handles /\ sock[csocket] = Nothing

IInv == TypeOK /\ Placed /\ Sockets

LEMMA Constants == /\ Capacity \in Nat \ {0} /\ MaxConns \in Nat /\ MaxChunks \in Nat
                   /\ NoCtx \notin Ctxs /\ NoHandle \notin Handles /\ Nothing \notin Conns
BY Win9xAssumption DEF Conns, Nothing
-----------------------------------------------------------------------------
(* Types, in four parts: every step leaves most of them alone.             *)
PoolTypes == /\ queue \in Seq(Slots) /\ Len(queue) <= Capacity
             /\ item \in [Slots -> Ctxs \cup {NoCtx}]
             /\ slot \in [Workers -> Slots]
             /\ held \in [Workers -> Ctxs \cup {NoCtx}]
SockTypes == /\ sock \in [Handles -> 0 .. MaxConns]
             /\ client \in [Conns -> {"away", "backlog", "sending", "sent", "stalled", "gone"}]
CtxTypes  == /\ live \subseteq Ctxs
             /\ handle \in [Ctxs -> Handles \cup {NoHandle}]
             /\ serves \in [Ctxs -> 0 .. MaxConns]
RestTypes ==
    /\ running \in BOOLEAN /\ shut \in BOOLEAN
    /\ ssocket \in {"none", "open", "closed"}
    /\ listener \in {"make", "check", "accept", "create", "queue", "submit", "refuse", "drop",
                     "again", "exit", "cleanup", "exited"}
    /\ csocket \in Handles \cup {NoHandle} /\ lctx \in Ctxs \cup {NoCtx}
    /\ pc \in [Workers -> {"loop", "wait", "read", "astray", "recv", "head", "chunk", "close",
                           "free", "exited"}]
    /\ left \in [Workers -> 0 .. MaxChunks]
    /\ gui \in {"start", "up", "flag", "join", "socket", "done"}

LEMMA Parts == /\ TypeOK <=> PoolTypes /\ SockTypes /\ CtxTypes /\ RestTypes
               /\ TypeOK' <=> PoolTypes' /\ SockTypes' /\ CtxTypes' /\ RestTypes'
BY DEF TypeOK, PoolTypes, SockTypes, CtxTypes, RestTypes

LEMMA ClosedTypes == ASSUME SockTypes, NEW H, Close(H) PROVE SockTypes'
BY Constants DEF SockTypes, Close, Closed, Nothing

LEMMA SentTypes == ASSUME SockTypes, NEW w, Sent(w), UNCHANGED sock PROVE SockTypes'
BY DEF SockTypes, Sent

LEMMA FreedTypes == ASSUME CtxTypes, NEW x, Free(x) PROVE CtxTypes'
<1>1. Nothing \in 0 .. MaxConns
  BY Constants DEF Nothing
<1>2. handle' \in [Ctxs -> Handles \cup {NoHandle}]
  BY DEF CtxTypes, Free
<1>3. serves' \in [Ctxs -> 0 .. MaxConns]
  BY <1>1 DEF CtxTypes, Free
<1> QED BY <1>2, <1>3 DEF CtxTypes, Free

LEMMA GotoTypes ==
  ASSUME RestTypes, NEW w, pc' \in [Workers -> {"loop", "wait", "read", "astray", "recv",
                                                "head", "chunk", "close", "free", "exited"}],
         left' \in [Workers -> 0 .. MaxChunks],
         UNCHANGED <<running, shut, ssocket, lstVars, gui>>
  PROVE  RestTypes'
BY DEF RestTypes, lstVars

LEMMA ListenerTyping == ASSUME TypeOK, Placed, Sockets, ListenerStep PROVE TypeOK'
<1> USE Parts
<1>1. ASSUME NEW c \in Conns, NEW h \in Handles, Accept(c, h) PROVE TypeOK'
  <2>1. SockTypes'
    BY <1>1 DEF Accept, SockTypes, Conns
  <2> QED BY <1>1, <2>1 DEF Accept, PoolTypes, CtxTypes, RestTypes, poolVars, ctxVars, wrkVars
<1>2. ASSUME NEW x \in Ctxs, CreateContext(x) PROVE TypeOK'
  <2>1. CtxTypes'
    BY <1>2 DEF CreateContext, CtxTypes, SockTypes, RestTypes, Sockets
  <2> QED BY <1>2, <2>1 DEF CreateContext, PoolTypes, SockTypes, RestTypes, poolVars, wrkVars
<1>3. CASE MakeSocket \/ Check \/ AcceptError \/ Queue \/ SubmitFails \/ ListenerExit
  BY <1>3 DEF MakeSocket, Check, AcceptError, Queue, SubmitFails, ListenerExit, PoolTypes,
              SockTypes, CtxTypes, RestTypes, poolVars, ctxVars, wrkVars
<1>4. CASE CreateFails \/ Refuse \/ CloseAgain \/ Cleanup
  <2>1. SockTypes'
    BY <1>4, ClosedTypes DEF CreateFails, Refuse, CloseAgain, Cleanup
  <2> QED BY <1>4, <2>1 DEF CreateFails, Refuse, CloseAgain, Cleanup, PoolTypes, CtxTypes,
                            RestTypes, poolVars, ctxVars, wrkVars
<1>5. ASSUME NEW s \in Slots, Submit(s) PROVE TypeOK'
  <2>1. PoolTypes'
    <3>1. lctx \in Ctxs /\ s \notin Range(queue)
      BY <1>5 DEF Submit, FreeItems, Placed, Carrying, RestTypes
    <3>2. queue' \in Seq(Slots) /\ IsInjective(queue')
      BY <1>5, <3>1, AppendRange DEF Submit, PoolTypes, Placed
    <3>3. Len(queue') <= Capacity
      BY <3>2, InjectiveLen, Constants DEF Slots
    <3> QED BY <1>5, <3>1, <3>2, <3>3 DEF Submit, PoolTypes
  <2> QED BY <1>5, <2>1 DEF Submit, SockTypes, CtxTypes, RestTypes, ctxVars, wrkVars
<1>6. CASE Drop
  <2>1. CtxTypes'
    BY <1>6, FreedTypes DEF Drop
  <2> QED BY <1>6, <2>1 DEF Drop, PoolTypes, SockTypes, RestTypes, poolVars, wrkVars
<1> QED BY <1>1, <1>2, <1>3, <1>4, <1>5, <1>6 DEF ListenerStep

LEMMA WorkerTyping ==
  ASSUME TypeOK, NEW w \in Workers, WorkerStep(w)
  PROVE  TypeOK'
<1> USE Parts DEF Goto
<1>1. CASE WorkerLoop(w) \/ WorkerRead(w) \/ WorkerEvent(w) \/ Recv(w) \/ StreamEnds(w)
  BY <1>1, GotoTypes DEF WorkerLoop, WorkerRead, WorkerEvent, Recv, StreamEnds, PoolTypes, SockTypes,
                         CtxTypes, RestTypes, poolVars, ctxVars
<1>2. CASE WorkerTake(w)
  <2>1. PoolTypes'
    <3>1. Head(queue) \in Slots /\ Tail(queue) \in Seq(Slots) /\ Len(Tail(queue)) <= Capacity
      BY <1>2, TailRange, LenProperties, Constants DEF WorkerTake, PoolTypes
    <3> QED BY <1>2, <3>1 DEF WorkerTake, PoolTypes
  <2>2. RestTypes'
    BY <1>2, GotoTypes DEF WorkerTake, RestTypes
  <2> QED BY <1>2, <2>1, <2>2 DEF WorkerTake, SockTypes, CtxTypes, ctxVars
<1>3. ASSUME NEW n \in 0 .. MaxChunks, SendHead(w, n) PROVE TypeOK'
  <2>1. RestTypes'
    BY <1>3, GotoTypes DEF SendHead, RestTypes
  <2>2. SockTypes'
    BY <1>3, SentTypes DEF SendHead
  <2> QED BY <1>3, <2>1, <2>2 DEF SendHead, PoolTypes, CtxTypes, poolVars, ctxVars
<1>4. CASE SendChunk(w)
  <2>1. left[w] - 1 \in 0 .. MaxChunks
    BY <1>4, Constants DEF SendChunk, RestTypes
  <2>2. RestTypes'
    BY <1>4, <2>1, GotoTypes DEF SendChunk, LeftAfter, RestTypes
  <2>3. SockTypes'
    BY <1>4, SentTypes DEF SendChunk
  <2> QED BY <1>4, <2>2, <2>3 DEF SendChunk, PoolTypes, CtxTypes, poolVars, ctxVars
<1>5. CASE CloseSocket(w)
  <2>1. RestTypes'
    BY <1>5, GotoTypes, Constants DEF CloseSocket, AfterClose, RestTypes
  <2> QED BY <1>5, <2>1, ClosedTypes DEF CloseSocket, PoolTypes, CtxTypes, poolVars, ctxVars
<1>6. CASE FreeContext(w)
  <2>1. RestTypes'
    BY <1>6, GotoTypes DEF FreeContext, RestTypes
  <2>2. PoolTypes'
    BY <1>6 DEF FreeContext, PoolTypes
  <2> QED BY <1>6, <2>1, <2>2, FreedTypes DEF FreeContext, SockTypes
<1> QED BY <1>1, <1>2, <1>3, <1>4, <1>5, <1>6 DEF WorkerStep

LEMMA TypingStep == ASSUME IInv, [Next]_vars PROVE TypeOK'
<1> USE DEF IInv
<1>1. CASE UNCHANGED vars
  BY <1>1 DEF vars, poolVars, ctxVars, lstVars, wrkVars, TypeOK
<1>2. CASE ListenerStep
  BY <1>2, ListenerTyping
<1>3. CASE StopServer \/ StopStep
  <2>1. PoolTypes' /\ SockTypes' /\ CtxTypes'
    BY <1>3, Parts DEF StopServer, StopStep, ShutPool, JoinWorkers, CloseListening, PoolTypes,
                       SockTypes, CtxTypes, poolVars, ctxVars
  <2>2. RestTypes'
    BY <1>3, Parts DEF StopServer, StopStep, ShutPool, JoinWorkers, CloseListening, RestTypes,
                       lstVars, wrkVars
  <2> QED BY <2>1, <2>2, Parts
<1>4. ASSUME NEW w \in Workers, WorkerStep(w) PROVE TypeOK'
  BY <1>4, WorkerTyping
<1>5. ASSUME NEW c \in Conns, ClientStep(c) PROVE TypeOK'
  <2>1. SockTypes'
    BY <1>5, Parts DEF ClientStep, Connect, SendRequest, Read, Leave, Become, SockTypes
  <2>2. PoolTypes' /\ CtxTypes' /\ RestTypes'
    BY <1>5, Parts DEF ClientStep, Connect, SendRequest, Read, Leave, Become, PoolTypes, CtxTypes,
                       RestTypes, poolVars, ctxVars, lstVars, wrkVars
  <2> QED BY <2>1, <2>2, Parts
<1> QED BY <1>1, <1>2, <1>3, <1>4, <1>5 DEF Next, Terminated
-----------------------------------------------------------------------------
(* Places.  Most steps move no context; five do.                           *)
LEMMA StayPlaced ==
  ASSUME Placed, UNCHANGED <<queue, item, held, lctx, live>>,
         listener' \in Carrying <=> listener \in Carrying,
         \A w \in Workers : pc'[w] \in Serving <=> pc[w] \in Serving
  PROVE  Placed'
<1>1. HeldNow' = HeldNow /\ Waiting' = Waiting
  BY DEF HeldNow, Waiting
<1> QED BY <1>1 DEF Placed

LEMMA SameList ==
  ASSUME NEW S, NEW q \in Seq(S), NEW f, DOMAIN f = 1 .. Len(q), f = [i \in DOMAIN f |-> f[i]],
         \A i \in 1 .. Len(q) : q[i] = f[i]
  PROVE  q = f
BY LenProperties

LEMMA WaitingCtxs == ASSUME Placed PROVE Range(Waiting) \subseteq Ctxs /\ NoCtx \notin Range(Waiting)
<1>1. \A i \in DOMAIN Waiting : Waiting[i] \in Ctxs
  BY ElementOfSeq, LenProperties DEF Placed
<1> QED BY <1>1, Constants DEF Range

LEMMA CreatePlaced ==
  ASSUME TypeOK, Placed, NEW x \in Ctxs, CreateContext(x)
  PROVE  Placed'
<1>1. /\ x \notin live /\ live' = live \cup {x} /\ lctx' = x /\ listener' = "queue"
      /\ lctx = NoCtx /\ UNCHANGED <<queue, item, held, pc>> /\ x # NoCtx
  BY Constants DEF CreateContext, Placed, Carrying, poolVars, wrkVars
<1>2. HeldNow' = HeldNow /\ Waiting' = Waiting
  BY <1>1 DEF HeldNow, Waiting
<1>3. \A w \in Workers : held[w] # x
  BY <1>1 DEF Placed, HeldNow
<1> QED BY <1>1, <1>2, <1>3, Constants DEF Placed, Carrying

(* The item that is filled is not on the queue, so that the contexts there *)
(* stay as they are and the new one comes last.                            *)
LEMMA SubmitPlaced ==
  ASSUME TypeOK, Placed, NEW s \in Slots, Submit(s)
  PROVE  Placed'
<1>1. /\ queue' = Append(queue, s) /\ item' = [item EXCEPT ![s] = lctx]
      /\ lctx' = NoCtx /\ listener' = "check" /\ s \notin Range(queue)
      /\ lctx \in Ctxs /\ lctx # NoCtx /\ UNCHANGED <<held, live, pc>>
  BY Constants DEF Submit, FreeItems, Placed, Carrying, TypeOK, ctxVars, wrkVars
<1>2. queue' \in Seq(Slots) /\ IsInjective(queue')
  BY <1>1, AppendRange DEF Placed, TypeOK
<1>3. Waiting' = Append(Waiting, lctx)
  <2>1. /\ Len(queue') = Len(queue) + 1 /\ Len(queue) \in Nat
        /\ queue'[Len(queue) + 1] = s
        /\ \A i \in 1 .. Len(queue) : queue'[i] = queue[i] /\ queue[i] # s
                                      /\ queue[i] \in Slots
    BY <1>1, AppendProperties, LenProperties, ElementOfSeq DEF TypeOK, Range
  <2>2. item'[s] = lctx /\ \A t \in Slots : t # s => item'[t] = item[t]
    BY <1>1 DEF TypeOK
  <2>3. /\ Len(Waiting) = Len(queue)
        /\ \A i \in 1 .. Len(queue) : Waiting[i] = item[queue[i]]
    BY <2>1, LenProperties DEF Waiting, Placed
  <2>4. /\ Append(Waiting, lctx) \in Seq(Ctxs)
        /\ Len(Append(Waiting, lctx)) = Len(queue) + 1
        /\ \A i \in 1 .. Len(queue) : Append(Waiting, lctx)[i] = item'[queue'[i]]
        /\ Append(Waiting, lctx)[Len(queue) + 1] = item'[queue'[Len(queue) + 1]]
    BY <1>1, <2>1, <2>2, <2>3, AppendProperties DEF Placed
  <2>5. /\ Append(Waiting, lctx) \in Seq(Ctxs)
        /\ Len(Append(Waiting, lctx)) = Len(queue')
        /\ \A i \in 1 .. Len(queue') : Append(Waiting, lctx)[i] = item'[queue'[i]]
    BY <2>1, <2>4
  <2>6. /\ DOMAIN Waiting' = 1 .. Len(queue') /\ Waiting' = [i \in DOMAIN Waiting' |-> Waiting'[i]]
        /\ \A i \in 1 .. Len(queue') : Waiting'[i] = item'[queue'[i]]
    BY DEF Waiting
  <2> QED BY <2>5, <2>6, SameList
<1>4. /\ Waiting' \in Seq(Ctxs) /\ IsInjective(Waiting')
      /\ Range(Waiting') = Range(Waiting) \cup {lctx}
  BY <1>1, <1>3, AppendRange DEF Placed
<1>5. HeldNow' = HeldNow
  BY <1>1 DEF HeldNow
<1>6. NoCtx \notin Range(Waiting')
  <2>1. Range(Waiting) \subseteq Ctxs
    BY WaitingCtxs
  <2> QED BY <1>1, <1>4, <2>1, Constants
<1> QED BY <1>1, <1>2, <1>4, <1>5, <1>6 DEF Placed, Carrying

LEMMA DropPlaced == ASSUME TypeOK, Placed, Drop PROVE Placed'
<1>1. /\ live' = live \ {lctx} /\ lctx' = NoCtx /\ listener' = "again" /\ lctx # NoCtx
      /\ UNCHANGED <<queue, item, held, pc>>
  BY DEF Drop, Free, Placed, Carrying, poolVars, wrkVars
<1>2. HeldNow' = HeldNow /\ Waiting' = Waiting
  BY <1>1 DEF HeldNow, Waiting
<1>3. NoCtx \notin Range(Waiting)
  BY WaitingCtxs
<1>4. \A w \in Workers : held[w] # lctx
  BY <1>1 DEF Placed
<1>5. live' = Range(Waiting) \cup HeldNow
  BY <1>1, <1>4 DEF Placed, HeldNow
<1> QED BY <1>1, <1>2, <1>3, <1>5 DEF Placed, Carrying

LEMMA TakePlaced ==
  ASSUME TypeOK, Placed, NEW w \in Workers, WorkerTake(w)
  PROVE  Placed'
<1> DEFINE x == item[Head(queue)]
<1>1. /\ queue # <<>> /\ held[w] = NoCtx /\ held' = [held EXCEPT ![w] = x]
      /\ queue' = Tail(queue) /\ pc' = [pc EXCEPT ![w] = "read"]
      /\ UNCHANGED <<item, listener, lctx, live>>
  BY DEF WorkerTake, Placed, Serving, Goto, ctxVars, lstVars
<1>2. IsInjective(queue')
  BY <1>1, TailRange DEF TypeOK, Placed
<1>3. Waiting # <<>> /\ Head(Waiting) = x /\ Waiting' = Tail(Waiting)
  <2>1. /\ Len(queue) \in Nat \ {0} /\ Len(queue') = Len(queue) - 1
        /\ \A i \in 1 .. Len(queue) - 1 : queue'[i] = queue[i + 1]
        /\ queue[1] = Head(queue)
    BY <1>1, HeadTailProperties, EmptySeq, LenProperties DEF TypeOK
  <2>2. /\ Len(Waiting) = Len(queue)
        /\ \A i \in 1 .. Len(queue) : Waiting[i] = item[queue[i]]
    BY <2>1, LenProperties DEF Waiting, Placed
  <2>3. Waiting # <<>> /\ Head(Waiting) = Waiting[1]
    BY <2>1, <2>2, EmptySeq DEF Placed
  <2>4. /\ Tail(Waiting) \in Seq(Ctxs)
        /\ Len(Tail(Waiting)) = Len(queue')
        /\ \A i \in 1 .. Len(queue') : Tail(Waiting)[i] = Waiting[i + 1]
    BY <2>1, <2>2, <2>3, HeadTailProperties DEF Placed
  <2>5. \A i \in 1 .. Len(queue') : Tail(Waiting)[i] = item'[queue'[i]]
    BY <1>1, <2>1, <2>2, <2>4
  <2>6. /\ DOMAIN Waiting' = 1 .. Len(queue') /\ Waiting' = [i \in DOMAIN Waiting' |-> Waiting'[i]]
        /\ \A i \in 1 .. Len(queue') : Waiting'[i] = item'[queue'[i]]
    BY DEF Waiting
  <2>7. Waiting' = Tail(Waiting)
    BY <2>4, <2>5, <2>6, SameList
  <2> QED BY <2>1, <2>2, <2>3, <2>7
<1>4. /\ Range(Waiting) = Range(Waiting') \cup {x} /\ x \in Ctxs
      /\ Waiting' \in Seq(Ctxs)
      /\ IsInjective(Waiting') /\ x \notin Range(Waiting')
  BY <1>3, TailRange DEF Placed
<1> HIDE DEF x
<1>5. held'[w] = x /\ \A v \in Workers : v # w => held'[v] = held[v] /\ held[v] # x
  BY <1>1, <1>4 DEF TypeOK, Placed
<1>6. x # lctx /\ x # NoCtx
  BY <1>4, Constants DEF Placed
<1>7. HeldNow' = HeldNow \cup {x}
  <2>1. \A y \in HeldNow' : y = x \/ y \in HeldNow
    BY <1>5 DEF HeldNow
  <2>2. \A y \in HeldNow : y \in HeldNow'
    BY <1>1, <1>5 DEF HeldNow
  <2>3. x \in HeldNow'
    BY <1>5, <1>6 DEF HeldNow
  <2> QED BY <2>1, <2>2, <2>3
<1>8. \A v \in Workers : held'[v] # NoCtx <=> pc'[v] \in Serving
  BY <1>1, <1>5, <1>6 DEF Placed, Serving, TypeOK
<1>9. \A v \in Workers : held'[v] \notin Range(Waiting') /\ (held'[v] = lctx => lctx = NoCtx)
  BY <1>4, <1>5, <1>6 DEF Placed
<1>10. \A u, v \in Workers : held'[u] = held'[v] /\ held'[u] # NoCtx => u = v
  BY <1>5 DEF Placed
<1> QED BY <1>1, <1>2, <1>4, <1>7, <1>8, <1>9, <1>10 DEF Placed

LEMMA FreePlaced ==
  ASSUME TypeOK, Placed, NEW w \in Workers, FreeContext(w)
  PROVE  Placed'
<1>1. /\ held[w] # NoCtx /\ held' = [held EXCEPT ![w] = NoCtx] /\ live' = live \ {held[w]}
      /\ pc' = [pc EXCEPT ![w] = "loop"] /\ UNCHANGED <<queue, item, listener, lctx>>
  BY DEF FreeContext, Free, Placed, Serving, Goto, lstVars
<1>2. /\ held'[w] = NoCtx
      /\ \A v \in Workers : v # w => held'[v] = held[v] /\ held[v] # held[w]
  BY <1>1 DEF TypeOK, Placed
<1>3. NoCtx \notin Range(Waiting) /\ Waiting' = Waiting
  BY <1>1, WaitingCtxs DEF Waiting
<1>4. HeldNow' = HeldNow \ {held[w]}
  BY <1>1, <1>2 DEF HeldNow
<1>5. \A v \in Workers : held'[v] # NoCtx <=> pc'[v] \in Serving
  BY <1>1, <1>2 DEF Placed, Serving, TypeOK
<1>6. \A v \in Workers : held'[v] \notin Range(Waiting') /\ (held'[v] = lctx => lctx = NoCtx)
  BY <1>1, <1>2, <1>3 DEF Placed
<1>7. live' = Range(Waiting) \cup HeldNow' \cup ({lctx} \ {NoCtx})
  BY <1>1, <1>4 DEF Placed
<1>8. \A u, v \in Workers : held'[u] = held'[v] /\ held'[u] # NoCtx => u = v
  BY <1>2 DEF Placed
<1> QED BY <1>1, <1>3, <1>5, <1>6, <1>7, <1>8 DEF Placed

LEMMA PlacedStep == ASSUME TypeOK, Placed, [Next]_vars PROVE Placed'
<1>1. CASE UNCHANGED vars
  BY <1>1, StayPlaced DEF vars, poolVars, ctxVars, lstVars, wrkVars
<1>2. ASSUME NEW c \in Conns, NEW h \in Handles, Accept(c, h) PROVE Placed'
  BY <1>2, StayPlaced DEF Accept, Carrying, poolVars, ctxVars, wrkVars
<1>3. CASE MakeSocket \/ Check \/ AcceptError \/ CreateFails \/ CloseAgain \/ ListenerExit
           \/ Cleanup
  BY <1>3, StayPlaced DEF MakeSocket, Check, AcceptError, CreateFails, CloseAgain,
                          ListenerExit, Cleanup, Carrying, poolVars, ctxVars, wrkVars
<1>4. CASE Queue \/ SubmitFails \/ Refuse
  BY <1>4, StayPlaced DEF Queue, SubmitFails, Refuse, Carrying, poolVars, ctxVars, wrkVars
<1>5. CASE ListenerStep
  BY <1>2, <1>3, <1>4, <1>5, CreatePlaced, SubmitPlaced, DropPlaced DEF ListenerStep
<1>6. CASE StopServer \/ StopStep
  BY <1>6, StayPlaced DEF StopServer, StopStep, ShutPool, JoinWorkers, CloseListening,
                          poolVars, ctxVars, lstVars, wrkVars
<1>7. ASSUME NEW w \in Workers, WorkerStep(w) PROVE Placed'
  <2>1. CASE WorkerTake(w) \/ FreeContext(w)
    BY <2>1, TakePlaced, FreePlaced
  <2>2. CASE WorkerLoop(w) \/ WorkerRead(w) \/ WorkerEvent(w)
    BY <2>2, StayPlaced
       DEF WorkerLoop, WorkerRead, WorkerEvent, Goto, Serving, TypeOK, poolVars, ctxVars, lstVars
  <2>3. CASE Recv(w) \/ SendChunk(w) \/ StreamEnds(w) \/ CloseSocket(w)
    BY <2>3, StayPlaced DEF Recv, SendChunk, StreamEnds, CloseSocket, AfterClose, Goto,
                            Serving, TypeOK, poolVars, ctxVars, lstVars
  <2>4. ASSUME NEW n \in 0 .. MaxChunks, SendHead(w, n) PROVE Placed'
    BY <2>4, StayPlaced DEF SendHead, Goto, Serving, TypeOK, poolVars, ctxVars, lstVars
  <2> QED BY <1>7, <2>1, <2>2, <2>3, <2>4 DEF WorkerStep
<1>8. ASSUME NEW c \in Conns, ClientStep(c) PROVE Placed'
  BY <1>8, StayPlaced DEF ClientStep, Connect, SendRequest, Read, Leave, Become, poolVars, ctxVars,
                          lstVars, wrkVars
<1> QED BY <1>1, <1>5, <1>6, <1>7, <1>8 DEF Next, Terminated
-----------------------------------------------------------------------------
(* Sockets.  A step that touches no socket, and no context whose socket is *)
(* open, keeps them; the listener may then only go on with its csocket.    *)
LEMMA OwningParts ==
  /\ \A x : x \in Owning <=> /\ x \in live /\ ~(listener = "drop" /\ lctx = x)
                             /\ \A w \in Workers : ~(held[w] = x /\ pc[w] = "free")
  /\ \A x : x \in Owning' <=> /\ x \in live' /\ ~(listener' = "drop" /\ lctx' = x)
                              /\ \A w \in Workers : ~(held'[w] = x /\ pc'[w] = "free")
BY DEF Owning, Closing

LEMMA ListenersOwn ==
  ASSUME Placed, lctx # NoCtx
  PROVE  lctx \in live /\ (listener # "drop" => lctx \in Owning)
BY OwningParts DEF Placed

GoesOn ==
    /\ listener' = "exited" <=> listener = "exited"
    /\ listener' = "create" => listener = "create" /\ csocket' = csocket
    /\ listener' \in {"queue", "submit", "refuse"} =>
          /\ listener \in {"queue", "submit", "refuse"}
          /\ lctx' = lctx /\ csocket' = csocket
    /\ listener' \in {"drop", "again"} => listener \in {"drop", "again"} /\ csocket' = csocket

LEMMA StaySockets ==
  ASSUME Placed, Sockets, GoesOn, UNCHANGED sock, Owning' = Owning,
         \A x \in Owning : handle'[x] = handle[x] /\ serves'[x] = serves[x],
         listener = "create" => listener' = "create"
  PROVE  Sockets'
<1>1. \A h : \A x \in Owning' : Owns(x, h)' <=> Owns(x, h)
  BY DEF Owns
<1>2. listener' \in {"queue", "submit", "refuse"} => lctx \in Owning
  BY ListenersOwn DEF GoesOn, Placed, Carrying
<1> QED BY <1>1, <1>2 DEF Sockets, GoesOn

(* closesocket, of the handle of a context that ends or of the listener's. *)
LEMMA CloseSockets ==
  ASSUME TypeOK, Placed, Sockets, NEW h \in Handles, sock' = Closed({h}),
         UNCHANGED <<handle, serves>>,
         Owning' \subseteq Owning, \A x \in Owning' : handle[x] # h,
         \A x \in Owning \ Owning' : handle[x] = h,
         listener = "create" => listener' = "create" \/ csocket = h,
         \/ GoesOn
         \/ /\ listener = "refuse" /\ listener' = "drop"
            /\ csocket' = csocket /\ csocket = h,
         listener' = "create" => csocket # h
  PROVE  Sockets'
<1>1. sock'[h] = Nothing /\ \A k \in Handles : k # h => sock'[k] = sock[k]
  BY DEF Closed
<1>2. \A x \in Owning' : Owns(x, handle[x])' <=> Owns(x, handle[x])
  BY <1>1 DEF Owns, Sockets
<1>3. \A x \in Owning' : sock'[handle[x]] = sock[handle[x]]
  BY <1>1 DEF Sockets
<1>4. ASSUME NEW k \in Handles, sock'[k] \in Conns
      PROVE  (listener' = "create" /\ csocket' = k) \/ \E x \in Owning' : Owns(x, k)'
  <2>1. k # h /\ sock'[k] = sock[k] /\ sock[k] \in Conns
    BY <1>1, <1>4, Constants
  <2>2. CASE listener = "create" /\ csocket = k
    BY <2>1, <2>2 DEF GoesOn
  <2>3. CASE ~(listener = "create" /\ csocket = k)
    <3>1. PICK x \in Owning : Owns(x, k)
      BY <2>1, <2>3 DEF Sockets
    <3>2. x \in Owning'
      BY <2>1, <3>1 DEF Owns
    <3> QED BY <2>1, <3>1, <3>2 DEF Owns
  <2> QED BY <2>2, <2>3
<1>5. listener' = "create" => /\ csocket' \in Handles /\ sock'[csocket'] \in Conns
                              /\ \A x \in Owning' : handle'[x] # csocket'
  BY <1>1 DEF Sockets, GoesOn
<1>6. listener' \in {"queue", "submit", "refuse"} => handle'[lctx'] = csocket'
  BY DEF Sockets, GoesOn
<1>7. listener' \in {"drop", "again"} => csocket' \in Handles /\ sock'[csocket'] = Nothing
  BY <1>1 DEF Sockets, GoesOn
<1>8. listener' = "exited" => \A k \in Handles : sock'[k] = Nothing
  BY <1>1 DEF Sockets, GoesOn
<1>9. listener' # "exited" => \A x \in Owning' : sock'[handle'[x]] = serves'[x]
  BY <1>3 DEF Sockets, GoesOn
<1> QED BY <1>4, <1>5, <1>6, <1>7, <1>8, <1>9 DEF Sockets

LEMMA AcceptSockets ==
  ASSUME TypeOK, Placed, Sockets, NEW c \in Conns, NEW h \in Handles, Accept(c, h)
  PROVE  Sockets'
<1>1. /\ listener = "accept" /\ sock[h] = Nothing /\ sock' = [sock EXCEPT ![h] = c]
      /\ csocket' = h /\ listener' = "create" /\ UNCHANGED <<handle, serves>>
      /\ UNCHANGED <<live, lctx, held, pc>>
  BY DEF Accept, ctxVars, poolVars, wrkVars
<1>2. Owning' = Owning
  <2>1. \A x : x \in Owning' <=> x \in Owning
    BY <1>1, OwningParts
  <2> QED BY <2>1
<1>3. sock'[h] = c /\ \A k \in Handles : k # h => sock'[k] = sock[k]
  BY <1>1 DEF TypeOK
<1>4. \A x \in Owning : handle[x] # h /\ sock'[handle[x]] = serves[x]
  BY <1>1, <1>3, Constants DEF Sockets
<1>5. ASSUME NEW k \in Handles, k # h, sock'[k] \in Conns PROVE \E x \in Owning' : Owns(x, k)'
  BY <1>1, <1>2, <1>3, <1>5 DEF Sockets, Owns
<1> QED BY <1>1, <1>2, <1>3, <1>4, <1>5 DEF Sockets

LEMMA CreateSockets ==
  ASSUME TypeOK, Placed, Sockets, NEW x \in Ctxs, CreateContext(x)
  PROVE  Sockets'
<1>1. /\ listener = "create" /\ x \notin live /\ live' = live \cup {x}
      /\ handle' = [handle EXCEPT ![x] = csocket]
      /\ serves' = [serves EXCEPT ![x] = sock[csocket]]
      /\ lctx' = x /\ listener' = "queue" /\ UNCHANGED <<sock, csocket, held, pc>>
  BY DEF CreateContext, poolVars, wrkVars
<1>2. Owning' = Owning \cup {x} /\ x \notin Owning
  <2>1. \A w \in Workers : held[w] # x
    BY <1>1, Constants DEF Placed, HeldNow
  <2> QED BY <1>1, <2>1, OwningParts
<1>3. /\ handle'[x] = csocket /\ serves'[x] = sock[csocket]
      /\ \A y \in Owning : handle'[y] = handle[y] /\ serves'[y] = serves[y]
  BY <1>1, <1>2, OwningParts DEF TypeOK
<1>4. /\ csocket \in Handles /\ sock[csocket] \in Conns
      /\ \A y \in Owning : handle[y] # csocket
  BY <1>1 DEF Sockets
<1>5. ASSUME NEW k \in Handles, sock'[k] \in Conns PROVE \E y \in Owning' : Owns(y, k)'
  <2>1. CASE k = csocket
    BY <1>1, <1>2, <1>3, <2>1 DEF Owns
  <2>2. CASE k # csocket
    BY <1>1, <1>2, <1>3, <1>5, <2>2 DEF Sockets, Owns
  <2> QED BY <2>1, <2>2
<1>6. \A y \in Owning' : handle'[y] \in Handles /\ serves'[y] \in Conns
                         /\ sock'[handle'[y]] = serves'[y]
  BY <1>1, <1>2, <1>3, <1>4 DEF Sockets
<1>7. \A y, z \in Owning' : handle'[y] = handle'[z] => y = z
  BY <1>2, <1>3, <1>4 DEF Sockets
<1> QED BY <1>1, <1>3, <1>5, <1>6, <1>7 DEF Sockets

LEMMA ListenerSockets == ASSUME TypeOK, Placed, Sockets, ListenerStep PROVE Sockets'
<1>1. CASE MakeSocket \/ Check \/ AcceptError \/ Queue \/ SubmitFails \/ ListenerExit
  <2>1. /\ UNCHANGED <<sock, live, handle, serves, held, pc, lctx, csocket>>
        /\ listener # "drop" /\ listener' # "drop" /\ GoesOn /\ listener # "create"
    BY <1>1 DEF MakeSocket, Check, AcceptError, Queue, SubmitFails, ListenerExit, GoesOn,
                poolVars, ctxVars, wrkVars
  <2>2. Owning' = Owning
    BY <2>1, OwningParts
  <2> QED BY <2>1, <2>2, StaySockets
<1>2. CASE CreateFails
  <2>1. /\ listener = "create" /\ listener' = "check" /\ sock' = Closed({csocket})
        /\ UNCHANGED <<live, handle, serves, held, pc, lctx>>
    BY <1>2 DEF CreateFails, Close, poolVars, ctxVars, wrkVars
  <2>2. Owning' = Owning
    BY <2>1, OwningParts
  <2>3. csocket \in Handles /\ \A x \in Owning : handle[x] # csocket
    BY <2>1 DEF Sockets
  <2> QED BY <2>1, <2>2, <2>3, CloseSockets DEF GoesOn
<1>3. ASSUME NEW s \in Slots, Submit(s) PROVE Sockets'
  <2>1. /\ listener = "submit" /\ listener' = "check"
        /\ UNCHANGED <<sock, live, handle, serves, held, pc>>
    BY <1>3 DEF Submit, ctxVars, wrkVars
  <2>2. Owning' = Owning
    BY <2>1, OwningParts
  <2> QED BY <2>1, <2>2, StaySockets DEF GoesOn
<1>4. CASE Refuse
  <2>1. /\ listener = "refuse" /\ listener' = "drop" /\ sock' = Closed({csocket})
        /\ UNCHANGED <<live, handle, serves, held, pc, lctx, csocket>>
        /\ handle[lctx] = csocket /\ lctx # NoCtx
    BY <1>4 DEF Refuse, Close, Sockets, Placed, Carrying, poolVars, ctxVars, wrkVars
  <2>2. lctx \in Owning
    BY <2>1, ListenersOwn
  <2>3. Owning' = Owning \ {lctx}
    BY <2>1, OwningParts
  <2>4. csocket \in Handles /\ \A x \in Owning' : handle[x] # csocket
    BY <2>1, <2>2, <2>3 DEF Sockets
  <2> QED BY <2>1, <2>3, <2>4, CloseSockets
<1>5. CASE Drop
  <2>1. /\ listener = "drop" /\ listener' = "again" /\ live' = live \ {lctx}
        /\ UNCHANGED <<sock, held, pc, csocket>>
        /\ \A x \in Ctxs \ {lctx} : handle'[x] = handle[x] /\ serves'[x] = serves[x]
    BY <1>5 DEF Drop, Free, TypeOK, poolVars, wrkVars
  <2>2. Owning' = Owning
    <3>1. \A x : x \in Owning' <=> x \in Owning
      BY <2>1, OwningParts
    <3> QED BY <3>1
  <2>3. Owning \subseteq Ctxs \ {lctx}
    BY <2>1, OwningParts DEF TypeOK
  <2> QED BY <2>1, <2>2, <2>3, StaySockets DEF GoesOn
<1>6. CASE CloseAgain
  <2>1. /\ listener = "again" /\ listener' = "check" /\ sock' = Closed({csocket})
        /\ UNCHANGED <<live, handle, serves, held, pc, lctx>>
    BY <1>6 DEF CloseAgain, Close, poolVars, ctxVars, wrkVars
  <2>2. Owning' = Owning
    BY <2>1, OwningParts
  <2>3. sock' = sock
    BY <2>1 DEF Sockets, Closed, TypeOK
  <2> QED BY <2>1, <2>2, <2>3, StaySockets DEF GoesOn
<1>7. CASE Cleanup
  <2>1. /\ listener = "cleanup" /\ listener' = "exited" /\ \A h \in Handles : sock'[h] = Nothing
        /\ UNCHANGED <<live, handle, serves, held, pc, lctx>>
    BY <1>7 DEF Cleanup, Close, Closed, ClosedByCleanup, poolVars, ctxVars, wrkVars
  <2>2. Owning' = Owning
    BY <2>1, OwningParts
  <2> QED BY <2>1, <2>2, Constants DEF Sockets
<1> QED BY <1>1, <1>2, <1>3, <1>4, <1>5, <1>6, <1>7, AcceptSockets, CreateSockets
        DEF ListenerStep

LEMMA WorkerSockets ==
  ASSUME TypeOK, Placed, Sockets, NEW w \in Workers, WorkerStep(w)
  PROVE  Sockets'
<1>1. CASE WorkerLoop(w) \/ WorkerTake(w) \/ WorkerRead(w) \/ WorkerEvent(w) \/ Recv(w)
           \/ SendChunk(w) \/ StreamEnds(w) \/ \E n \in 0 .. MaxChunks : SendHead(w, n)
  <2>1. UNCHANGED <<sock, live, handle, serves, lstVars>>
    BY <1>1 DEF WorkerLoop, WorkerTake, WorkerRead, WorkerEvent, Recv, SendChunk, StreamEnds,
                SendHead, ctxVars
  <2>2. pc[w] # "free" /\ pc'[w] # "free"
    BY <1>1 DEF WorkerLoop, WorkerTake, WorkerRead, WorkerEvent, Recv, SendChunk, StreamEnds,
                SendHead, Goto, TypeOK
  <2>3. \A v \in Workers : v # w => held'[v] = held[v] /\ pc'[v] = pc[v]
    <3>1. CASE WorkerTake(w)
      BY <3>1 DEF WorkerTake, Goto, TypeOK
    <3> QED BY <1>1, <3>1 DEF WorkerLoop, WorkerRead, WorkerEvent, Recv, SendChunk, StreamEnds, SendHead,
                              Goto, TypeOK, poolVars
  <2>4. Owning' = Owning
    <3>1. ASSUME NEW x
          PROVE  (\E v \in Workers : held'[v] = x /\ pc'[v] = "free")
                   <=> \E v \in Workers : held[v] = x /\ pc[v] = "free"
      BY <2>2, <2>3
    <3>2. \A x : x \in Owning' <=> x \in Owning
      BY <2>1, <3>1, OwningParts DEF lstVars
    <3> QED BY <3>2
  <2> QED BY <2>1, <2>4, StaySockets DEF GoesOn, lstVars
<1>2. CASE CloseSocket(w)
  <2> DEFINE x == held[w]
  <2>1. /\ pc[w] = "close" /\ pc' = [pc EXCEPT ![w] = "free"] /\ sock' = Closed({handle[x]})
        /\ UNCHANGED <<live, handle, serves, held, lstVars>>
    BY <1>2 DEF CloseSocket, Close, AfterClose, Goto, poolVars, ctxVars
  <2>2. x # NoCtx
    BY <2>1 DEF Placed, Serving
  <2>3. x \in live /\ \A v \in Workers : v # w => held[v] # x
    BY <2>2 DEF Placed, HeldNow
  <2>4. x \in Owning
    BY <2>1, <2>2, <2>3, OwningParts DEF Placed
  <2>5. Owning' = Owning \ {x}
    BY <2>1, <2>3, OwningParts DEF TypeOK, lstVars
  <2> HIDE DEF x
  <2>6. handle[x] \in Handles /\ \A y \in Owning' : handle[y] # handle[x]
    BY <2>4, <2>5 DEF Sockets
  <2>7. listener = "create" => csocket # handle[x]
    BY <2>4 DEF Sockets
  <2> QED BY <2>1, <2>5, <2>6, <2>7, CloseSockets DEF GoesOn, lstVars
<1>3. CASE FreeContext(w)
  <2>1. /\ pc[w] = "free" /\ pc' = [pc EXCEPT ![w] = "loop"] /\ live' = live \ {held[w]}
        /\ held' = [held EXCEPT ![w] = NoCtx] /\ UNCHANGED <<sock, lstVars>>
        /\ \A x \in Ctxs \ {held[w]} : handle'[x] = handle[x] /\ serves'[x] = serves[x]
    BY <1>3 DEF FreeContext, Free, Goto, TypeOK
  <2>2. \A v \in Workers : v # w => held'[v] = held[v] /\ pc'[v] = pc[v]
    BY <2>1 DEF TypeOK
  <2>3. held[w] \notin Owning /\ pc'[w] = "loop"
    BY <2>1, OwningParts DEF TypeOK
  <2>4. Owning' = Owning
    <3>1. ASSUME NEW x, x # held[w] PROVE x \in Owning' <=> x \in Owning
      BY <2>1, <2>2, <2>3, <3>1, OwningParts DEF lstVars
    <3>2. held[w] \notin Owning'
      BY <2>1, OwningParts
    <3> QED BY <2>3, <3>1, <3>2
  <2>5. Owning \subseteq Ctxs \ {held[w]}
    BY <2>3, OwningParts DEF TypeOK
  <2> QED BY <2>1, <2>4, <2>5, StaySockets DEF GoesOn, lstVars
<1> QED BY <1>1, <1>2, <1>3 DEF WorkerStep

LEMMA SocketsStep == ASSUME IInv, [Next]_vars PROVE Sockets'
<1> USE DEF IInv
<1>1. CASE UNCHANGED vars
  <2>1. UNCHANGED <<sock, live, handle, serves, held, pc, lstVars>>
    BY <1>1 DEF vars, poolVars, ctxVars, wrkVars
  <2>2. Owning' = Owning
    BY <2>1, OwningParts DEF lstVars
  <2> QED BY <2>1, <2>2, StaySockets DEF GoesOn, lstVars
<1>2. CASE ListenerStep
  BY <1>2, ListenerSockets
<1>3. CASE StopServer \/ StopStep \/ \E c \in Conns : ClientStep(c)
  <2>1. UNCHANGED <<sock, live, handle, serves, held, pc, lstVars>>
    BY <1>3 DEF StopServer, StopStep, ShutPool, JoinWorkers, CloseListening, ClientStep,
                Connect, SendRequest, Read, Leave, Become, poolVars, ctxVars, wrkVars
  <2>2. Owning' = Owning
    BY <2>1, OwningParts DEF lstVars
  <2> QED BY <2>1, <2>2, StaySockets DEF GoesOn, lstVars
<1>4. ASSUME NEW w \in Workers, WorkerStep(w) PROVE Sockets'
  BY <1>4, WorkerSockets
<1> QED BY <1>1, <1>2, <1>3, <1>4 DEF Next, Terminated
-----------------------------------------------------------------------------
(* The invariant, and what follows from it.                                *)
LEMMA Initially == ASSUME Init PROVE IInv
<1>1. /\ queue = <<>> /\ item = [s \in Slots |-> NoCtx] /\ slot = [w \in Workers |-> 0]
      /\ held = [w \in Workers |-> NoCtx]
  BY DEF Init
<1>2. TypeOK
  <2>1. PoolTypes
    BY <1>1, EmptySeq, Constants DEF PoolTypes, Slots
  <2>2. SockTypes /\ CtxTypes
    BY Constants DEF Init, SockTypes, CtxTypes, Nothing
  <2>3. RestTypes
    <3>1. running \in BOOLEAN /\ shut \in BOOLEAN
      BY DEF Init
    <3>2. left \in [Workers -> 0 .. MaxChunks]
      BY Constants DEF Init
    <3>3. pc \in [Workers -> {"loop", "wait", "read", "astray", "recv", "head", "chunk",
                              "close", "free", "exited"}]
      BY DEF Init
    <3> QED BY <3>1, <3>2, <3>3 DEF Init, RestTypes
  <2> QED BY <2>1, <2>2, <2>3, Parts
<1>3. Placed
  <2>1. HeldNow = {} /\ IsInjective(queue)
    BY <1>1 DEF HeldNow, IsInjective
  <2>2. Waiting = <<>>
    BY <1>1, EmptySeq DEF Waiting
  <2>3. Waiting \in Seq(Ctxs) /\ IsInjective(Waiting) /\ Range(Waiting) = {}
    BY <2>2, EmptySeq DEF IsInjective, Range
  <2> QED BY <1>1, <2>1, <2>3 DEF Init, Placed, Serving, Carrying
<1>4. Sockets
  <2>1. Owning = {} /\ \A h \in Handles : sock[h] \notin Conns
    BY Constants DEF Init, Owning
  <2> QED BY <2>1 DEF Init, Sockets
<1> QED BY <1>2, <1>3, <1>4 DEF IInv

LEMMA Invariant == Spec => []IInv
<1>1. IInv /\ [Next]_vars => IInv'
  BY TypingStep, PlacedStep, SocketsStep DEF IInv
<1> QED BY <1>1, Initially, PTL DEF Spec

(* The variables keep their types; the work queue never holds more than    *)
(* MAX_PENDING_WORK, and csocket and client_ctx are valid where the        *)
(* listener uses them.                                                     *)
THEOREM TypeCorrect == Spec => []TypeOK
<1>1. IInv => TypeOK
  BY DEF IInv
<1> QED BY <1>1, Invariant, PTL

LEMMA OnePlace == ASSUME TypeOK, Placed PROVE ContextPlaced
<1> SUFFICES ASSUME NEW x \in Ctxs PROVE Places(x) = (IF x \in live THEN 1 ELSE 0)
  BY DEF ContextPlaced
<1> DEFINE Q == {i \in 1 .. Len(queue) : item[queue[i]] = x}
           W == {w \in Workers : held[w] = x}
           L == IF lctx = x THEN 1 ELSE 0
<1>1. /\ DOMAIN Waiting = 1 .. Len(queue) /\ x # NoCtx
      /\ \A i \in 1 .. Len(queue) : Waiting[i] = item[queue[i]]
  BY Constants DEF Waiting
<1>2. \A i, j \in Q : i = j
  BY <1>1 DEF Placed, IsInjective
<1>3. \A v, w \in W : v = w
  BY <1>1 DEF Placed
<1>4. Q # {} <=> x \in Range(Waiting)
  BY <1>1 DEF Range
<1>5. W # {} <=> x \in HeldNow
  BY <1>1 DEF HeldNow
<1>6. \/ x \notin live /\ Q = {} /\ W = {} /\ lctx # x
      \/ x \in live /\ Q # {} /\ W = {} /\ lctx # x
      \/ x \in live /\ Q = {} /\ W # {} /\ lctx # x
      \/ x \in live /\ Q = {} /\ W = {} /\ lctx = x
  BY <1>1, <1>4, <1>5 DEF Placed
<1>7. Cardinality(Q) = (IF Q = {} THEN 0 ELSE 1) /\ Cardinality(W) = IF W = {} THEN 0 ELSE 1
  BY <1>2, <1>3, AtMostOne
<1>8. Places(x) = Cardinality(Q) + Cardinality(W) + L
  BY DEF Places
<1> HIDE DEF Q, W
<1> QED BY <1>6, <1>7, <1>8

(* As long as no worker has read its work item after the item was used     *)
(* again, a client context that is allocated is with the listener, in the  *)
(* queue or with one worker, and in one of them only, and one that is      *)
(* freed is in none: this read is the only way to a context that is served *)
(* twice, or by nobody.  A context left on the queue of a pool that has    *)
(* been shut down is in its place, and is never served.                    *)
THEOREM ContextsPlaced == Spec => []ContextPlaced
<1>1. IInv => ContextPlaced
  BY OnePlace DEF IInv
<1> QED BY <1>1, Invariant, PTL

(* Until its owner closes it, a context's handle refers to the connection  *)
(* the context was created for, although handles are reused and the        *)
(* listener closes a refused client's socket twice: no step before the     *)
(* first late read of a work item closes or reuses another's handle.       *)
THEOREM ConnectionsOwned == Spec => []OwnConnection
<1>1. IInv => OwnConnection
  BY DEF IInv, Sockets, Owning, OwnConnection
<1> QED BY <1>1, Invariant, PTL

(* Up to the first late read of a work item, no connection is left open    *)
(* with no context to close it, on any path of the listener or of a        *)
(* worker.                                                                 *)
THEOREM SocketsKept == Spec => []NoSocketLost
<1>1. IInv => NoSocketLost
  BY DEF IInv, Sockets, Owning, Owns, NoSocketLost
<1> QED BY <1>1, Invariant, PTL
=============================================================================
