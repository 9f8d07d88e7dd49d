------------------------------ MODULE IocpContexts -----------------------------
(***************************************************************************)
(* More proofs about IocpServer, for every number of workers and contexts  *)
(* and whatever fails: no context leaks but those counted as lost, no more *)
(* accepts are posted than there are workers, and every context goes       *)
(* through the life that Exchange describes.                               *)
(***************************************************************************)
EXTENDS IocpProofs

USE DEF Workers

(* A worker's handler is the one for the operation of its context, and a   *)
(* context that is about to be posted has none yet.                        *)
Stages ==
    /\ \A w \in Workers :
         /\ pc[w] \in {"accept", "acceptRecv"} => op[cur[w]] = "accept"
         /\ pc[w] = "acceptPost" => op[cur[w]] = "none"
         /\ pc[w] \in {"recv", "disconnect"} => op[cur[w]] = "recv"
         /\ pc[w] = "send" => op[cur[w]] = "send"
    /\ listener = "post" => op[lctx] = "none"

(* Owners says that what is owned is allocated; this is the converse.      *)
Owned(x) ==
    \/ x \in inflight \/ Lists(x)
    \/ \E w \in Workers : Handling(w) /\ cur[w] = x
    \/ \E i \in 1 .. Len(port) : port[i].ctx = x

Kept == \A x \in live \ lost : Owned(x)

(* The listener has paid for every accept: one that a worker's handler     *)
(* ends is replaced by one, or by none.                                    *)
Budget == IF listener = "post" THEN posted + 1 ELSE posted

AcceptsWithin ==
    /\ IsFiniteSet(Accepting)
    /\ Cardinality(Accepting) + Cardinality(Replacing) <= Budget

(* Workers that have not been created.                                     *)
Unborn == \A w \in Workers : gui = "init" \/ (gui = "create" /\ w > count) => pc[w] = "off"

CInv == IInv /\ Unborn /\ Stages /\ Kept /\ AcceptsWithin
-----------------------------------------------------------------------------
(* What a step does to contexts: nothing, or one of five moves.  A worker  *)
(* goes on, frees its context, hands it to the kernel, or makes a new one; *)
(* the listener does likewise.                                             *)
Still == UNCHANGED <<live, inflight, lost, op>>

Goes(w) ==
    /\ Still /\ UNCHANGED port
    /\ \E to \in {"exited", "get", "loop", "acceptRecv"} :
          /\ pc' = [pc EXCEPT ![w] = to]
          /\ to = "acceptRecv" <=> Handling(w)
    /\ Handling(w) => pc[w] = "accept"
    /\ \A v \in Workers : v # w => cur'[v] = cur[v]
    /\ Handling(w) => cur'[w] = cur[w]

Frees(w) ==
    /\ Handling(w) /\ Return(w) /\ Freed(cur[w]) /\ live' = live \ {cur[w]}
    /\ UNCHANGED <<inflight, lost, port>>

Posts(w, o, to) ==
    /\ \/ pc[w] = "acceptRecv" /\ o = "recv" /\ to = "acceptNew"
       \/ pc[w] = "acceptPost" /\ o = "accept" /\ to = "loop"
       \/ pc[w] \in {"recv", "send"} /\ o = "send" /\ to = "loop"
    /\ Post(cur[w], o)
    /\ pc' = [pc EXCEPT ![w] = to] /\ cur' = [cur EXCEPT ![w] = NoCtx]
    /\ UNCHANGED <<live, lost, port>>

Creates(w, x) ==
    /\ pc[w] = "acceptNew" /\ Create(x)
    /\ Goto(w, "acceptPost") /\ cur' = [cur EXCEPT ![w] = x]
    /\ UNCHANGED <<inflight, lost, port>>

WorkerMove(w) ==
    \/ Goes(w) \/ Frees(w) \/ WorkerGet(w)
    \/ \E o \in Ops, to \in {"acceptNew", "loop"} : Posts(w, o, to)
    \/ \E x \in Ctxs : Creates(w, x)

LEMMA WorkerMoves ==
  ASSUME TypeOK, NEW w \in Workers, WorkerStep(w)
  PROVE  WorkerMove(w)
<1> USE DEF WorkerMove
<1>1. CASE WorkerLoop(w) \/ WorkerPortClosed(w)
  BY <1>1 DEF WorkerLoop, WorkerPortClosed, Goto, Goes, Still, Handling, Using, ctxVars, portVars
<1>2. CASE WorkerGet(w)
  BY <1>2
<1>3. ASSUME NEW ok \in BOOLEAN, AcceptAssociate(w, ok) PROVE WorkerMove(w)
  <2>1. CASE ok
    BY <1>3, <2>1 DEF AcceptAssociate, Goto, Goes, Still, Handling, Using, portVars
  <2>2. CASE ~ok
    BY <1>3, <2>2 DEF AcceptAssociate, Destroy, Frees, Handling, Using, portVars
  <2> QED BY <2>1, <2>2
<1>4. ASSUME NEW ok \in BOOLEAN, AcceptRecv(w, ok) PROVE WorkerMove(w)
  <2>1. CASE ok
    <3>1. Posts(w, "recv", "acceptNew")
      BY <1>4, <2>1 DEF AcceptRecv, Goto, Posts, portVars
    <3> QED BY <3>1 DEF Ops
  <2>2. CASE ~ok
    BY <1>4, <2>2 DEF AcceptRecv, Destroy, Frees, Handling, Using, portVars
  <2> QED BY <2>1, <2>2
<1>5. ASSUME NEW ok \in BOOLEAN, AcceptPost(w, ok) PROVE WorkerMove(w)
  <2>1. CASE ok /\ ssocket = "open"
    <3>1. Posts(w, "accept", "loop")
      BY <1>5, <2>1 DEF AcceptPost, Return, Goto, Posts, portVars
    <3> QED BY <3>1 DEF Ops
  <2>2. CASE ~(ok /\ ssocket = "open")
    BY <1>5, <2>2 DEF AcceptPost, Destroy, Frees, Handling, Using, portVars
  <2> QED BY <2>1, <2>2
<1>6. ASSUME NEW ok \in BOOLEAN, NEW n \in Bodies, RecvAnswer(w, n, ok) PROVE WorkerMove(w)
  <2>1. CASE ok
    <3>1. Posts(w, "send", "loop")
      BY <1>6, <2>1 DEF RecvAnswer, Return, Goto, Posts, portVars
    <3> QED BY <3>1 DEF Ops
  <2>2. CASE ~ok
    BY <1>6, <2>2 DEF RecvAnswer, Destroy, Frees, Handling, Using, portVars
  <2> QED BY <2>1, <2>2
<1>7. CASE AcceptNew(w)
  <2>1. CASE NoMemory
    <3>1. ~Handling(w) /\ pc' = [pc EXCEPT ![w] = "loop"] /\ Still /\ UNCHANGED port
      BY <1>7, <2>1 DEF AcceptNew, Return, Goto, Still, Handling, Using, portVars
    <3>2. \A v \in Workers : v # w => cur'[v] = cur[v]
      BY <1>7, <2>1 DEF AcceptNew, Return, TypeOK
    <3>3. Goes(w)
      <4>1. \E to \in {"exited", "get", "loop", "acceptRecv"} :
               pc' = [pc EXCEPT ![w] = to] /\ (to = "acceptRecv" <=> Handling(w))
        BY <3>1
      <4> QED BY <3>1, <3>2, <4>1 DEF Goes
    <3> QED BY <3>3
  <2>2. CASE ~NoMemory
    <3>1. PICK x \in Ctxs : /\ Create(x) /\ cur' = [cur EXCEPT ![w] = x]
                            /\ Goto(w, "acceptPost")
      BY <1>7, <2>2 DEF AcceptNew
    <3>2. Creates(w, x)
      BY <1>7, <3>1 DEF AcceptNew, Creates, portVars
    <3> QED BY <3>2
  <2> QED BY <2>1, <2>2
<1>8. CASE RecvDisconnected(w)
  BY <1>8 DEF RecvDisconnected, FreedOnDisconnect, Frees, Handling, Using, portVars
<1>9. CASE SendChunk(w)
  <2>1. Posts(w, "send", "loop")
    BY <1>9 DEF SendChunk, Return, Goto, Posts, portVars
  <2> QED BY <2>1 DEF Ops
<1>10. CASE SendEnd(w)
  BY <1>10 DEF SendEnd, LentAfterEnd, Destroy, Frees, Handling, Using, portVars
<1> QED
  BY <1>1, <1>2, <1>3, <1>4, <1>5, <1>6, <1>7, <1>8, <1>9, <1>10 DEF WorkerStep, Outcomes

LEMMA OwnMoves ==
  ASSUME TypeOK, NEW w \in Workers, WorkerMove(w)
  PROVE  \A v \in Workers : v # w => pc'[v] = pc[v] /\ cur'[v] = cur[v]
BY DEF WorkerMove, Goes, Frees, WorkerGet, Posts, Creates, Return, Goto, TypeOK

(* The same for the listener and for the GUI thread.                       *)
ListenerMove ==
    \/ /\ Still /\ listener # "post" /\ listener' # "post"
       /\ posted' \in {posted, posted + 1}
    \/ \E x \in Ctxs : /\ Create(x) /\ lctx' = x /\ listener' = "post" /\ listener # "post"
                       /\ UNCHANGED <<inflight, lost, posted>>
    \/ /\ listener = "post" /\ listener' = "new" /\ posted' = posted + 1
       /\ \/ Post(lctx, "accept") /\ UNCHANGED <<live, lost>>
          \/ Destroy(lctx) /\ UNCHANGED <<inflight, lost>>

LEMMA ListenerMoves ==
  ASSUME TypeOK, ListenerStep
  PROVE  ListenerMove /\ UNCHANGED <<pc, cur, port, count>> /\ (gui' # gui => gui' = "up")
<1>1. ASSUME NEW ok \in BOOLEAN, ListenerAssociate(ok)
      PROVE  ListenerMove /\ UNCHANGED <<pc, cur, port, count>> /\ (gui' # gui => gui' = "up")
  BY <1>1 DEF ListenerAssociate, ListenerMove, Still, ctxVars, portVars
<1>2. ASSUME NEW ok \in BOOLEAN, ListenerPost(ok)
      PROVE  ListenerMove /\ UNCHANGED <<pc, cur, port, count>> /\ (gui' # gui => gui' = "up")
  BY <1>2 DEF ListenerPost, ListenerMove, portVars, guiVars
<1>3. CASE ListenerNew
  <2>1. listener = "new" /\ UNCHANGED <<pc, cur, port, count, gui, inflight, lost>>
    BY <1>3 DEF ListenerNew, portVars, guiVars
  <2>2. CASE ~MoreAccepts \/ NoMemory
    BY <1>3, <2>1, <2>2 DEF ListenerNew, ListenerMove, Still
  <2>3. CASE MoreAccepts /\ ~NoMemory
    BY <1>3, <2>1, <2>3 DEF ListenerNew, ListenerMove
  <2> QED BY <2>1, <2>2, <2>3
<1>4. CASE ListenerStop \/ Cleanup
  BY <1>4 DEF ListenerStop, Cleanup, ListenerMove, Still, ctxVars, portVars, guiVars
<1> QED BY <1>1, <1>2, <1>3, <1>4 DEF ListenerStep, Outcomes

GuiMove ==
    \/ Still /\ UNCHANGED <<pc, port>>
    \/ /\ Still /\ UNCHANGED port /\ gui = "create"
       /\ count + 1 \in Workers /\ pc' = [pc EXCEPT ![count + 1] = "loop"]
       /\ gui' = "create" => count' = count + 1
    \/ Still /\ UNCHANGED pc /\ port' = Append(port, ShutdownPacket)
    \/ PoolClose

LEMMA GuiMoves ==
  ASSUME TypeOK, Counters, Start \/ StopServer \/ Shutdown
  PROVE  /\ GuiMove /\ UNCHANGED <<cur, lctx, posted>>
         /\ listener' # listener => listener # "post" /\ listener' # "post"
<1> DEFINE P == /\ GuiMove /\ UNCHANGED <<cur, lctx, posted>>
                /\ listener' # listener => listener # "post" /\ listener' # "post"
<1>1. ASSUME NEW ok \in BOOLEAN, InitPort(ok) PROVE P
  BY <1>1 DEF InitPort, GuiMove, Still, ctxVars, lstVars
<1>2. ASSUME NEW ok \in BOOLEAN, CreateWorker(ok) PROVE P
  <2>1. count + 1 \in Workers
    BY <1>2, Constants DEF CreateWorker, Counters, TypeOK
  <2> QED BY <1>2, <2>1, Constants
          DEF CreateWorker, Goto, GuiMove, Still, TypeOK, ctxVars, portVars, lstVars
<1>3. CASE StartListener \/ StopServer \/ PoolFlag \/ PoolJoin \/ CloseSocket
  BY <1>3 DEF StartListener, StopServer, PoolFlag, PoolJoin, CloseSocket, GuiMove, Still,
              ctxVars, portVars, lstVars
<1>4. CASE PoolPost
  BY <1>4 DEF PoolPost, GuiMove, Still, ctxVars, lstVars
<1>5. CASE PoolClose
  BY <1>5 DEF PoolClose, GuiMove, lstVars
<1> QED BY <1>1, <1>2, <1>3, <1>4, <1>5 DEF Start, Shutdown
-----------------------------------------------------------------------------
(* Workers are created in order, and none before its time.                 *)
LEMMA UnbornStep == ASSUME TypeOK, Counters, Unborn, [Next]_vars PROVE Unborn'
<1>1. CASE UNCHANGED vars
  BY <1>1 DEF vars, guiVars, Unborn
<1>2. ASSUME NEW ok \in BOOLEAN, InitPort(ok) PROVE Unborn'
  <2>1. gui = "init" /\ count = 0 /\ UNCHANGED <<pc, count>>
    BY <1>2 DEF InitPort, Counters
  <2> QED BY <2>1 DEF Unborn
<1>3. ASSUME NEW ok \in BOOLEAN, CreateWorker(ok) PROVE Unborn'
  <2>1. CASE ok /\ count + 1 < ThreadCount
    <3>1. /\ gui = "create" /\ gui' = gui /\ count' = count + 1 /\ count \in Nat
          /\ \A v \in Workers : v # count + 1 => pc'[v] = pc[v]
      BY <1>3, <2>1, Constants DEF CreateWorker, Goto, TypeOK
    <3> QED BY <3>1 DEF Unborn
  <2>2. CASE ~(ok /\ count + 1 < ThreadCount)
    BY <1>3, <2>2 DEF CreateWorker, Unborn
  <2> QED BY <2>1, <2>2
<1>4. CASE StartListener
  BY <1>4 DEF StartListener, Unborn, guiVars
<1>5. CASE StopServer \/ Shutdown
  <2>1. gui' \notin {"init", "create"}
    BY <1>5 DEF StopServer, Shutdown, PoolFlag, PoolPost, PoolJoin, PoolClose, CloseSocket
  <2> QED BY <2>1 DEF Unborn
<1>6. CASE ListenerStep
  BY <1>6, ListenerMoves DEF Unborn
<1>7. ASSUME NEW x \in Ctxs, KernelCompletes(x) PROVE Unborn'
  BY <1>7 DEF KernelCompletes, Unborn, guiVars
<1>8. ASSUME NEW w \in Workers, WorkerStep(w) PROVE Unborn'
  <2>1. pc[w] # "off" /\ UNCHANGED guiVars
    BY <1>8 DEF WorkerStep, WorkerLoop, WorkerGet, WorkerPortClosed, AcceptAssociate,
                AcceptRecv, AcceptPost, RecvAnswer, AcceptNew, RecvDisconnected, SendChunk,
                SendEnd
  <2>2. \A v \in Workers : v # w => pc'[v] = pc[v]
    BY <1>8, WorkerMoves, OwnMoves
  <2> QED BY <2>1, <2>2 DEF Unborn, guiVars
<1> QED BY <1>1, <1>2, <1>3, <1>4, <1>5, <1>6, <1>7, <1>8 DEF Next, Start, Terminated
-----------------------------------------------------------------------------
(* A worker's handler stays the one for its context's operation: its own   *)
(* moves see to it, and no move touches what another handles.              *)
StageOf(w) == /\ pc[w] \in {"accept", "acceptRecv"} => op[cur[w]] = "accept"
              /\ pc[w] = "acceptPost" => op[cur[w]] = "none"
              /\ pc[w] \in {"recv", "disconnect"} => op[cur[w]] = "recv"
              /\ pc[w] = "send" => op[cur[w]] = "send"

LEMMA StagesByWorker ==
  /\ Stages <=> (\A w \in Workers : StageOf(w)) /\ (listener = "post" => op[lctx] = "none")
  /\ Stages' <=> (\A w \in Workers : StageOf(w)') /\ (listener' = "post" => op'[lctx'] = "none")
BY DEF Stages, StageOf

LEMMA OthersStay ==
  ASSUME TypeOK, Owners, Stages, NEW w \in Workers, UNCHANGED lstVars,
         \A v \in Workers : v # w => pc'[v] = pc[v] /\ cur'[v] = cur[v],
         NEW x, \A y \in live : y # x => op'[y] = op[y],
         ~Lists(x), \A v \in Workers : Handling(v) /\ v # w => cur[v] # x,
         StageOf(w)'
  PROVE  Stages'
<1>1. ASSUME NEW v \in Workers, v # w PROVE StageOf(v)'
  <2>1. CASE Handling(v)
    <3>1. cur[v] \in live /\ cur[v] # x
      BY <1>1, <2>1 DEF Owners, WorkerOwns, Loose
    <3> QED BY <1>1, <3>1, StagesByWorker DEF StageOf
  <2>2. CASE ~Handling(v)
    BY <1>1, <2>2 DEF StageOf, Handling, Using
  <2> QED BY <2>1, <2>2
<1>2. listener' = "post" => op'[lctx'] = "none"
  BY DEF Owners, ListenerOwns, Loose, Lists, Stages, lstVars
<1> QED BY <1>1, <1>2, StagesByWorker

LEMMA WorkerStages ==
  ASSUME TypeOK, Owners, Stages, NEW w \in Workers, WorkerMove(w), UNCHANGED lstVars
  PROVE  Stages'
<1>1. Handling(w) => /\ cur[w] \in live /\ cur[w] \in Ctxs /\ ~Lists(cur[w])
                     /\ \A v \in Workers : Handling(v) /\ v # w => cur[v] # cur[w]
  BY DEF Owners, WorkerOwns, Loose, TypeOK
<1>2. \A v \in Workers : v # w => pc'[v] = pc[v] /\ cur'[v] = cur[v]
  BY OwnMoves
<1>3. NoCtx \notin live /\ ~Lists(NoCtx)
      /\ \A v \in Workers : Handling(v) => cur[v] # NoCtx
  BY Constants DEF TypeOK, Owners, WorkerOwns, ListenerOwns, Lists, Loose
<1>4. CASE Goes(w)
  <2>1. StageOf(w)'
    BY <1>4, StagesByWorker DEF Goes, Still, StageOf, Handling, Using, TypeOK
  <2> QED BY <1>2, <1>3, <1>4, <2>1, OthersStay DEF Goes, Still
<1>5. CASE Frees(w)
  <2>1. StageOf(w)' /\ \A y \in live : y # cur[w] => op'[y] = op[y]
    BY <1>5 DEF Frees, Freed, Return, Goto, StageOf, TypeOK
  <2> QED BY <1>1, <1>2, <1>5, <2>1, OthersStay DEF Frees
<1>6. CASE WorkerGet(w)
  <2>1. UNCHANGED op /\ Head(port) \in Packet /\ Head(port) = port[1] /\ 1 \in 1 .. Len(port)
    BY <1>6, PacketTaken DEF WorkerGet
  <2>2. StageOf(w)'
    <3>1. CASE Head(port).ctx = NoCtx \/ ~Head(port).ok
      BY <1>6, <3>1 DEF WorkerGet, Goto, StageOf, TypeOK
    <3>2. CASE ~(Head(port).ctx = NoCtx \/ ~Head(port).ok)
      <4> DEFINE y == Head(port).ctx
                 h == Handler(y, Head(port).bytes)
      <4>1. pc'[w] = h /\ cur'[w] = y
        BY <1>6, <3>2 DEF WorkerGet, Goto, TypeOK
      <4>2. op[y] \in Ops
        BY <2>1, <3>2 DEF Owners, PacketOwns, Carries
      <4>3. /\ op[y] = "accept" => h = "accept"
            /\ op[y] = "recv" => h \in {"disconnect", "recv"}
            /\ op[y] = "send" => h = "send"
        BY DEF Handler
      <4> HIDE DEF y, h
      <4> QED BY <2>1, <4>1, <4>2, <4>3 DEF StageOf, Ops
    <3> QED BY <3>1, <3>2
  <2> QED BY <1>2, <1>3, <1>6, <2>1, <2>2, OthersStay
<1>7. ASSUME NEW o \in Ops, NEW to, Posts(w, o, to) PROVE Stages'
  <2>1. Handling(w) /\ to \in {"acceptNew", "loop"} /\ Post(cur[w], o) /\ pc'[w] = to
    BY <1>7 DEF Posts, Handling, Using, TypeOK
  <2>2. StageOf(w)' /\ \A y \in live : y # cur[w] => op'[y] = op[y]
    BY <2>1 DEF Post, Posted, StageOf, TypeOK
  <2> QED BY <1>1, <1>2, <2>1, <2>2, OthersStay
<1>8. ASSUME NEW x \in Ctxs, Creates(w, x) PROVE Stages'
  <2>1. StageOf(w)' /\ x \notin live /\ \A y \in live : y # x => op'[y] = op[y]
    BY <1>8 DEF Creates, Create, Goto, StageOf, TypeOK
  <2>2. ~Lists(x) /\ \A v \in Workers : Handling(v) => cur[v] # x
    BY <2>1 DEF Owners, WorkerOwns, ListenerOwns, Lists, Loose
  <2> QED BY <1>2, <2>1, <2>2, OthersStay
<1> QED BY <1>4, <1>5, <1>6, <1>7, <1>8 DEF WorkerMove

LEMMA ListenerStages ==
  ASSUME TypeOK, Owners, Stages, ListenerMove, UNCHANGED <<pc, cur>>
  PROVE  Stages'
<1>1. \A w \in Workers : Handling(w) => cur[w] \in live /\ cur[w] \in Ctxs /\ ~Lists(cur[w])
  BY DEF Owners, WorkerOwns, Loose, TypeOK
<1>2. (\A w \in Workers : Handling(w) => op'[cur[w]] = op[cur[w]]) => \A w \in Workers : StageOf(w)'
  BY StagesByWorker DEF StageOf, Handling, Using
<1>3. CASE Still /\ listener' # "post"
  BY <1>2, <1>3, StagesByWorker DEF Still
<1>4. ASSUME NEW x \in Ctxs, Create(x), lctx' = x PROVE Stages'
  BY <1>1, <1>2, <1>4, StagesByWorker DEF Create, TypeOK
<1>5. CASE listener = "post" /\ listener' = "new" /\ (Post(lctx, "accept") \/ Destroy(lctx))
  BY <1>1, <1>2, <1>5, StagesByWorker DEF Post, Posted, Destroy, Freed, TypeOK, Lists
<1> QED BY <1>3, <1>4, <1>5 DEF ListenerMove

LEMMA StagesStep ==
  ASSUME IInv, Unborn, Stages, [Next]_vars
  PROVE  Stages'
<1> USE DEF IInv
<1>1. CASE UNCHANGED vars
  BY <1>1 DEF vars, ctxVars, lstVars, Stages
<1>2. CASE Start \/ StopServer \/ Shutdown
  <2>1. /\ GuiMove /\ UNCHANGED <<cur, lctx>>
        /\ listener' # listener => listener # "post" /\ listener' # "post"
    BY <1>2, GuiMoves
  <2>2. UNCHANGED op
    BY <2>1 DEF GuiMove, Still, PoolClose
  <2>3. \A w \in Workers : Handling(w)' => pc'[w] = pc[w]
    BY <2>1 DEF GuiMove, PoolClose, Handling, Using, TypeOK
  <2> QED BY <2>1, <2>2, <2>3 DEF Stages, Handling, Using
<1>3. CASE ListenerStep
  BY <1>3, ListenerMoves, ListenerStages
<1>4. ASSUME NEW x \in Ctxs, KernelCompletes(x) PROVE Stages'
  BY <1>4 DEF KernelCompletes, Stages, lstVars
<1>5. ASSUME NEW w \in Workers, WorkerStep(w) PROVE Stages'
  BY <1>5, WorkerMoves, WorkerStages, WorkerTyping
<1> QED BY <1>1, <1>2, <1>3, <1>4, <1>5 DEF Next, Terminated
-----------------------------------------------------------------------------
(* No context that is not lost is left without an owner: what a step takes *)
(* from one owner it gives to another, to the heap or to the lost.         *)
LEMMA OwnedParts ==
  \A x : Owned(x)' <=> \/ x \in inflight' \/ Lists(x)'
                       \/ \E w \in Workers : Handling(w)' /\ cur'[w] = x
                       \/ \E i \in 1 .. Len(port') : port'[i].ctx = x
BY DEF Owned

(* A packet that waits goes on waiting behind those that are queued.       *)
LEMMA PacketWaits ==
  ASSUME TypeOK, NEW p \in Packet, port' = Append(port, p)
  PROVE  /\ \A i \in 1 .. Len(port) : i \in 1 .. Len(port') /\ port'[i] = port[i]
         /\ Len(port') \in 1 .. Len(port') /\ port'[Len(port')] = p
<1>1. Len(port) \in Nat /\ Len(port') = Len(port) + 1
  BY PacketQueued
<1>2. \A i \in 1 .. Len(port) : port'[i] = port[i]
  BY PacketQueued
<1>3. port'[Len(port')] = p
  BY PacketQueued
<1> QED BY <1>1, <1>2, <1>3

LEMMA WorkerKeeps ==
  ASSUME TypeOK, Owners, Kept, NEW w \in Workers, WorkerMove(w), UNCHANGED lstVars
  PROVE  Kept'
<1> SUFFICES ASSUME NEW x \in live' \ lost' PROVE Owned(x)'
  BY DEF Kept
<1>1. \A v \in Workers : v # w => /\ pc'[v] = pc[v] /\ cur'[v] = cur[v]
                                  /\ Handling(v)' <=> Handling(v)
  BY OwnMoves DEF Handling
<1>2. Lists(x)' <=> Lists(x)
  BY DEF Lists, lstVars
<1>3. CASE Goes(w)
  <2>1. Owned(x)
    BY <1>3 DEF Kept, Goes, Still
  <2>2. Handling(w) => Handling(w)' /\ cur'[w] = cur[w]
    BY <1>3 DEF Goes, Handling, Using, TypeOK
  <2>3. inflight' = inflight /\ port' = port
    BY <1>3 DEF Goes, Still
  <2> QED BY <1>1, <1>2, <2>1, <2>2, <2>3, OwnedParts DEF Owned
<1>4. CASE Frees(w)
  <2>1. Owned(x) /\ x # cur[w] /\ inflight' = inflight /\ port' = port
    BY <1>4 DEF Kept, Frees
  <2> QED BY <1>1, <1>2, <2>1, OwnedParts DEF Owned
<1>5. CASE WorkerGet(w)
  <2>1. /\ port # <<>> /\ port' = Tail(port) /\ inflight' = inflight /\ live' = live
        /\ lost \subseteq lost' /\ ~Handling(w)
    BY <1>5 DEF WorkerGet, Handling, Using
  <2>2. Owned(x)
    BY <2>1 DEF Kept
  <2>3. ASSUME NEW i \in 1 .. Len(port), port[i].ctx = x
        PROVE  Owned(x)'
    <3>1. x \in Ctxs /\ x # NoCtx
      BY <2>1, Constants DEF TypeOK
    <3>2. CASE i = 1
      <4>1. Head(port).ctx = x
        BY <2>1, <2>3, <3>2, PacketTaken
      <4>2. Head(port).ok
        BY <1>5, <3>1, <4>1 DEF WorkerGet
      <4>3. op[x] \in Ops
        BY <2>3, <3>1 DEF Owners, PacketOwns, Carries
      <4>4. /\ pc' = [pc EXCEPT ![w] = Handler(x, Head(port).bytes)]
            /\ cur' = [cur EXCEPT ![w] = x]
        BY <1>5, <3>1, <4>1, <4>2 DEF WorkerGet, Goto
      <4>5. Handler(x, Head(port).bytes) \in Using
        BY <4>3 DEF Handler, Ops, Using
      <4>6. Handling(w)' /\ cur'[w] = x
        BY <4>4, <4>5 DEF Handling, TypeOK
      <4> QED BY <4>6, OwnedParts
    <3>3. CASE i # 1
      <4>1. Len(port) \in Nat /\ Len(port') = Len(port) - 1
        BY <2>1, HeadTailProperties DEF TypeOK
      <4>2. i - 1 \in 1 .. Len(port')
        BY <3>3, <4>1
      <4>3. port'[i - 1] = port[(i - 1) + 1]
        BY <2>1, <4>2, PacketTaken
      <4>4. port'[i - 1].ctx = x
        BY <2>3, <4>3
      <4> QED BY <4>2, <4>4, OwnedParts
    <3> QED BY <3>2, <3>3
  <2> QED BY <1>1, <1>2, <2>1, <2>2, <2>3, OwnedParts DEF Owned
<1>6. ASSUME NEW o \in Ops, NEW to, Posts(w, o, to) PROVE Owned(x)'
  <2>1. inflight' = inflight \cup {cur[w]} /\ port' = port
    BY <1>6 DEF Posts, Post
  <2>2. Owned(x)
    BY <1>6 DEF Kept, Posts
  <2> QED BY <1>1, <1>2, <2>1, <2>2, OwnedParts DEF Owned
<1>7. ASSUME NEW y \in Ctxs, Creates(w, y) PROVE Owned(x)'
  <2>1. /\ inflight' = inflight /\ port' = port /\ ~Handling(w)
        /\ Handling(w)' /\ cur'[w] = y
    BY <1>7 DEF Creates, Goto, Handling, Using, TypeOK
  <2>2. x = y \/ Owned(x)
    BY <1>7 DEF Kept, Creates, Create
  <2> QED BY <1>1, <1>2, <2>1, <2>2, OwnedParts DEF Owned
<1> QED BY <1>3, <1>4, <1>5, <1>6, <1>7 DEF WorkerMove

LEMMA KernelKeeps ==
  ASSUME TypeOK, Owners, Kept, NEW x \in Ctxs, KernelCompletes(x)
  PROVE  Kept'
<1>1. /\ x \in inflight /\ inflight' = inflight \ {x} /\ live' = live /\ op[x] \in Ops
      /\ \A w : Handling(w)' <=> Handling(w)
      /\ \A y : Lists(y)' <=> Lists(y)
      /\ cur' = cur
  BY DEF KernelCompletes, Owners, KernelOwns, Handling, Lists, lstVars
<1>2. CASE portOpen
  <2>1. PICK r \in Result(x) \cup Failure(x) :
           port' = Append(port, [ctx |-> x, ok |-> r.ok, bytes |-> r.bytes]) /\ lost' = lost
    BY <1>2 DEF KernelCompletes
  <2>2. r.ok \in BOOLEAN /\ r.bytes \in {0, 1}
    BY <1>1 DEF Result, Failure, Aborted, Ops
  <2> DEFINE p == [ctx |-> x, ok |-> r.ok, bytes |-> r.bytes]
  <2>3. p \in Packet /\ p.ctx = x
    BY <2>2 DEF Packet
  <2> HIDE DEF p
  <2>4. /\ \A i \in 1 .. Len(port) : i \in 1 .. Len(port') /\ port'[i] = port[i]
        /\ Len(port') \in 1 .. Len(port') /\ port'[Len(port')] = p
    BY <2>1, <2>3, PacketWaits DEF p
  <2>5. ASSUME NEW y \in live' \ lost' PROVE Owned(y)'
    <3>1. Owned(y)
      BY <1>1, <2>1 DEF Kept
    <3> QED BY <1>1, <2>3, <2>4, <3>1, OwnedParts DEF Owned
  <2> QED BY <2>5 DEF Kept
<1>3. CASE ~portOpen
  <2>1. lost' = lost \cup {x} /\ port' = port
    BY <1>3 DEF KernelCompletes
  <2>2. ASSUME NEW y \in live' \ lost' PROVE Owned(y)'
    <3>1. Owned(y) /\ y # x
      BY <1>1, <2>1 DEF Kept
    <3> QED BY <1>1, <2>1, <3>1, OwnedParts DEF Owned
  <2> QED BY <2>2 DEF Kept
<1> QED BY <1>2, <1>3

LEMMA ListenerKeeps ==
  ASSUME TypeOK, Kept, ListenerMove, UNCHANGED <<pc, cur, port>>
  PROVE  Kept'
<1> SUFFICES ASSUME NEW x \in live' \ lost' PROVE Owned(x)'
  BY DEF Kept
<1>1. \A w : Handling(w)' <=> Handling(w)
  BY DEF Handling
<1>2. CASE Still /\ listener # "post"
  BY <1>1, <1>2, OwnedParts DEF Still, Kept, Owned, Lists
<1>3. ASSUME NEW y \in Ctxs, Create(y), lctx' = y, listener' = "post", listener # "post",
             UNCHANGED <<inflight, lost>>
      PROVE  Owned(x)'
  <2>1. x = y \/ Owned(x)
    BY <1>3 DEF Create, Kept
  <2> QED BY <1>1, <1>3, <2>1, OwnedParts DEF Owned, Lists
<1>4. CASE Post(lctx, "accept") /\ UNCHANGED <<live, lost>>
  BY <1>1, <1>4, OwnedParts DEF Post, Kept, Owned, Lists
<1>5. CASE Destroy(lctx) /\ UNCHANGED <<inflight, lost>>
  BY <1>1, <1>5, OwnedParts DEF Destroy, Kept, Owned, Lists
<1> QED BY <1>2, <1>3, <1>4, <1>5 DEF ListenerMove

LEMMA GuiKeeps ==
  ASSUME TypeOK, Unborn, Kept, GuiMove, UNCHANGED <<cur, lctx>>,
         listener' # listener => listener # "post" /\ listener' # "post"
  PROVE  Kept'
<1> SUFFICES ASSUME NEW x \in live' \ lost' PROVE Owned(x)'
  BY DEF Kept
<1>1. UNCHANGED <<live, inflight, op>> /\ lost \subseteq lost'
  BY DEF GuiMove, Still, PoolClose
<1>2. Owned(x)
  BY <1>1 DEF Kept
<1>3. \A w \in Workers : Handling(w) => Handling(w)'
  <2>1. CASE pc' = pc
    BY <2>1 DEF Handling
  <2>2. CASE pc' = [pc EXCEPT ![count + 1] = "loop"] /\ gui = "create" /\ count + 1 \in Workers
    <3>1. count + 1 > count
      BY DEF TypeOK
    <3>2. pc[count + 1] = "off"
      BY <2>2, <3>1 DEF Unborn
    <3> QED BY <2>2, <3>2 DEF Handling, Using, TypeOK
  <2> QED BY <2>1, <2>2 DEF GuiMove, PoolClose
<1>4. Lists(x) <=> Lists(x)'
  BY DEF Lists
<1>5. ASSUME NEW i \in 1 .. Len(port), port[i].ctx = x
      PROVE  \E j \in 1 .. Len(port') : port'[j].ctx = x
  <2>1. CASE port' = port
    BY <1>5, <2>1
  <2>2. CASE port' = Append(port, ShutdownPacket)
    <3>1. ShutdownPacket \in Packet
      BY DEF ShutdownPacket, Packet
    <3>2. i \in 1 .. Len(port') /\ port'[i] = port[i]
      BY <2>2, <3>1, PacketWaits
    <3> QED BY <1>5, <3>2
  <2>3. CASE PoolClose
    <3>1. x \in lost' \/ x = NoCtx
      BY <1>5, <2>3 DEF PoolClose
    <3> QED BY <1>1, <3>1, Constants DEF TypeOK
  <2> QED BY <2>1, <2>2, <2>3 DEF GuiMove
<1> QED BY <1>1, <1>2, <1>3, <1>4, <1>5, OwnedParts DEF Owned

LEMMA KeptStep ==
  ASSUME IInv, Unborn, Kept, [Next]_vars
  PROVE  Kept'
<1> USE DEF IInv
<1>1. CASE UNCHANGED vars
  <2>1. \A x : Owned(x)' <=> Owned(x)
    BY <1>1 DEF vars, ctxVars, portVars, lstVars, Owned, Handling, Lists
  <2> QED BY <1>1, <2>1 DEF vars, ctxVars, Kept
<1>2. CASE Start \/ StopServer \/ Shutdown
  BY <1>2, GuiMoves, GuiKeeps
<1>3. CASE ListenerStep
  BY <1>3, ListenerMoves, ListenerKeeps
<1>4. ASSUME NEW x \in Ctxs, KernelCompletes(x) PROVE Kept'
  BY <1>4, KernelKeeps
<1>5. ASSUME NEW w \in Workers, WorkerStep(w) PROVE Kept'
  BY <1>5, WorkerMoves, WorkerKeeps, WorkerTyping
<1> QED BY <1>1, <1>2, <1>3, <1>4, <1>5 DEF Next, Terminated
-----------------------------------------------------------------------------
(* Accepts.  A set of workers is finite; whatever shrinks the two sets and *)
(* leaves the budget keeps them within it.                                 *)
LEMMA ReplacingIsFinite == IsFiniteSet(Replacing) /\ IsFiniteSet(Replacing)'
<1>1. IsFiniteSet(Workers)
  BY Constants, FS_Interval
<1>2. Replacing \in SUBSET Workers /\ Replacing' \in SUBSET Workers
  BY DEF Replacing
<1>3. \A S \in SUBSET Workers : IsFiniteSet(S)
  BY <1>1, FS_Subset
<1> HIDE DEF Workers
<1> QED BY <1>2, <1>3

LEMMA OneMoreOrLess ==
  ASSUME NEW S, IsFiniteSet(S), NEW x
  PROVE  /\ IsFiniteSet(S \cup {x}) /\ IsFiniteSet(S \ {x})
         /\ Cardinality(S) \in Nat
         /\ Cardinality(S \cup {x}) \in Nat /\ Cardinality(S \cup {x}) <= Cardinality(S) + 1
         /\ x \in S => Cardinality(S \ {x}) = Cardinality(S) - 1
<1>1. Cardinality(S) \in Nat
  BY FS_CardinalityType
<1>2. /\ IsFiniteSet(S \cup {x})
      /\ Cardinality(S \cup {x}) = IF x \in S THEN Cardinality(S) ELSE Cardinality(S) + 1
  BY FS_AddElement
<1>3. /\ IsFiniteSet(S \ {x})
      /\ x \in S => Cardinality(S \ {x}) = Cardinality(S) - 1
  BY FS_RemoveElement
<1> QED BY <1>1, <1>2, <1>3

LEMMA FewerAccepts ==
  ASSUME AcceptsWithin, Accepting' \subseteq Accepting, Replacing' \subseteq Replacing,
         Budget \in Nat, Budget' \in Nat, Budget <= Budget'
  PROVE  AcceptsWithin'
<1>1. /\ IsFiniteSet(Accepting') /\ Cardinality(Accepting') <= Cardinality(Accepting)
      /\ Cardinality(Replacing') <= Cardinality(Replacing)
  BY FS_Subset, ReplacingIsFinite DEF AcceptsWithin
<1>2. /\ Cardinality(Accepting) \in Nat /\ Cardinality(Accepting') \in Nat
      /\ Cardinality(Replacing) \in Nat /\ Cardinality(Replacing') \in Nat
  BY <1>1, FS_CardinalityType, ReplacingIsFinite DEF AcceptsWithin
<1> QED BY <1>1, <1>2 DEF AcceptsWithin

(* An accept that begins is taken from the workers that replace one, or    *)
(* added by a worker that will replace it; or the listener pays for it.    *)
LEMMA OneMoreAccept ==
  ASSUME AcceptsWithin, NEW x, Accepting' = Accepting \cup {x}, Replacing' = Replacing,
         Budget \in Nat, Budget' = Budget + 1
  PROVE  AcceptsWithin'
<1>1. /\ IsFiniteSet(Accepting \cup {x})
      /\ Cardinality(Accepting \cup {x}) <= Cardinality(Accepting) + 1
      /\ Cardinality(Accepting) \in Nat /\ Cardinality(Accepting \cup {x}) \in Nat
  BY OneMoreOrLess DEF AcceptsWithin
<1>2. Cardinality(Replacing) \in Nat
  BY FS_CardinalityType, ReplacingIsFinite
<1> QED BY <1>1, <1>2 DEF AcceptsWithin

LEMMA AcceptReplaced ==
  ASSUME AcceptsWithin, NEW x, NEW w \in Replacing, Accepting' = Accepting \cup {x},
         Replacing' = Replacing \ {w}, Budget \in Nat, Budget' = Budget
  PROVE  AcceptsWithin'
<1>1. /\ IsFiniteSet(Accepting \cup {x})
      /\ Cardinality(Accepting \cup {x}) <= Cardinality(Accepting) + 1
      /\ Cardinality(Accepting) \in Nat /\ Cardinality(Accepting \cup {x}) \in Nat
  BY OneMoreOrLess DEF AcceptsWithin
<1>2. /\ Cardinality(Replacing) \in Nat
      /\ Cardinality(Replacing \ {w}) = Cardinality(Replacing) - 1
  BY OneMoreOrLess, ReplacingIsFinite
<1> QED BY <1>1, <1>2 DEF AcceptsWithin

LEMMA AcceptToReplace ==
  ASSUME AcceptsWithin, NEW x \in Accepting, NEW w, Accepting' = Accepting \ {x},
         Replacing' = Replacing \cup {w}, Budget \in Nat, Budget' = Budget
  PROVE  AcceptsWithin'
<1>1. /\ IsFiniteSet(Accepting \ {x})
      /\ Cardinality(Accepting \ {x}) = Cardinality(Accepting) - 1
      /\ Cardinality(Accepting) \in Nat
  BY OneMoreOrLess DEF AcceptsWithin
<1>2. /\ Cardinality(Replacing) \in Nat /\ Cardinality(Replacing \cup {w}) \in Nat
      /\ Cardinality(Replacing \cup {w}) <= Cardinality(Replacing) + 1
  BY OneMoreOrLess, ReplacingIsFinite
<1> QED BY <1>1, <1>2 DEF AcceptsWithin

LEMMA BudgetStays ==
  ASSUME TypeOK, listener' # listener => listener # "post" /\ listener' # "post",
         UNCHANGED posted
  PROVE  Budget \in Nat /\ Budget' = Budget
<1>1. posted \in Nat
  BY Constants DEF TypeOK
<1> QED BY <1>1 DEF Budget

LEMMA WorkerAccepts ==
  ASSUME TypeOK, Owners, Stages, AcceptsWithin, NEW w \in Workers, WorkerMove(w),
         UNCHANGED lstVars
  PROVE  AcceptsWithin'
<1>1. Budget \in Nat /\ Budget' = Budget
  BY BudgetStays DEF lstVars
<1>2. \A v \in Workers : v # w => pc'[v] = pc[v]
  BY OwnMoves
<1>3. Handling(w) => cur[w] \in Ctxs /\ cur[w] \in live /\ cur[w] \notin lost
  BY DEF Owners, WorkerOwns, Loose, TypeOK
<1>4. CASE Goes(w)
  <2>1. Accepting' = Accepting
    BY <1>4 DEF Goes, Still, Accepting
  <2>2. pc'[w] # "acceptNew"
    BY <1>4 DEF Goes, TypeOK
  <2> QED BY <1>1, <1>2, <2>1, <2>2, FewerAccepts DEF Replacing
<1>5. CASE Frees(w)
  <2>1. Accepting' \subseteq Accepting /\ pc'[w] # "acceptNew"
    BY <1>5 DEF Frees, Freed, Return, Goto, Accepting, TypeOK
  <2> QED BY <1>1, <1>2, <2>1, FewerAccepts DEF Replacing
<1>6. CASE WorkerGet(w)
  <2>1. Accepting' \subseteq Accepting /\ 1 \in 1 .. Len(port) /\ Head(port) = port[1]
    BY <1>6, PacketTaken DEF WorkerGet, Accepting
  <2>2. pc'[w] # "acceptNew"
    <3>1. CASE Head(port).ctx = NoCtx \/ ~Head(port).ok
      BY <1>6, <3>1 DEF WorkerGet, Goto, TypeOK
    <3>2. CASE ~(Head(port).ctx = NoCtx \/ ~Head(port).ok)
      <4>1. op[Head(port).ctx] \in Ops
        BY <2>1, <3>2 DEF Owners, PacketOwns, Carries
      <4>2. Handler(Head(port).ctx, Head(port).bytes) # "acceptNew"
        BY <4>1 DEF Handler, Ops
      <4>3. pc'[w] = Handler(Head(port).ctx, Head(port).bytes)
        BY <1>6, <3>2 DEF WorkerGet, Goto, TypeOK
      <4> QED BY <4>2, <4>3
    <3> QED BY <3>1, <3>2
  <2> QED BY <1>1, <1>2, <2>1, <2>2, FewerAccepts DEF Replacing
<1>7. ASSUME NEW o \in Ops, NEW to, Posts(w, o, to) PROVE AcceptsWithin'
  <2>1. /\ Handling(w) /\ pc'[w] = to
        /\ op' = [op EXCEPT ![cur[w]] = o] /\ UNCHANGED <<live, lost>>
    BY <1>7 DEF Posts, Post, Posted, Handling, Using, TypeOK
  <2>2. /\ pc[w] = "acceptRecv" => op[cur[w]] = "accept"
        /\ pc[w] = "acceptPost" => op[cur[w]] = "none"
    BY DEF Stages
  <2>3. CASE pc[w] = "acceptRecv"
    <3>1. o = "recv" /\ to = "acceptNew"
      BY <1>7, <2>3 DEF Posts
    <3>2. cur[w] \in Accepting /\ Accepting' = Accepting \ {cur[w]}
      BY <1>3, <2>1, <2>2, <2>3, <3>1 DEF Accepting, TypeOK
    <3>3. Replacing' = Replacing \cup {w}
      BY <1>2, <2>1, <3>1 DEF Replacing
    <3> QED BY <1>1, <3>2, <3>3, AcceptToReplace
  <2>4. CASE pc[w] # "acceptRecv"
    <3>1. to = "loop" /\ (o = "send" \/ (o = "accept" /\ pc[w] = "acceptPost"))
      BY <1>7, <2>4 DEF Posts
    <3>2. Accepting' \subseteq Accepting
      BY <1>3, <2>1, <2>2, <3>1 DEF Accepting, TypeOK
    <3>3. Replacing' \subseteq Replacing
      BY <1>2, <2>1, <3>1 DEF Replacing
    <3> QED BY <1>1, <3>2, <3>3, FewerAccepts
  <2> QED BY <2>3, <2>4
<1>8. ASSUME NEW x \in Ctxs, Creates(w, x) PROVE AcceptsWithin'
  <2>1. Accepting' = Accepting \cup {x}
    BY <1>8 DEF Creates, Create, Accepting, TypeOK
  <2>2. w \in Replacing /\ Replacing' = Replacing \ {w}
    BY <1>2, <1>8 DEF Creates, Goto, Replacing, TypeOK
  <2> QED BY <1>1, <2>1, <2>2, AcceptReplaced
<1> QED BY <1>4, <1>5, <1>6, <1>7, <1>8 DEF WorkerMove

LEMMA ListenerAccepts ==
  ASSUME TypeOK, Owners, Stages, AcceptsWithin, ListenerMove, UNCHANGED pc
  PROVE  AcceptsWithin'
<1>1. posted \in Nat /\ Replacing' = Replacing /\ Budget \in Nat
  BY Constants DEF TypeOK, Replacing, Budget
<1>2. CASE /\ Still /\ listener # "post" /\ listener' # "post"
           /\ posted' \in {posted, posted + 1}
  <2>1. Accepting' = Accepting
    BY <1>2 DEF Still, Accepting
  <2>2. posted' \in Nat /\ posted <= posted'
    BY <1>1, <1>2
  <2>3. Budget = posted
    BY <1>1, <1>2 DEF Budget
  <2>4. Budget' = posted'
    BY <1>2 DEF Budget
  <2>5. Budget' \in Nat /\ Budget <= Budget'
    BY <2>2, <2>3, <2>4
  <2> QED BY <1>1, <2>1, <2>5, FewerAccepts
<1>3. ASSUME NEW x \in Ctxs, Create(x), listener' = "post", listener # "post",
             UNCHANGED <<inflight, lost, posted>>
      PROVE  AcceptsWithin'
  <2>1. Accepting' = Accepting \cup {x}
    BY <1>3 DEF Create, Accepting, TypeOK
  <2>2. Budget' = Budget + 1
    BY <1>1, <1>3 DEF Budget
  <2> QED BY <1>1, <2>1, <2>2, OneMoreAccept
<1>4. CASE /\ listener = "post" /\ listener' = "new" /\ posted' = posted + 1
           /\ \/ Post(lctx, "accept") /\ UNCHANGED <<live, lost>>
              \/ Destroy(lctx) /\ UNCHANGED <<inflight, lost>>
  <2>1. lctx \in live /\ lctx \notin lost /\ op[lctx] = "none"
    BY <1>4 DEF Owners, ListenerOwns, Loose, Stages
  <2>2. Accepting' \subseteq Accepting
    BY <1>4, <2>1 DEF Post, Posted, Destroy, Freed, Accepting, TypeOK
  <2>3. Budget' = Budget
    BY <1>1, <1>4 DEF Budget
  <2> QED BY <1>1, <2>2, <2>3, FewerAccepts
<1> QED BY <1>2, <1>3, <1>4 DEF ListenerMove

LEMMA AcceptsStep ==
  ASSUME IInv, Unborn, Stages, AcceptsWithin, [Next]_vars
  PROVE  AcceptsWithin'
<1> USE DEF IInv
<1>1. CASE UNCHANGED vars
  <2>1. /\ UNCHANGED <<live, lost, op, pc, posted, listener>>
    BY <1>1 DEF vars, ctxVars, lstVars
  <2>2. Accepting' = Accepting /\ Replacing' = Replacing
    BY <2>1 DEF Accepting, Replacing
  <2> QED BY <2>1, <2>2, BudgetStays, FewerAccepts
<1>2. CASE Start \/ StopServer \/ Shutdown
  <2>1. /\ GuiMove /\ UNCHANGED posted
        /\ listener' # listener => listener # "post" /\ listener' # "post"
    BY <1>2, GuiMoves
  <2>2. Accepting' \subseteq Accepting
    BY <2>1 DEF GuiMove, Still, PoolClose, Accepting
  <2>3. Replacing' \subseteq Replacing
    BY <2>1 DEF GuiMove, PoolClose, Replacing, TypeOK
  <2> QED BY <2>1, <2>2, <2>3, BudgetStays, FewerAccepts
<1>3. CASE ListenerStep
  BY <1>3, ListenerMoves, ListenerAccepts
<1>4. ASSUME NEW x \in Ctxs, KernelCompletes(x) PROVE AcceptsWithin'
  <2>1. /\ UNCHANGED <<live, op, pc, posted, listener>> /\ lost \subseteq lost'
    BY <1>4 DEF KernelCompletes, lstVars
  <2>2. Accepting' \subseteq Accepting /\ Replacing' = Replacing
    BY <2>1 DEF Accepting, Replacing
  <2> QED BY <2>1, <2>2, BudgetStays, FewerAccepts
<1>5. ASSUME NEW w \in Workers, WorkerStep(w) PROVE AcceptsWithin'
  BY <1>5, WorkerMoves, WorkerAccepts, WorkerTyping
<1> QED BY <1>1, <1>2, <1>3, <1>4, <1>5 DEF Next, Terminated
-----------------------------------------------------------------------------
(* The invariant, and what follows from it.                                *)
LEMMA ContextsInitially == ASSUME Init PROVE CInv
<1>1. IInv
  BY Initially
<1>2. Unborn /\ Kept
  BY DEF Init, Unborn, Kept
<1>3. Stages
  BY DEF Init, Stages
<1>4. AcceptsWithin
  <2>1. Accepting = {} /\ Replacing = {} /\ Budget = 0
    BY DEF Init, Accepting, Replacing, Budget
  <2> QED BY <2>1, FS_EmptySet DEF AcceptsWithin
<1> QED BY <1>1, <1>2, <1>3, <1>4 DEF CInv

LEMMA ContextsInvariant == Spec => []CInv
<1>1. CInv /\ [Next]_vars => CInv'
  <2> SUFFICES ASSUME CInv, [Next]_vars PROVE CInv'
    OBVIOUS
  <2>1. IInv'
    BY OwnersStep, TypingStep DEF CInv, IInv
  <2>2. Unborn'
    BY UnbornStep DEF CInv, IInv
  <2>3. Stages'
    BY StagesStep DEF CInv
  <2>4. Kept'
    BY KeptStep DEF CInv
  <2>5. AcceptsWithin'
    BY AcceptsStep DEF CInv
  <2> QED BY <2>1, <2>2, <2>3, <2>4, <2>5 DEF CInv
<1> QED BY <1>1, ContextsInitially, PTL DEF Spec

LEMMA SomeHolder == ASSUME CInv PROVE NoOtherLeak
<1> SUFFICES ASSUME NEW x \in live \ lost PROVE Holders(x) = 1
  BY DEF NoOtherLeak
<1>1. IInv /\ x \in Ctxs /\ Holders(x) <= 1
  BY OneHolder DEF CInv, IInv, TypeOK, SingleOwner
<1>2. \/ x \in inflight \/ Lists(x) \/ Users(x) # {} \/ Packets(x) # {}
  <2>1. Owned(x)
    BY DEF CInv, Kept
  <2>2. Users(x) = {w \in Workers : Handling(w) /\ cur[w] = x}
    BY <1>1, HolderSizes
  <2> QED BY <2>1, <2>2 DEF Owned, Packets
<1>3. /\ Cardinality(Users(x)) = IF Users(x) = {} THEN 0 ELSE 1
      /\ Cardinality(Packets(x)) = IF Packets(x) = {} THEN 0 ELSE 1
      /\ Listed(x) = IF Lists(x) THEN 1 ELSE 0
      /\ Lent(x) = IF x \in inflight THEN 1 ELSE 0
  BY <1>1, HolderSizes
<1> QED BY <1>1, <1>2, <1>3 DEF Holders

(* A client context that the kernel, a packet, a worker and the listener   *)
(* have all let go of has been freed, or lost to a failed operation or to  *)
(* a port that was closed: no path of a handler forgets one.               *)
THEOREM NoFurtherLeak == Spec => []NoOtherLeak
BY ContextsInvariant, SomeHolder, PTL

(* The accepts that are posted, about to be posted or being replaced are   *)
(* never more than the worker threads the listener posts them for.         *)
THEOREM AcceptsStayBounded == Spec => []AcceptsBounded
<1>1. CInv => AcceptsBounded
  <2> SUFFICES ASSUME CInv PROVE AcceptsBounded
    OBVIOUS
  <2>1. /\ Cardinality(Accepting) \in Nat /\ Cardinality(Replacing) \in Nat
        /\ Cardinality(Accepting) + Cardinality(Replacing) <= Budget
    BY FS_CardinalityType, ReplacingIsFinite DEF CInv, AcceptsWithin
  <2>2. Budget \in Nat /\ Budget <= ThreadCount
    BY Constants DEF CInv, IInv, TypeOK, Counters, Budget
  <2> QED BY <2>1, <2>2, Constants DEF AcceptsBounded
<1> QED BY <1>1, ContextsInvariant, PTL
-----------------------------------------------------------------------------
(* Exchange.  Each move is one of its steps for the context it concerns,   *)
(* or none.                                                                *)
LEMMA SameExchange ==
  ASSUME UNCHANGED <<live, inflight>>, \A x \in live : op'[x] = op[x]
  PROVE  UNCHANGED <<Phase, Turn>>
BY DEF Phase, Turn

LEMMA OnePhase ==
  ASSUME NEW x \in Ctxs, \A y \in Ctxs \ {x} : (y \in live' <=> y \in live) /\ op'[y] = op[y]
  PROVE  Phase' = [Phase EXCEPT ![x] = IF x \notin live' THEN "free"
                                       ELSE IF op'[x] = "none" THEN "fresh" ELSE op'[x]]
BY DEF Phase

LEMMA CreateMaps ==
  ASSUME TypeOK, NEW x \in Ctxs, Create(x), UNCHANGED inflight
  PROVE  EX!Next
<1>1. Phase' = [Phase EXCEPT ![x] = "fresh"]
  <2>1. op'[x] = "none" /\ x \in live'
    BY DEF Create, TypeOK
  <2>2. \A y \in Ctxs \ {x} : (y \in live' <=> y \in live) /\ op'[y] = op[y]
    BY DEF Create, TypeOK
  <2> QED BY <2>1, <2>2, OnePhase
<1>2. Phase[x] = "free" /\ Turn' = Turn
  BY DEF Create, Phase, Turn
<1>3. EX!Create(x)
  BY <1>1, <1>2 DEF EX!Create
<1> QED BY <1>3 DEF EX!Next

LEMMA FreeMaps ==
  ASSUME TypeOK, NEW x \in live, x \notin inflight, live' = live \ {x}, Freed(x),
         UNCHANGED inflight
  PROVE  EX!Next
<1>1. x \in Ctxs
  BY DEF TypeOK
<1>2. Phase' = [Phase EXCEPT ![x] = "free"]
  <2>1. \A y \in Ctxs \ {x} : (y \in live' <=> y \in live) /\ op'[y] = op[y]
    BY DEF Freed, TypeOK
  <2> QED BY <1>1, <2>1, OnePhase
<1>3. Phase[x] # "free" /\ Turn[x] = "server" /\ Turn' = Turn
  BY <1>1 DEF Phase, Turn, TypeOK
<1>4. EX!Destroy(x)
  BY <1>2, <1>3 DEF EX!Destroy
<1> QED BY <1>1, <1>4 DEF EX!Next

LEMMA PostMaps ==
  ASSUME TypeOK, NEW x \in live, x \notin inflight, NEW o \in Ops, Post(x, o), UNCHANGED live,
         <<op[x], o>> \in {<<"none", "accept">>, <<"accept", "recv">>, <<"recv", "send">>,
                           <<"send", "send">>}
  PROVE  EX!Next
<1>1. x \in Ctxs /\ op' = [op EXCEPT ![x] = o] /\ inflight' = inflight \cup {x} /\ o # "none"
  BY DEF TypeOK, Post, Posted, Ops
<1>2. Phase' = [Phase EXCEPT ![x] = o]
  <2>1. op'[x] = o /\ \A y \in Ctxs \ {x} : op'[y] = op[y]
    BY <1>1 DEF TypeOK
  <2> QED BY <1>1, <2>1, OnePhase
<1>3. Turn[x] = "server" /\ Turn' = [Turn EXCEPT ![x] = "kernel"]
  BY <1>1 DEF Turn
<1>4. <<Phase[x], o>> \in EX!Follows
  BY <1>1 DEF Phase, EX!Follows
<1>5. EX!Post(x, o)
  BY <1>2, <1>3, <1>4 DEF EX!Post
<1> QED BY <1>1, <1>5 DEF EX!Next, Ops

LEMMA WorkerMaps ==
  ASSUME TypeOK, Owners, Stages, NEW w \in Workers, WorkerMove(w)
  PROVE  EX!Next \/ UNCHANGED <<Phase, Turn>>
<1>1. Handling(w) => cur[w] \in live /\ cur[w] \notin inflight
  BY DEF Owners, WorkerOwns, Loose
<1>2. CASE Goes(w) \/ WorkerGet(w)
  <2>1. UNCHANGED <<live, inflight, op>>
    BY <1>2 DEF Goes, Still, WorkerGet
  <2> QED BY <2>1, SameExchange
<1>3. CASE Frees(w)
  BY <1>1, <1>3, FreeMaps DEF Frees
<1>4. ASSUME NEW o \in Ops, NEW to, Posts(w, o, to) PROVE EX!Next
  <2>1. Handling(w) /\ Post(cur[w], o) /\ UNCHANGED live
    BY <1>4 DEF Posts, Handling, Using
  <2>2. \/ op[cur[w]] = "accept" /\ o = "recv"
        \/ op[cur[w]] = "none" /\ o = "accept"
        \/ op[cur[w]] \in {"recv", "send"} /\ o = "send"
    BY <1>4 DEF Posts, Stages
  <2> QED BY <1>1, <2>1, <2>2, PostMaps
<1>5. ASSUME NEW x \in Ctxs, Creates(w, x) PROVE EX!Next
  BY <1>5, CreateMaps DEF Creates
<1> QED BY <1>2, <1>3, <1>4, <1>5 DEF WorkerMove

LEMMA ListenerMaps ==
  ASSUME TypeOK, Owners, Stages, ListenerMove
  PROVE  EX!Next \/ UNCHANGED <<Phase, Turn>>
<1>1. listener = "post" => lctx \in live /\ lctx \notin inflight /\ op[lctx] = "none"
  BY DEF Owners, ListenerOwns, Loose, Stages
<1>2. CASE Still
  BY <1>2, SameExchange DEF Still
<1>3. ASSUME NEW x \in Ctxs, Create(x), UNCHANGED inflight PROVE EX!Next
  BY <1>3, CreateMaps
<1>4. CASE listener = "post" /\ Post(lctx, "accept") /\ UNCHANGED live
  BY <1>1, <1>4, PostMaps DEF Ops
<1>5. CASE listener = "post" /\ Destroy(lctx) /\ UNCHANGED inflight
  BY <1>1, <1>5, FreeMaps DEF Destroy
<1> QED BY <1>2, <1>3, <1>4, <1>5 DEF ListenerMove

LEMMA KernelMaps == ASSUME TypeOK, NEW x \in Ctxs, KernelCompletes(x) PROVE EX!Next
<1>1. UNCHANGED <<live, op>> /\ x \in inflight /\ inflight' = inflight \ {x}
  BY DEF KernelCompletes
<1>2. Phase' = Phase /\ Turn[x] = "kernel" /\ Turn' = [Turn EXCEPT ![x] = "server"]
  BY <1>1 DEF Phase, Turn
<1>3. EX!Complete(x)
  BY <1>2 DEF EX!Complete
<1> QED BY <1>3 DEF EX!Next

LEMMA ExchangeStep ==
  ASSUME CInv, [Next]_vars
  PROVE  [EX!Next]_(EX!exchangeVars)
<1> SUFFICES EX!Next \/ UNCHANGED <<Phase, Turn>>
  BY DEF EX!exchangeVars
<1> USE DEF CInv, IInv
<1>1. CASE UNCHANGED vars
  BY <1>1, SameExchange DEF vars, ctxVars
<1>2. CASE Start \/ StopServer \/ Shutdown
  <2>1. UNCHANGED <<live, inflight, op>>
    BY <1>2, GuiMoves DEF GuiMove, Still, PoolClose
  <2> QED BY <2>1, SameExchange
<1>3. CASE ListenerStep
  BY <1>3, ListenerMoves, ListenerMaps
<1>4. ASSUME NEW x \in Ctxs, KernelCompletes(x) PROVE EX!Next
  BY <1>4, KernelMaps
<1>5. ASSUME NEW w \in Workers, WorkerStep(w) PROVE EX!Next \/ UNCHANGED <<Phase, Turn>>
  BY <1>5, WorkerMoves, WorkerMaps
<1> QED BY <1>1, <1>2, <1>3, <1>4, <1>5 DEF Next, Terminated

(* The server implements Exchange: a context is posted for accept, then    *)
(* receive, then sends, never out of that order, is touched by the server  *)
(* only while the kernel does not have it, and is freed only then.         *)
THEOREM FollowsExchange == Spec => ImplementsExchange
<1>1. Init => EX!Init
  BY DEF Init, EX!Init, Phase, Turn
<1>2. CInv /\ [Next]_vars => [EX!Next]_(EX!exchangeVars)
  BY ExchangeStep
<1> QED BY <1>1, <1>2, ContextsInvariant, PTL DEF Spec, ImplementsExchange, EX!Spec
=============================================================================
