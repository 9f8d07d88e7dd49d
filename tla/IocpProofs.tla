------------------------------ MODULE IocpProofs -----------------------------
(***************************************************************************)
(* Proofs about IocpServer, for every number of workers and contexts and   *)
(* whatever fails: type correctness, and that a client context has one     *)
(* owner at a time.                                                        *)
(***************************************************************************)
EXTENDS IocpServer, ListFacts

USE DEF Workers

(* Who owns a context, without counting: owners are a worker in a handler, *)
(* a packet, the kernel, or the listener about to post.  What one of them  *)
(* owns is allocated and is nobody else's.                                 *)
Ops == {"accept", "recv", "send"}
Loose == live \ (inflight \cup lost)
Handling(w) == pc[w] \in Using
Carries(i) == port[i].ctx # NoCtx
Lists(x) == listener = "post" /\ lctx = x

WorkerOwns ==
    /\ \A w \in Workers : Handling(w) => cur[w] \in Loose /\ ~Lists(cur[w])
    /\ \A w, v \in Workers : Handling(w) /\ Handling(v) /\ cur[w] = cur[v] => w = v

PacketOwns ==
    /\ \A i \in 1 .. Len(port) : Carries(i) =>
          /\ port[i].ctx \in Loose /\ ~Lists(port[i].ctx)
          /\ op[port[i].ctx] \in Ops
          /\ \A w \in Workers : Handling(w) => cur[w] # port[i].ctx
    /\ \A i, j \in 1 .. Len(port) : Carries(i) /\ port[i].ctx = port[j].ctx => i = j

KernelOwns == \A x \in inflight : x \notin lost /\ op[x] \in Ops

ListenerOwns == listener = "post" => lctx \in Loose

Owners == WorkerOwns /\ PacketOwns /\ KernelOwns /\ ListenerOwns

(* Where the counters of the GUI thread and of the listener are used.      *)
Counters == /\ gui = "init" => count = 0
            /\ gui = "create" => count < ThreadCount
            /\ listener = "post" => posted < ThreadCount

IInv == TypeOK /\ Counters /\ Owners

LEMMA Constants == /\ ThreadCount \in Nat \ {0} /\ NoCtx \notin Ctxs /\ MaxChunks \in Nat
BY IocpAssumption
-----------------------------------------------------------------------------
(* A step that moves no context.                                           *)
LEMMA NothingMoves ==
  ASSUME Owners, UNCHANGED <<live, inflight, lost, op, port>>,
         \A w \in Workers : Handling(w)' => Handling(w) /\ cur'[w] = cur[w],
         listener' = "post" => listener = "post" /\ lctx' = lctx
  PROVE  Owners'
<1>1. /\ Loose' = Loose /\ \A y : Lists(y)' => Lists(y)
      /\ \A i : Carries(i)' <=> Carries(i)
  BY DEF Loose, Lists, Carries
<1>2. WorkerOwns'
  BY <1>1 DEF Owners, WorkerOwns
<1>3. PacketOwns'
  BY <1>1 DEF Owners, PacketOwns
<1>4. KernelOwns' /\ ListenerOwns'
  BY <1>1 DEF Owners, KernelOwns, ListenerOwns
<1> QED BY <1>2, <1>3, <1>4 DEF Owners

(* A worker frees the context it handles.                                  *)
LEMMA WorkerFrees ==
  ASSUME TypeOK, Owners, NEW w \in Workers, Handling(w), Return(w), Freed(cur[w]),
         live' = live \ {cur[w]}, UNCHANGED <<inflight, lost, port, listener, lctx>>
  PROVE  Owners'
<1>1. /\ cur[w] \in Ctxs /\ cur[w] \in Loose /\ ~Lists(cur[w]) /\ cur[w] \notin inflight
      /\ pc' = [pc EXCEPT ![w] = "loop"] /\ cur' = [cur EXCEPT ![w] = NoCtx]
      /\ op' = [op EXCEPT ![cur[w]] = "none"]
  BY DEF Owners, WorkerOwns, Return, Goto, Freed, Loose, TypeOK
<1>2. \A v \in Workers : Handling(v)' => /\ v # w /\ Handling(v) /\ cur'[v] = cur[v]
                                         /\ cur[v] # cur[w]
  BY <1>1 DEF Handling, Using, TypeOK, Owners, WorkerOwns
<1>3. Loose' = Loose \ {cur[w]} /\ \A x : Lists(x)' <=> Lists(x)
  BY DEF Loose, Lists
<1>4. WorkerOwns'
  BY <1>2, <1>3 DEF Owners, WorkerOwns
<1>5. PacketOwns'
  <2>1. \A i \in 1 .. Len(port) : Carries(i)' => Carries(i) /\ port[i].ctx # cur[w]
    BY DEF Carries, Owners, PacketOwns
  <2>2. \A i \in 1 .. Len(port) : Carries(i) => op'[port[i].ctx] = op[port[i].ctx]
    BY <1>1, <2>1 DEF Carries, TypeOK, Owners, PacketOwns, Loose
  <2> QED BY <1>2, <1>3, <2>1, <2>2 DEF Owners, PacketOwns
<1>6. KernelOwns'
  BY <1>1 DEF Owners, KernelOwns, TypeOK
<1>7. ListenerOwns'
  BY <1>1, <1>3 DEF Owners, ListenerOwns, Lists
<1> QED BY <1>4, <1>5, <1>6, <1>7 DEF Owners

(* A worker hands the context it handles to the kernel.                    *)
LEMMA WorkerPosts ==
  ASSUME TypeOK, Owners, NEW w \in Workers, Handling(w), NEW o \in Ops, Post(cur[w], o),
         NEW to, to \notin Using, pc' = [pc EXCEPT ![w] = to], cur' = [cur EXCEPT ![w] = NoCtx],
         UNCHANGED <<live, lost, port, listener, lctx>>
  PROVE  Owners'
<1>1. /\ cur[w] \in Ctxs /\ cur[w] \in Loose /\ ~Lists(cur[w]) /\ cur[w] \notin lost
      /\ op' = [op EXCEPT ![cur[w]] = o] /\ inflight' = inflight \cup {cur[w]}
  BY DEF Owners, WorkerOwns, Post, Posted, Loose, TypeOK
<1>2. \A v \in Workers : Handling(v)' => /\ v # w /\ Handling(v) /\ cur'[v] = cur[v]
                                         /\ cur[v] # cur[w]
  BY <1>1 DEF Handling, TypeOK, Owners, WorkerOwns
<1>3. Loose' = Loose \ {cur[w]} /\ \A x : Lists(x)' <=> Lists(x)
  BY <1>1 DEF Loose, Lists
<1>4. WorkerOwns'
  BY <1>2, <1>3 DEF Owners, WorkerOwns
<1>5. PacketOwns'
  <2>1. \A i \in 1 .. Len(port) : Carries(i)' => Carries(i) /\ port[i].ctx # cur[w]
    BY DEF Carries, Owners, PacketOwns
  <2>2. \A i \in 1 .. Len(port) : Carries(i) => op'[port[i].ctx] = op[port[i].ctx]
    BY <1>1, <2>1 DEF Carries, TypeOK, Owners, PacketOwns, Loose
  <2> QED BY <1>2, <1>3, <2>1, <2>2 DEF Owners, PacketOwns
<1>6. KernelOwns'
  BY <1>1 DEF Owners, KernelOwns, TypeOK
<1>7. ListenerOwns'
  BY <1>1, <1>3 DEF Owners, ListenerOwns, Lists
<1> QED BY <1>4, <1>5, <1>6, <1>7 DEF Owners

(* A worker creates a context.                                             *)
LEMMA WorkerCreates ==
  ASSUME TypeOK, Owners, NEW w \in Workers, ~Handling(w), NEW x \in Ctxs, Create(x),
         Goto(w, "acceptPost"), cur' = [cur EXCEPT ![w] = x],
         UNCHANGED <<inflight, lost, port, listener, lctx>>
  PROVE  Owners'
<1>1. /\ x \notin live /\ x \notin inflight /\ x \notin lost
      /\ op' = [op EXCEPT ![x] = "none"] /\ live' = live \cup {x}
      /\ pc' = [pc EXCEPT ![w] = "acceptPost"]
  BY DEF Create, TypeOK, Goto
<1>2. Loose' = Loose \cup {x} /\ x \notin Loose /\ \A y : Lists(y)' <=> Lists(y)
  BY <1>1 DEF Loose, Lists
<1>3. cur'[w] = x /\ \A v \in Workers : Handling(v)' /\ v # w => Handling(v) /\ cur'[v] = cur[v]
  BY <1>1 DEF Handling, TypeOK
<1>4. ~Lists(x)
  BY <1>2 DEF Lists, Owners, ListenerOwns
<1>5. WorkerOwns'
  <2>1. ASSUME NEW v \in Workers, Handling(v)', v # w PROVE cur'[v] \in Loose /\ ~Lists(cur'[v])
    BY <1>3, <2>1 DEF Owners, WorkerOwns
  <2>2. ASSUME NEW v \in Workers, Handling(v)' PROVE cur'[v] \in Loose' /\ ~Lists(cur'[v])
    BY <1>2, <1>3, <1>4, <2>1, <2>2
  <2>3. ASSUME NEW u \in Workers, NEW v \in Workers, Handling(u)', Handling(v)', cur'[u] = cur'[v]
        PROVE  u = v
    BY <1>2, <1>3, <2>1, <2>3 DEF Owners, WorkerOwns
  <2> QED BY <1>2, <2>2, <2>3 DEF WorkerOwns
<1>6. PacketOwns'
  <2>1. ASSUME NEW i \in 1 .. Len(port), Carries(i)
        PROVE  port[i].ctx \in Loose /\ op'[port[i].ctx] = op[port[i].ctx]
    BY <1>1, <1>2, <2>1 DEF Owners, PacketOwns, TypeOK, Loose
  <2>2. ASSUME NEW i \in 1 .. Len(port), Carries(i), NEW v \in Workers, Handling(v)'
        PROVE  cur'[v] # port[i].ctx
    BY <1>2, <1>3, <2>1, <2>2 DEF Owners, PacketOwns
  <2>3. \A i : Carries(i)' <=> Carries(i)
    BY DEF Carries
  <2> QED BY <1>2, <2>1, <2>2, <2>3 DEF Owners, PacketOwns
<1>7. KernelOwns' /\ ListenerOwns'
  BY <1>1, <1>2 DEF Owners, KernelOwns, ListenerOwns, TypeOK
<1> QED BY <1>5, <1>6, <1>7 DEF Owners

(* The same three moves on the listener thread.                            *)
LEMMA ListenerCreates ==
  ASSUME TypeOK, Owners, listener # "post", NEW x \in Ctxs, Create(x),
         lctx' = x, listener' = "post", UNCHANGED <<inflight, lost, port, pc, cur>>
  PROVE  Owners'
<1>1. /\ x \notin live /\ x \notin inflight /\ x \notin lost
      /\ op' = [op EXCEPT ![x] = "none"] /\ live' = live \cup {x}
  BY DEF Create, TypeOK
<1>2. Loose' = Loose \cup {x} /\ x \notin Loose /\ \A y : Lists(y)' <=> y = x
  BY <1>1 DEF Loose, Lists
<1>3. \A v \in Workers : Handling(v)' <=> Handling(v)
  BY DEF Handling
<1>4. WorkerOwns'
  BY <1>2, <1>3 DEF Owners, WorkerOwns
<1>5. PacketOwns'
  <2>1. ASSUME NEW i \in 1 .. Len(port), Carries(i)
        PROVE  port[i].ctx \in Loose /\ op'[port[i].ctx] = op[port[i].ctx]
    BY <1>1, <1>2, <2>1 DEF Owners, PacketOwns, TypeOK, Loose
  <2>2. \A i : Carries(i)' <=> Carries(i)
    BY DEF Carries
  <2> QED BY <1>2, <1>3, <2>1, <2>2 DEF Owners, PacketOwns
<1>6. KernelOwns' /\ ListenerOwns'
  BY <1>1, <1>2 DEF Owners, KernelOwns, ListenerOwns, TypeOK
<1> QED BY <1>4, <1>5, <1>6 DEF Owners

LEMMA ListenerFrees ==
  ASSUME TypeOK, Owners, listener = "post", Destroy(lctx), listener' = "new",
         UNCHANGED <<inflight, lost, port, pc, cur>>
  PROVE  Owners'
<1>1. /\ lctx \in Ctxs /\ lctx \in Loose /\ lctx \notin inflight
      /\ op' = [op EXCEPT ![lctx] = "none"] /\ live' = live \ {lctx}
  BY DEF Owners, ListenerOwns, Destroy, Freed, Loose, TypeOK
<1>2. Loose' = Loose \ {lctx} /\ \A y : ~Lists(y)' /\ (Lists(y) <=> y = lctx)
  BY <1>1 DEF Loose, Lists
<1>3. \A v \in Workers : Handling(v)' <=> Handling(v)
  BY DEF Handling
<1>4. WorkerOwns'
  BY <1>2, <1>3 DEF Owners, WorkerOwns
<1>5. PacketOwns'
  <2>1. ASSUME NEW i \in 1 .. Len(port), Carries(i)
        PROVE  port[i].ctx \in Loose' /\ op'[port[i].ctx] = op[port[i].ctx]
    BY <1>1, <1>2, <2>1 DEF Owners, PacketOwns, TypeOK, Loose
  <2>2. \A i : Carries(i)' <=> Carries(i)
    BY DEF Carries
  <2> QED BY <1>2, <1>3, <2>1, <2>2 DEF Owners, PacketOwns
<1>6. KernelOwns' /\ ListenerOwns'
  BY <1>1, <1>2 DEF Owners, KernelOwns, ListenerOwns, TypeOK
<1> QED BY <1>4, <1>5, <1>6 DEF Owners

LEMMA ListenerPosts ==
  ASSUME TypeOK, Owners, listener = "post", Post(lctx, "accept"), listener' = "new",
         UNCHANGED <<live, lost, port, pc, cur>>
  PROVE  Owners'
<1>1. /\ lctx \in Ctxs /\ lctx \in Loose /\ lctx \notin lost
      /\ op' = [op EXCEPT ![lctx] = "accept"] /\ inflight' = inflight \cup {lctx}
  BY DEF Owners, ListenerOwns, Post, Posted, Loose, TypeOK
<1>2. Loose' = Loose \ {lctx} /\ \A y : ~Lists(y)' /\ (Lists(y) <=> y = lctx)
  BY <1>1 DEF Loose, Lists
<1>3. \A v \in Workers : Handling(v)' <=> Handling(v)
  BY DEF Handling
<1>4. WorkerOwns'
  BY <1>2, <1>3 DEF Owners, WorkerOwns
<1>5. PacketOwns'
  <2>1. ASSUME NEW i \in 1 .. Len(port), Carries(i)
        PROVE  port[i].ctx \in Loose' /\ op'[port[i].ctx] = op[port[i].ctx]
    BY <1>1, <1>2, <2>1 DEF Owners, PacketOwns, TypeOK, Loose
  <2>2. \A i : Carries(i)' <=> Carries(i)
    BY DEF Carries
  <2> QED BY <1>2, <1>3, <2>1, <2>2 DEF Owners, PacketOwns
<1>6. KernelOwns' /\ ListenerOwns'
  BY <1>1, <1>2 DEF Owners, KernelOwns, ListenerOwns, TypeOK, Ops
<1> QED BY <1>4, <1>5, <1>6 DEF Owners
-----------------------------------------------------------------------------
(* A packet is queued: the one of a context the kernel gives back, or one  *)
(* that ends a worker.                                                     *)
LEMMA PacketQueued ==
  ASSUME TypeOK, NEW p \in Packet, port' = Append(port, p)
  PROVE  /\ Len(port) \in Nat /\ Len(port') = Len(port) + 1
         /\ \A i \in 1 .. Len(port') : i \in 1 .. Len(port) \/ i = Len(port')
         /\ \A i \in 1 .. Len(port) : port'[i] = port[i] /\ i # Len(port')
         /\ port'[Len(port')] = p
         /\ port' \in Seq(Packet)
<1>1. port \in Seq(Packet) /\ Len(port) \in Nat
  BY LenProperties DEF TypeOK
<1>2. /\ Len(port') = Len(port) + 1 /\ port' \in Seq(Packet)
      /\ \A i \in 1 .. Len(port) : port'[i] = port[i]
      /\ port'[Len(port) + 1] = p
  BY <1>1, AppendProperties
<1> QED BY <1>1, <1>2

LEMMA KernelGivesBack ==
  ASSUME TypeOK, Owners, NEW x \in Ctxs, KernelCompletes(x)
  PROVE  Owners'
<1>1. /\ x \in inflight /\ x \notin Loose /\ inflight' = inflight \ {x} /\ x \notin lost /\ x \in live
      /\ UNCHANGED <<live, op, pc, cur, listener, lctx>>
      /\ op[x] \in Ops
  BY DEF KernelCompletes, Owners, KernelOwns, Loose, TypeOK, lstVars
<1>2. /\ \A w \in Workers : (Handling(w)' <=> Handling(w)) /\ (Handling(w) => cur[w] # x)
      /\ \A y : Lists(y)' <=> Lists(y)
      /\ ~Lists(x)
      /\ \A i \in 1 .. Len(port) : Carries(i) => port[i].ctx # x
  BY <1>1 DEF Handling, Lists, Owners, WorkerOwns, ListenerOwns, PacketOwns
<1>3. CASE ~portOpen
  <2>1. lost' = lost \cup {x} /\ port' = port
    BY <1>3 DEF KernelCompletes
  <2>2. Loose' = Loose
    BY <1>1, <2>1 DEF Loose
  <2>3. WorkerOwns'
    BY <1>1, <1>2, <2>2 DEF Owners, WorkerOwns
  <2>4. \A i : Carries(i)' <=> Carries(i)
    BY <2>1 DEF Carries
  <2>5. PacketOwns'
    BY <1>1, <1>2, <2>1, <2>2, <2>4 DEF Owners, PacketOwns
  <2>6. KernelOwns' /\ ListenerOwns'
    BY <1>1, <2>1, <2>2 DEF Owners, KernelOwns, ListenerOwns
  <2> QED BY <2>3, <2>5, <2>6 DEF Owners
<1>4. CASE portOpen
  <2>1. PICK r \in Result(x) \cup Failure(x) :
           port' = Append(port, [ctx |-> x, ok |-> r.ok, bytes |-> r.bytes]) /\ lost' = lost
    BY <1>4 DEF KernelCompletes
  <2>2. r.ok \in BOOLEAN /\ r.bytes \in {0, 1}
    BY <1>1 DEF Result, Failure, Aborted, Ops
  <2> DEFINE p == [ctx |-> x, ok |-> r.ok, bytes |-> r.bytes]
  <2>3. p \in Packet /\ p.ctx = x /\ x # NoCtx /\ port' = Append(port, p)
    BY <2>1, <2>2, Constants DEF Packet
  <2> HIDE DEF p
  <2> DEFINE n == Len(port')
  <2>4. /\ \A i \in 1 .. n : i \in 1 .. Len(port) \/ i = n
        /\ \A i \in 1 .. Len(port) : port'[i] = port[i]
        /\ port'[n].ctx = x
    BY <2>3, PacketQueued
  <2> HIDE DEF n
  <2>5. Loose' = Loose \cup {x}
    BY <1>1, <2>1 DEF Loose
  <2>6. WorkerOwns'
    BY <1>1, <1>2, <2>5 DEF Owners, WorkerOwns
  <2>7. \A i \in 1 .. n : Carries(i)' => /\ i = n => port'[i].ctx = x
                                         /\ i # n => i \in 1 .. Len(port) /\ Carries(i)
                                                     /\ port'[i] = port[i] /\ port[i].ctx # x
    BY <1>2, <2>4 DEF Carries
  <2>8. ASSUME NEW i \in 1 .. n, Carries(i)'
        PROVE  /\ port'[i].ctx \in Loose' /\ ~Lists(port'[i].ctx)
               /\ op'[port'[i].ctx] \in Ops
               /\ \A w \in Workers : Handling(w)' => cur'[w] # port'[i].ctx
    <3>1. CASE i = n
      BY <1>1, <1>2, <2>5, <2>7, <2>8, <3>1
    <3>2. CASE i # n
      BY <1>1, <1>2, <2>5, <2>7, <2>8, <3>2 DEF Owners, PacketOwns
    <3> QED BY <3>1, <3>2
  <2>9. ASSUME NEW i \in 1 .. n, NEW j \in 1 .. n, Carries(i)', port'[i].ctx = port'[j].ctx
        PROVE  i = j
    <3>1. Carries(j)'
      BY <2>9 DEF Carries
    <3> QED BY <2>7, <2>9, <3>1 DEF Owners, PacketOwns
  <2>10. PacketOwns'
    BY <1>1, <2>8, <2>9 DEF PacketOwns, n, Lists
  <2>11. KernelOwns' /\ ListenerOwns'
    BY <1>1, <2>1, <2>5 DEF Owners, KernelOwns, ListenerOwns
  <2> QED BY <2>6, <2>10, <2>11 DEF Owners
<1> QED BY <1>3, <1>4

LEMMA ShutdownQueued ==
  ASSUME TypeOK, Owners, port' = Append(port, ShutdownPacket),
         UNCHANGED <<live, inflight, lost, op, pc, cur, listener, lctx>>
  PROVE  Owners'
<1> DEFINE n == Len(port')
<1>1. ShutdownPacket \in Packet /\ ShutdownPacket.ctx = NoCtx
  BY DEF ShutdownPacket, Packet
<1>2. /\ \A i \in 1 .. n : i \in 1 .. Len(port) \/ i = n
      /\ \A i \in 1 .. Len(port) : port'[i] = port[i]
      /\ port'[n].ctx = NoCtx
  BY <1>1, PacketQueued
<1> HIDE DEF n
<1>3. \A i \in 1 .. n : Carries(i)' => i \in 1 .. Len(port) /\ Carries(i) /\ port'[i] = port[i]
  BY <1>2 DEF Carries
<1>4. /\ \A w \in Workers : Handling(w)' <=> Handling(w)
      /\ \A y : Lists(y)' <=> Lists(y)
      /\ Loose' = Loose
  BY DEF Handling, Lists, Loose
<1>5. WorkerOwns' /\ KernelOwns' /\ ListenerOwns'
  BY <1>4 DEF Owners, WorkerOwns, KernelOwns, ListenerOwns
<1>6. ASSUME NEW i \in 1 .. n, NEW j \in 1 .. n, Carries(i)', port'[i].ctx = port'[j].ctx
      PROVE  i = j
  <2>1. Carries(j)'
    BY <1>6 DEF Carries
  <2> QED BY <1>3, <1>6, <2>1 DEF Owners, PacketOwns
<1>7. PacketOwns'
  BY <1>3, <1>4, <1>6 DEF Owners, PacketOwns, n
<1> QED BY <1>5, <1>7 DEF Owners

(* A worker gets the oldest packet, and owns its context, unless it ends.  *)
LEMMA PacketTaken ==
  ASSUME TypeOK, port # <<>>, port' = Tail(port)
  PROVE  /\ Len(port) \in Nat \ {0} /\ Head(port) = port[1] /\ 1 \in 1 .. Len(port)
         /\ Head(port) \in Packet
         /\ \A i \in 1 .. Len(port') : i + 1 \in 1 .. Len(port) /\ port'[i] = port[i + 1] /\ i + 1 # 1
         /\ \A i, j \in 1 .. Len(port') : i + 1 = j + 1 => i = j
         /\ port' \in Seq(Packet)
<1>1. port \in Seq(Packet) /\ Len(port) \in Nat \ {0}
  BY LenProperties, EmptySeq DEF TypeOK
<1>2. /\ Len(port') = Len(port) - 1 /\ port' \in Seq(Packet)
      /\ \A i \in 1 .. Len(port') : port'[i] = port[i + 1]
      /\ Head(port) = port[1] /\ Head(port) \in Packet
  BY <1>1, HeadTailProperties
<1> QED BY <1>1, <1>2

LEMMA PacketToWorker ==
  ASSUME TypeOK, Owners, NEW w \in Workers, WorkerGet(w)
  PROVE  Owners'
<1> DEFINE x == Head(port).ctx
<1>1. /\ ~Handling(w) /\ port # <<>> /\ port' = Tail(port)
      /\ UNCHANGED <<live, inflight, op, listener, lctx>>
  BY DEF WorkerGet, Handling, Using, lstVars
<1>2. /\ Head(port) = port[1] /\ 1 \in 1 .. Len(port) /\ Head(port) \in Packet
      /\ \A i \in 1 .. Len(port') : i + 1 \in 1 .. Len(port) /\ port'[i] = port[i + 1] /\ i + 1 # 1
      /\ \A i, j \in 1 .. Len(port') : i + 1 = j + 1 => i = j
  BY <1>1, PacketTaken
<1>3. x = port[1].ctx /\ x \in Ctxs \cup {NoCtx}
  BY <1>2 DEF Packet
<1> HIDE DEF x
<1>4. \A i \in 1 .. Len(port') : Carries(i)' =>
         /\ Carries(i + 1) /\ port'[i] = port[i + 1] /\ port'[i].ctx # x
  BY <1>2, <1>3 DEF Carries, Owners, PacketOwns
<1>5. ASSUME NEW i \in 1 .. Len(port'), NEW j \in 1 .. Len(port'),
             Carries(i)', port'[i].ctx = port'[j].ctx
      PROVE  i = j
  <2>1. i + 1 \in 1 .. Len(port) /\ j + 1 \in 1 .. Len(port) /\ port'[j] = port[j + 1]
    BY <1>2
  <2>2. i + 1 = j + 1
    BY <1>4, <1>5, <2>1 DEF Owners, PacketOwns
  <2> QED BY <1>2, <2>2
<1>6. \A y : Lists(y)' <=> Lists(y)
  BY <1>1 DEF Lists
<1>7. x # NoCtx => x \in Loose /\ ~Lists(x) /\ op[x] \in Ops
                   /\ \A v \in Workers : Handling(v) => cur[v] # x
  BY <1>2, <1>3 DEF Carries, Owners, PacketOwns
<1>8. CASE x = NoCtx \/ ~Head(port).ok
  <2>1. pc' = [pc EXCEPT ![w] = "exited"] /\ lost' = lost \cup ({x} \ {NoCtx}) /\ cur' = cur
    BY <1>8 DEF WorkerGet, Goto, x
  <2>2. \A v \in Workers : Handling(v)' => Handling(v)
    BY <2>1 DEF Handling, Using, TypeOK
  <2>3. Loose' = Loose \ {x}
    BY <1>1, <2>1, Constants DEF Loose, TypeOK
  <2>4. WorkerOwns'
    BY <1>6, <1>7, <2>1, <2>2, <2>3, Constants DEF Owners, WorkerOwns, Loose, TypeOK
  <2>5. ASSUME NEW i \in 1 .. Len(port'), Carries(i)'
        PROVE  /\ port'[i].ctx \in Loose' /\ ~Lists(port'[i].ctx)
               /\ op'[port'[i].ctx] \in Ops
               /\ \A v \in Workers : Handling(v)' => cur'[v] # port'[i].ctx
    <3>1. i + 1 \in 1 .. Len(port)
      BY <1>2
    <3> QED BY <1>1, <1>4, <1>6, <2>1, <2>2, <2>3, <2>5, <3>1 DEF Owners, PacketOwns
  <2>6. PacketOwns'
    BY <1>1, <1>5, <2>5 DEF PacketOwns, Lists
  <2>7. KernelOwns' /\ ListenerOwns'
    BY <1>1, <1>7, <2>1, <2>3, Constants DEF Owners, KernelOwns, ListenerOwns, Loose, Lists, TypeOK
  <2> QED BY <2>4, <2>6, <2>7 DEF Owners
<1>9. CASE x # NoCtx /\ Head(port).ok
  <2>1. /\ \E to : pc' = [pc EXCEPT ![w] = to]
        /\ cur' = [cur EXCEPT ![w] = x] /\ lost' = lost
    BY <1>9 DEF WorkerGet, Goto, x
  <2>2. \A v \in Workers : v # w => (Handling(v)' <=> Handling(v)) /\ cur'[v] = cur[v]
    BY <2>1 DEF Handling, TypeOK
  <2>3. cur'[w] = x /\ Loose' = Loose
    BY <1>1, <2>1 DEF TypeOK, Loose
  <2>4. WorkerOwns'
    <3>1. ASSUME NEW v \in Workers, Handling(v)' PROVE cur'[v] \in Loose /\ ~Lists(cur'[v])
      BY <1>7, <1>9, <2>2, <2>3, <3>1 DEF Owners, WorkerOwns
    <3>2. ASSUME NEW u \in Workers, NEW v \in Workers, Handling(u)', Handling(v)', cur'[u] = cur'[v]
          PROVE  u = v
      BY <1>7, <1>9, <2>2, <2>3, <3>2 DEF Owners, WorkerOwns
    <3> QED BY <1>6, <2>3, <3>1, <3>2 DEF WorkerOwns
  <2>5. ASSUME NEW i \in 1 .. Len(port'), Carries(i)'
        PROVE  /\ port'[i].ctx \in Loose' /\ ~Lists(port'[i].ctx)
               /\ op'[port'[i].ctx] \in Ops
               /\ \A v \in Workers : Handling(v)' => cur'[v] # port'[i].ctx
    <3>1. i + 1 \in 1 .. Len(port) /\ Carries(i + 1) /\ port'[i] = port[i + 1] /\ port'[i].ctx # x
      BY <1>2, <1>4, <2>5
    <3> QED BY <1>1, <1>6, <2>2, <2>3, <3>1 DEF Owners, PacketOwns
  <2>6. PacketOwns'
    BY <1>1, <1>5, <2>5 DEF PacketOwns, Lists
  <2>7. KernelOwns' /\ ListenerOwns'
    BY <1>1, <2>1, <2>3 DEF Owners, KernelOwns, ListenerOwns
  <2> QED BY <2>4, <2>6, <2>7 DEF Owners
<1> QED BY <1>8, <1>9

(* The port is closed with the packets that are in it.                     *)
LEMMA PortCloses == ASSUME TypeOK, Owners, PoolClose PROVE Owners'
<1> DEFINE P == {port[i].ctx : i \in 1 .. Len(port)} \ {NoCtx}
<1>1. /\ port' = <<>> /\ lost' = lost \cup P
      /\ UNCHANGED <<live, inflight, op, pc, cur, listener, lctx>>
  BY DEF PoolClose, lstVars
<1>2. \A x \in P : /\ x \in Loose /\ ~Lists(x) /\ \A w \in Workers : Handling(w) => cur[w] # x
  BY DEF Owners, PacketOwns, Carries
<1> HIDE DEF P
<1>3. /\ \A w \in Workers : Handling(w)' <=> Handling(w)
      /\ \A y : Lists(y)' <=> Lists(y)
      /\ Loose' = Loose \ P
  BY <1>1 DEF Handling, Lists, Loose
<1>4. WorkerOwns'
  BY <1>1, <1>2, <1>3 DEF Owners, WorkerOwns
<1>5. PacketOwns'
  <2>1. Len(port') = 0
    BY <1>1
  <2> QED BY <2>1 DEF PacketOwns
<1>6. KernelOwns' /\ ListenerOwns'
  BY <1>1, <1>2, <1>3 DEF Owners, KernelOwns, ListenerOwns, Loose, Lists
<1> QED BY <1>4, <1>5, <1>6 DEF Owners
-----------------------------------------------------------------------------
(* One step.  The owners, action by action.                                *)
LEMMA WorkerOwners ==
  ASSUME TypeOK, Owners, NEW w \in Workers, WorkerStep(w)
  PROVE  Owners'
<1>1. CASE WorkerLoop(w) \/ WorkerPortClosed(w)
  BY <1>1, NothingMoves
     DEF WorkerLoop, WorkerPortClosed, Goto, Handling, Using, TypeOK, ctxVars, portVars, lstVars
<1>2. CASE WorkerGet(w)
  BY <1>2, PacketToWorker
<1>3. ASSUME NEW ok \in BOOLEAN, AcceptAssociate(w, ok) PROVE Owners'
  <2>1. CASE ok
    BY <1>3, <2>1, NothingMoves
       DEF AcceptAssociate, Goto, Handling, Using, TypeOK, portVars, lstVars
  <2>2. CASE ~ok
    <3>1. Handling(w) /\ Return(w) /\ Destroy(cur[w])
      BY <1>3, <2>2 DEF AcceptAssociate, Handling, Using
    <3> QED BY <1>3, <3>1, WorkerFrees DEF AcceptAssociate, Destroy, portVars, lstVars
  <2> QED BY <2>1, <2>2
<1>4. ASSUME NEW ok \in BOOLEAN, AcceptRecv(w, ok) PROVE Owners'
  <2>1. CASE ok
    <3>1. /\ Handling(w) /\ Post(cur[w], "recv") /\ pc' = [pc EXCEPT ![w] = "acceptNew"]
          /\ cur' = [cur EXCEPT ![w] = NoCtx] /\ "acceptNew" \notin Using /\ "recv" \in Ops
      BY <1>4, <2>1 DEF AcceptRecv, Handling, Using, Goto, Ops
    <3> QED BY <1>4, <2>1, <3>1, WorkerPosts DEF AcceptRecv, portVars, lstVars
  <2>2. CASE ~ok
    <3>1. Handling(w) /\ Return(w) /\ Destroy(cur[w])
      BY <1>4, <2>2 DEF AcceptRecv, Handling, Using
    <3> QED BY <1>4, <2>2, <3>1, WorkerFrees DEF AcceptRecv, Destroy, portVars, lstVars
  <2> QED BY <2>1, <2>2
<1>5. ASSUME NEW ok \in BOOLEAN, AcceptPost(w, ok) PROVE Owners'
  <2>1. Handling(w) /\ Return(w) /\ "loop" \notin Using /\ "accept" \in Ops
    BY <1>5 DEF AcceptPost, Handling, Using, Ops
  <2>2. CASE ok /\ ssocket = "open"
    BY <1>5, <2>1, <2>2, WorkerPosts DEF AcceptPost, Return, Goto, portVars, lstVars
  <2>3. CASE ~(ok /\ ssocket = "open")
    BY <1>5, <2>1, <2>3, WorkerFrees DEF AcceptPost, Destroy, portVars, lstVars
  <2> QED BY <2>2, <2>3
<1>6. ASSUME NEW ok \in BOOLEAN, NEW n \in Bodies, RecvAnswer(w, n, ok) PROVE Owners'
  <2>1. Handling(w) /\ Return(w) /\ "loop" \notin Using /\ "send" \in Ops
    BY <1>6 DEF RecvAnswer, Handling, Using, Ops
  <2>2. CASE ok
    BY <1>6, <2>1, <2>2, WorkerPosts DEF RecvAnswer, Return, Goto, portVars, lstVars
  <2>3. CASE ~ok
    BY <1>6, <2>1, <2>3, WorkerFrees DEF RecvAnswer, Destroy, portVars, lstVars
  <2> QED BY <2>2, <2>3
<1>7. CASE AcceptNew(w)
  <2>1. ~Handling(w) /\ UNCHANGED <<inflight, lost, port, listener, lctx>>
    BY <1>7 DEF AcceptNew, Handling, Using, portVars, lstVars
  <2>2. CASE NoMemory
    BY <1>7, <2>1, <2>2, NothingMoves DEF AcceptNew, Return, Goto, Handling, Using, TypeOK
  <2>3. CASE ~NoMemory
    <3>1. PICK x \in Ctxs : /\ Create(x) /\ cur' = [cur EXCEPT ![w] = x]
                            /\ Goto(w, "acceptPost")
      BY <1>7, <2>3 DEF AcceptNew
    <3> QED BY <2>1, <3>1, WorkerCreates
  <2> QED BY <2>2, <2>3
<1>8. CASE RecvDisconnected(w)
  <2>1. Handling(w)
    BY <1>8 DEF RecvDisconnected, Handling, Using
  <2> QED BY <1>8, <2>1, WorkerFrees DEF RecvDisconnected, FreedOnDisconnect, portVars, lstVars
<1>9. CASE SendChunk(w)
  <2>1. Handling(w) /\ Return(w) /\ "loop" \notin Using /\ "send" \in Ops
    BY <1>9 DEF SendChunk, Handling, Using, Ops
  <2> QED BY <1>9, <2>1, WorkerPosts DEF SendChunk, Return, Goto, portVars, lstVars
<1>10. CASE SendEnd(w)
  <2>1. Handling(w)
    BY <1>10 DEF SendEnd, Handling, Using
  <2> QED BY <1>10, <2>1, WorkerFrees DEF SendEnd, LentAfterEnd, Destroy, portVars, lstVars
<1> QED
  BY <1>1, <1>2, <1>3, <1>4, <1>5, <1>6, <1>7, <1>8, <1>9, <1>10 DEF WorkerStep, Outcomes

LEMMA ListenerOwners ==
  ASSUME TypeOK, Owners, ListenerStep
  PROVE  Owners'
<1>1. ASSUME NEW ok \in BOOLEAN, ListenerAssociate(ok) PROVE Owners'
  BY <1>1, NothingMoves DEF ListenerAssociate, Handling, ctxVars, portVars
<1>2. ASSUME NEW ok \in BOOLEAN, ListenerPost(ok) PROVE Owners'
  <2>1. CASE ok /\ ssocket = "open"
    BY <1>2, <2>1, ListenerPosts DEF ListenerPost, portVars
  <2>2. CASE ~(ok /\ ssocket = "open")
    BY <1>2, <2>2, ListenerFrees DEF ListenerPost, portVars
  <2> QED BY <2>1, <2>2
<1>3. CASE ListenerNew
  <2>1. CASE ~MoreAccepts \/ NoMemory
    BY <1>3, <2>1, NothingMoves DEF ListenerNew, Handling, portVars
  <2>2. CASE MoreAccepts /\ ~NoMemory
    <3>1. PICK x \in Ctxs : Create(x) /\ lctx' = x /\ listener' = "post"
      BY <1>3, <2>2 DEF ListenerNew
    <3> QED BY <1>3, <3>1, ListenerCreates DEF ListenerNew, portVars
  <2> QED BY <2>1, <2>2
<1>4. CASE ListenerStop \/ Cleanup
  BY <1>4, NothingMoves DEF ListenerStop, Cleanup, Handling, ctxVars, portVars
<1> QED BY <1>1, <1>2, <1>3, <1>4 DEF ListenerStep, Outcomes

LEMMA GuiOwners ==
  ASSUME TypeOK, Owners, Start \/ StopServer \/ Shutdown
  PROVE  Owners'
<1>1. ASSUME NEW ok \in BOOLEAN, InitPort(ok) PROVE Owners'
  BY <1>1, NothingMoves DEF InitPort, Handling, ctxVars, lstVars
<1>2. ASSUME NEW ok \in BOOLEAN, CreateWorker(ok) PROVE Owners'
  BY <1>2, NothingMoves
     DEF CreateWorker, Goto, Handling, Using, TypeOK, ctxVars, portVars, lstVars
<1>3. CASE StartListener \/ StopServer \/ PoolFlag \/ PoolJoin \/ CloseSocket
  BY <1>3, NothingMoves
     DEF StartListener, StopServer, PoolFlag, PoolJoin, CloseSocket, Handling,
         ctxVars, portVars, lstVars
<1>4. CASE PoolPost
  <2>1. CASE count < PacketsToPost
    BY <1>4, <2>1, ShutdownQueued DEF PoolPost, ctxVars, lstVars
  <2>2. CASE ~(count < PacketsToPost)
    BY <1>4, <2>2, NothingMoves DEF PoolPost, Handling, ctxVars, lstVars
  <2> QED BY <2>1, <2>2
<1>5. CASE PoolClose
  BY <1>5, PortCloses
<1> QED BY <1>1, <1>2, <1>3, <1>4, <1>5 DEF Start, Shutdown

LEMMA OwnersStep == ASSUME TypeOK, Owners, [Next]_vars PROVE Owners'
<1>1. CASE UNCHANGED vars
  BY <1>1, NothingMoves DEF vars, ctxVars, portVars, lstVars, Handling
<1>2. CASE Start \/ StopServer \/ Shutdown
  BY <1>2, GuiOwners
<1>3. CASE ListenerStep
  BY <1>3, ListenerOwners
<1>4. ASSUME NEW x \in Ctxs, KernelCompletes(x) PROVE Owners'
  BY <1>4, KernelGivesBack
<1>5. ASSUME NEW w \in Workers, WorkerStep(w) PROVE Owners'
  BY <1>5, WorkerOwners
<1> QED BY <1>1, <1>2, <1>3, <1>4, <1>5 DEF Next, Terminated
-----------------------------------------------------------------------------
(* Types.  The parts of TypeOK, and what the moves of a context do to the  *)
(* first: what a worker or the listener frees is neither lent nor lost.    *)
CtxTypes ==
    /\ live \subseteq Ctxs /\ inflight \subseteq live /\ lost \subseteq live
    /\ op \in [Ctxs -> {"none", "accept", "recv", "send"}]
    /\ body \in [Ctxs -> 0 .. MaxChunks]

WorkerTypes ==
    /\ pc \in [Workers -> {"off", "loop", "get", "accept", "acceptRecv", "acceptNew",
                           "acceptPost", "recv", "disconnect", "send", "exited"}]
    /\ cur \in [Workers -> Ctxs \cup {NoCtx}]

PortTypes == port \in Seq(Packet) /\ portOpen \in BOOLEAN

RestTypes ==
    /\ running \in BOOLEAN /\ isShutdown \in BOOLEAN
    /\ ssocket \in {"none", "open", "closed"}
    /\ posted \in 0 .. ThreadCount /\ count \in 0 .. ThreadCount
    /\ listener \in {"off", "assoc", "new", "post", "sleep", "cleanup", "exited"}
    /\ lctx \in Ctxs \cup {NoCtx}
    /\ gui \in {"init", "create", "start", "up", "flag", "post", "join", "socket", "done"}

LEMMA Parts ==
    /\ TypeOK <=> CtxTypes /\ WorkerTypes /\ PortTypes /\ RestTypes
    /\ TypeOK' <=> CtxTypes' /\ WorkerTypes' /\ PortTypes' /\ RestTypes'
BY DEF TypeOK, CtxTypes, WorkerTypes, PortTypes, RestTypes

LEMMA DestroyTypes ==
  ASSUME CtxTypes, NEW x \in Loose, Freed(x), live' = live \ {x}, UNCHANGED <<inflight, lost>>
  PROVE  CtxTypes'
<1>1. 0 \in 0 .. MaxChunks
  BY Constants
<1> QED BY <1>1 DEF CtxTypes, Freed, Loose

LEMMA PostTypes ==
  ASSUME CtxTypes, NEW x \in Loose, NEW o \in Ops, Post(x, o), UNCHANGED <<live, lost>>,
         body' \in [Ctxs -> 0 .. MaxChunks]
  PROVE  CtxTypes'
BY DEF CtxTypes, Post, Posted, Loose, Ops

LEMMA CreateTypes ==
  ASSUME CtxTypes, NEW x \in Ctxs, Create(x), UNCHANGED <<inflight, lost>>
  PROVE  CtxTypes'
<1>1. 0 \in 0 .. MaxChunks
  BY Constants
<1> QED BY <1>1 DEF CtxTypes, Create

LEMMA GotoTypes ==
  ASSUME WorkerTypes, NEW w,
         NEW to \in {"off", "loop", "get", "accept", "acceptRecv", "acceptNew",
                     "acceptPost", "recv", "disconnect", "send", "exited"},
         pc' = [pc EXCEPT ![w] = to],
         \/ UNCHANGED cur
         \/ \E x \in Ctxs \cup {NoCtx} : cur' = [cur EXCEPT ![w] = x]
  PROVE  WorkerTypes'
BY DEF WorkerTypes

LEMMA ReturnTypes == ASSUME WorkerTypes, NEW w, Return(w) PROVE WorkerTypes'
BY GotoTypes DEF Return, Goto

LEMMA WorkerTyping ==
  ASSUME TypeOK, Owners, NEW w \in Workers, WorkerStep(w)
  PROVE  TypeOK' /\ UNCHANGED <<guiVars, lstVars>>
<1> USE Parts
<1>1. UNCHANGED <<guiVars, lstVars, portOpen, ssocket>> /\ RestTypes'
  <2>1. UNCHANGED <<guiVars, lstVars, portOpen, ssocket>>
    BY DEF WorkerStep, WorkerLoop, WorkerGet, WorkerPortClosed, AcceptAssociate, AcceptRecv,
           AcceptPost, RecvAnswer, AcceptNew, RecvDisconnected, SendChunk, SendEnd, portVars
  <2> QED BY <2>1 DEF RestTypes, guiVars, lstVars
<1>2. Handling(w) => cur[w] \in Loose /\ cur[w] \in Ctxs
  BY DEF Owners, WorkerOwns, Loose, CtxTypes
<1>3. CASE WorkerLoop(w) \/ WorkerPortClosed(w)
  <2>1. UNCHANGED <<ctxVars, portVars, cur>> /\ \E to \in {"exited", "get"} : Goto(w, to)
    BY <1>3 DEF WorkerLoop, WorkerPortClosed
  <2>2. WorkerTypes'
    BY <2>1, GotoTypes DEF Goto
  <2> QED BY <1>1, <2>1, <2>2 DEF CtxTypes, PortTypes, ctxVars, portVars
<1>4. CASE WorkerGet(w)
  <2> DEFINE p == Head(port)
  <2>1. p \in Packet /\ p = port[1] /\ 1 \in 1 .. Len(port) /\ port' \in Seq(Packet)
    BY <1>4, PacketTaken DEF WorkerGet
  <2>2. p.ctx \in Ctxs \cup {NoCtx} /\ (p.ctx # NoCtx => p.ctx \in live /\ op[p.ctx] \in Ops)
    BY <2>1 DEF Packet, Owners, PacketOwns, Carries, Loose
  <2>3. UNCHANGED <<live, inflight, op, body>>
    BY <1>4 DEF WorkerGet
  <2>4. CASE p.ctx = NoCtx \/ ~p.ok
    <3>1. Goto(w, "exited") /\ lost' = lost \cup ({p.ctx} \ {NoCtx}) /\ UNCHANGED cur
      BY <1>4, <2>4 DEF WorkerGet
    <3> HIDE DEF p
    <3>2. WorkerTypes'
      BY <3>1, GotoTypes DEF Goto
    <3> QED BY <1>1, <2>1, <2>2, <2>3, <3>1, <3>2 DEF CtxTypes, PortTypes
  <2>5. CASE ~(p.ctx = NoCtx \/ ~p.ok)
    <3>1. /\ Goto(w, Handler(p.ctx, p.bytes)) /\ cur' = [cur EXCEPT ![w] = p.ctx]
          /\ UNCHANGED lost
      BY <1>4, <2>5 DEF WorkerGet
    <3> HIDE DEF p
    <3>2. Handler(p.ctx, p.bytes) \in {"accept", "recv", "disconnect", "send"}
      BY <2>2, <2>5 DEF Handler, Ops
    <3>3. WorkerTypes'
      BY <2>2, <3>1, <3>2, GotoTypes DEF Goto
    <3> QED BY <1>1, <2>1, <2>3, <3>1, <3>3 DEF CtxTypes, PortTypes
  <2> QED BY <2>4, <2>5
<1>5. ASSUME NEW ok \in BOOLEAN, AcceptAssociate(w, ok) PROVE TypeOK'
  <2>1. Handling(w) /\ PortTypes'
    BY <1>5 DEF AcceptAssociate, Handling, Using, PortTypes, portVars
  <2>2. CASE ok
    <3>1. WorkerTypes'
      BY <1>5, <2>2, GotoTypes DEF AcceptAssociate, Goto
    <3> QED BY <1>1, <1>5, <2>1, <2>2, <3>1 DEF AcceptAssociate, CtxTypes
  <2>3. CASE ~ok
    BY <1>1, <1>2, <1>5, <2>1, <2>3, ReturnTypes, DestroyTypes DEF AcceptAssociate, Destroy
  <2> QED BY <2>2, <2>3
<1>6. ASSUME NEW ok \in BOOLEAN, AcceptRecv(w, ok) PROVE TypeOK'
  <2>1. Handling(w) /\ PortTypes' /\ "recv" \in Ops
    BY <1>6 DEF AcceptRecv, Handling, Using, PortTypes, portVars, Ops
  <2>2. CASE ok
    <3>1. WorkerTypes'
      BY <1>6, <2>2, GotoTypes DEF AcceptRecv, Goto
    <3>2. CtxTypes'
      BY <1>2, <1>6, <2>1, <2>2, PostTypes DEF AcceptRecv, CtxTypes
    <3> QED BY <1>1, <2>1, <3>1, <3>2
  <2>3. CASE ~ok
    BY <1>1, <1>2, <1>6, <2>1, <2>3, ReturnTypes, DestroyTypes DEF AcceptRecv, Destroy
  <2> QED BY <2>2, <2>3
<1>7. ASSUME NEW ok \in BOOLEAN, AcceptPost(w, ok) PROVE TypeOK'
  <2>1. Handling(w) /\ PortTypes' /\ WorkerTypes' /\ "accept" \in Ops
    BY <1>7, ReturnTypes DEF AcceptPost, Handling, Using, PortTypes, portVars, Ops
  <2>2. CASE ok /\ ssocket = "open"
    <3>1. CtxTypes'
      BY <1>2, <1>7, <2>1, <2>2, PostTypes DEF AcceptPost, CtxTypes
    <3> QED BY <1>1, <2>1, <3>1
  <2>3. CASE ~(ok /\ ssocket = "open")
    BY <1>1, <1>2, <1>7, <2>1, <2>3, DestroyTypes DEF AcceptPost, Destroy
  <2> QED BY <2>2, <2>3
<1>8. ASSUME NEW ok \in BOOLEAN, NEW n \in Bodies, RecvAnswer(w, n, ok) PROVE TypeOK'
  <2>1. Handling(w) /\ PortTypes' /\ WorkerTypes' /\ "send" \in Ops
    BY <1>8, ReturnTypes DEF RecvAnswer, Handling, Using, PortTypes, portVars, Ops
  <2>2. CASE ok
    <3>1. CtxTypes'
      BY <1>2, <1>8, <2>1, <2>2, PostTypes DEF RecvAnswer, CtxTypes, Bodies
    <3> QED BY <1>1, <2>1, <3>1
  <2>3. CASE ~ok
    BY <1>1, <1>2, <1>8, <2>1, <2>3, DestroyTypes DEF RecvAnswer, Destroy
  <2> QED BY <2>2, <2>3
<1>9. CASE AcceptNew(w)
  <2>1. PortTypes' /\ UNCHANGED <<inflight, lost>>
    BY <1>9 DEF AcceptNew, PortTypes, portVars
  <2>2. CASE NoMemory
    BY <1>1, <1>9, <2>1, <2>2, ReturnTypes DEF AcceptNew, CtxTypes
  <2>3. CASE ~NoMemory
    <3>1. PICK x \in Ctxs : /\ Create(x) /\ cur' = [cur EXCEPT ![w] = x]
                            /\ Goto(w, "acceptPost")
      BY <1>9, <2>3 DEF AcceptNew
    <3>2. WorkerTypes'
      BY <3>1, GotoTypes DEF Goto
    <3> QED BY <1>1, <2>1, <3>1, <3>2, CreateTypes
  <2> QED BY <2>2, <2>3
<1>10. CASE RecvDisconnected(w)
  <2>1. Handling(w) /\ PortTypes' /\ WorkerTypes'
    BY <1>10, ReturnTypes DEF RecvDisconnected, Handling, Using, PortTypes, portVars
  <2> QED BY <1>1, <1>2, <1>10, <2>1, DestroyTypes DEF RecvDisconnected, FreedOnDisconnect
<1>11. CASE SendChunk(w)
  <2>1. Handling(w) /\ PortTypes' /\ WorkerTypes' /\ "send" \in Ops
    BY <1>11, ReturnTypes DEF SendChunk, Handling, Using, PortTypes, portVars, Ops
  <2>2. body' \in [Ctxs -> 0 .. MaxChunks]
    <3>1. body[cur[w]] \in 0 .. MaxChunks /\ body[cur[w]] - 1 \in 0 .. MaxChunks
      BY <1>2, <1>11, <2>1, Constants DEF SendChunk, CtxTypes
    <3> QED BY <1>11, <3>1 DEF SendChunk, NextChunk, CtxTypes
  <2>3. CtxTypes'
    BY <1>2, <1>11, <2>1, <2>2, PostTypes DEF SendChunk
  <2> QED BY <1>1, <2>1, <2>3
<1>12. CASE SendEnd(w)
  <2>1. Handling(w) /\ PortTypes' /\ WorkerTypes'
    BY <1>12, ReturnTypes DEF SendEnd, Handling, Using, PortTypes, portVars
  <2> QED BY <1>1, <1>2, <1>12, <2>1, DestroyTypes DEF SendEnd, LentAfterEnd, Destroy
<1> QED
  BY <1>1, <1>3, <1>4, <1>5, <1>6, <1>7, <1>8, <1>9, <1>10, <1>11, <1>12
     DEF WorkerStep, Outcomes

LEMMA ListenerTyping ==
  ASSUME TypeOK, Counters, Owners, ListenerStep
  PROVE  TypeOK' /\ Counters'
<1> USE Parts
<1>1. ASSUME NEW ok \in BOOLEAN, ListenerAssociate(ok) PROVE TypeOK' /\ Counters'
  BY <1>1 DEF ListenerAssociate, CtxTypes, WorkerTypes, PortTypes, RestTypes, Counters,
              ctxVars, portVars
<1>2. ASSUME NEW ok \in BOOLEAN, ListenerPost(ok) PROVE TypeOK' /\ Counters'
  <2>1. lctx \in Loose /\ "accept" \in Ops
    BY <1>2 DEF ListenerPost, Owners, ListenerOwns, Ops
  <2>2. CtxTypes'
    <3>1. CASE ok /\ ssocket = "open"
      BY <1>2, <2>1, <3>1, PostTypes DEF ListenerPost, CtxTypes
    <3>2. CASE ~(ok /\ ssocket = "open")
      BY <1>2, <2>1, <3>2, DestroyTypes DEF ListenerPost, Destroy
    <3> QED BY <3>1, <3>2
  <2>3. WorkerTypes' /\ PortTypes'
    BY <1>2 DEF ListenerPost, WorkerTypes, PortTypes, portVars
  <2>4. RestTypes' /\ Counters'
    BY <1>2, Constants DEF ListenerPost, RestTypes, Counters, guiVars
  <2> QED BY <2>2, <2>3, <2>4
<1>3. CASE ListenerNew
  <2>1. WorkerTypes' /\ PortTypes' /\ UNCHANGED <<inflight, lost>>
    BY <1>3 DEF ListenerNew, WorkerTypes, PortTypes, portVars
  <2>2. CASE ~MoreAccepts \/ NoMemory
    <3>1. CtxTypes'
      BY <1>3, <2>1, <2>2 DEF ListenerNew, CtxTypes
    <3>2. RestTypes' /\ Counters'
      BY <1>3, <2>2, Constants DEF ListenerNew, MoreAccepts, RestTypes, Counters, guiVars
    <3> QED BY <2>1, <3>1, <3>2
  <2>3. CASE MoreAccepts /\ ~NoMemory
    <3>1. PICK x \in Ctxs : /\ Create(x) /\ lctx' = x /\ listener' = "post"
                            /\ UNCHANGED posted
      BY <1>3, <2>3 DEF ListenerNew
    <3>2. RestTypes' /\ Counters'
      BY <1>3, <2>3, <3>1 DEF ListenerNew, MoreAccepts, RestTypes, Counters, guiVars
    <3> QED BY <2>1, <3>1, <3>2, CreateTypes
  <2> QED BY <2>2, <2>3
<1>4. CASE ListenerStop \/ Cleanup
  BY <1>4 DEF ListenerStop, Cleanup, CtxTypes, WorkerTypes, PortTypes, RestTypes, Counters,
              ctxVars, portVars, guiVars
<1> QED BY <1>1, <1>2, <1>3, <1>4 DEF ListenerStep, Outcomes

LEMMA GuiTyping ==
  ASSUME TypeOK, Counters, Owners, Start \/ StopServer \/ Shutdown
  PROVE  TypeOK' /\ Counters'
<1> USE Parts
<1>1. ASSUME NEW ok \in BOOLEAN, InitPort(ok) PROVE TypeOK' /\ Counters'
  BY <1>1, Constants DEF InitPort, CtxTypes, WorkerTypes, PortTypes, RestTypes, Counters,
                         ctxVars, lstVars
<1>2. ASSUME NEW ok \in BOOLEAN, CreateWorker(ok) PROVE TypeOK' /\ Counters'
  <2>1. CtxTypes' /\ PortTypes'
    BY <1>2 DEF CreateWorker, CtxTypes, PortTypes, ctxVars, portVars
  <2>2. WorkerTypes'
    <3>1. CASE ok
      BY <1>2, <3>1, GotoTypes DEF CreateWorker, Goto
    <3> QED BY <1>2, <3>1 DEF CreateWorker, WorkerTypes
  <2>3. RestTypes' /\ Counters'
    BY <1>2, Constants DEF CreateWorker, RestTypes, Counters, lstVars
  <2> QED BY <2>1, <2>2, <2>3
<1>3. CASE StartListener \/ StopServer \/ PoolFlag \/ CloseSocket
  <2>1. CtxTypes' /\ WorkerTypes' /\ PortTypes'
    BY <1>3 DEF StartListener, StopServer, PoolFlag, CloseSocket, CtxTypes, WorkerTypes,
                PortTypes, ctxVars, portVars
  <2>2. RestTypes' /\ Counters'
    BY <1>3 DEF StartListener, StopServer, PoolFlag, CloseSocket, RestTypes, Counters,
                lstVars, guiVars
  <2> QED BY <2>1, <2>2
<1>4. CASE PoolPost
  <2>1. CtxTypes' /\ WorkerTypes'
    BY <1>4 DEF PoolPost, CtxTypes, WorkerTypes, ctxVars
  <2>2. PortTypes'
    <3>1. ShutdownPacket \in Packet
      BY DEF ShutdownPacket, Packet
    <3> QED BY <1>4, <3>1 DEF PoolPost, PortTypes
  <2>3. RestTypes' /\ Counters'
    BY <1>4, Constants DEF PoolPost, PacketsToPost, RestTypes, Counters, lstVars
  <2> QED BY <2>1, <2>2, <2>3
<1>5. CASE PoolJoin
  BY <1>5, Constants DEF PoolJoin, CtxTypes, WorkerTypes, PortTypes, RestTypes, Counters,
                         ctxVars, portVars, lstVars
<1>6. CASE PoolClose
  <2>1. \A i \in 1 .. Len(port) : port[i].ctx # NoCtx => port[i].ctx \in live
    BY DEF Owners, PacketOwns, Carries, Loose
  <2>2. CtxTypes'
    BY <1>6, <2>1 DEF PoolClose, CtxTypes
  <2>3. WorkerTypes' /\ PortTypes'
    <3>1. <<>> \in Seq(Packet)
      BY EmptySeq
    <3>2. WorkerTypes'
      BY <1>6 DEF PoolClose, WorkerTypes
    <3> QED BY <1>6, <3>1, <3>2 DEF PoolClose, PortTypes
  <2>4. RestTypes' /\ Counters'
    BY <1>6 DEF PoolClose, RestTypes, Counters, lstVars
  <2> QED BY <2>2, <2>3, <2>4
<1> QED BY <1>1, <1>2, <1>3, <1>4, <1>5, <1>6 DEF Start, Shutdown

LEMMA KernelTyping ==
  ASSUME TypeOK, Owners, NEW x \in Ctxs, KernelCompletes(x)
  PROVE  TypeOK' /\ UNCHANGED <<guiVars, lstVars>>
<1> USE Parts
<1>1. /\ x \in live /\ inflight' = inflight \ {x}
      /\ UNCHANGED <<live, op, body, portOpen, guiVars, lstVars, ssocket, pc, cur>>
  BY DEF KernelCompletes, CtxTypes
<1>2. lost' \in {lost, lost \cup {x}}
  BY DEF KernelCompletes
<1>3. port' \in Seq(Packet)
  <2>1. CASE portOpen
    <3>1. PICK r \in Result(x) \cup Failure(x) :
             port' = Append(port, [ctx |-> x, ok |-> r.ok, bytes |-> r.bytes])
      BY <2>1 DEF KernelCompletes
    <3>2. r.ok \in BOOLEAN /\ r.bytes \in {0, 1}
      BY DEF Result, Failure, Aborted, Owners, KernelOwns, Ops, KernelCompletes
    <3> QED BY <3>1, <3>2 DEF Packet, PortTypes
  <2> QED BY <2>1 DEF KernelCompletes, PortTypes
<1> QED BY <1>1, <1>2, <1>3 DEF CtxTypes, WorkerTypes, PortTypes, RestTypes, guiVars, lstVars

LEMMA TypingStep == ASSUME IInv, [Next]_vars PROVE TypeOK' /\ Counters'
<1> USE DEF IInv
<1>1. CASE UNCHANGED vars
  BY <1>1 DEF vars, ctxVars, portVars, lstVars, guiVars, TypeOK, Counters
<1>2. CASE Start \/ StopServer \/ Shutdown
  BY <1>2, GuiTyping
<1>3. CASE ListenerStep
  BY <1>3, ListenerTyping
<1>4. ASSUME NEW x \in Ctxs, KernelCompletes(x) PROVE TypeOK' /\ Counters'
  BY <1>4, KernelTyping DEF Counters, guiVars, lstVars
<1>5. ASSUME NEW w \in Workers, WorkerStep(w) PROVE TypeOK' /\ Counters'
  BY <1>5, WorkerTyping DEF Counters, guiVars, lstVars
<1> QED BY <1>1, <1>2, <1>3, <1>4, <1>5 DEF Next, Terminated
-----------------------------------------------------------------------------
(* The invariant, and from it that a context has one holder.               *)
LEMMA Initially == ASSUME Init PROVE IInv
<1>1. TypeOK
  <2>1. CtxTypes /\ WorkerTypes
    <3>1. CtxTypes
      BY Constants DEF Init, CtxTypes
    <3>2. WorkerTypes
      BY DEF Init, WorkerTypes
    <3> QED BY <3>1, <3>2
  <2>2. PortTypes
    BY EmptySeq DEF Init, PortTypes
  <2>3. RestTypes
    <3>1. running \in BOOLEAN /\ isShutdown \in BOOLEAN
      BY DEF Init
    <3>2. posted \in 0 .. ThreadCount /\ count \in 0 .. ThreadCount
      BY Constants DEF Init
    <3> QED BY <3>1, <3>2 DEF Init, RestTypes
  <2> QED BY <2>1, <2>2, <2>3, Parts
<1>2. Counters
  BY DEF Init, Counters
<1>3. WorkerOwns /\ KernelOwns /\ ListenerOwns
  BY DEF Init, WorkerOwns, Handling, Using, KernelOwns, ListenerOwns
<1>4. PacketOwns
  <2>1. Len(port) = 0
    BY DEF Init
  <2> QED BY <2>1 DEF PacketOwns
<1> QED BY <1>1, <1>2, <1>3, <1>4 DEF IInv, Owners

LEMMA Invariant == Spec => []IInv
<1>1. IInv /\ [Next]_vars => IInv'
  BY OwnersStep, TypingStep DEF IInv
<1> QED BY <1>1, Initially, PTL DEF Spec

LEMMA HolderSizes ==
  ASSUME IInv, NEW x \in Ctxs
  PROVE  /\ Users(x) = {w \in Workers : Handling(w) /\ cur[w] = x}
         /\ Cardinality(Users(x)) = IF Users(x) = {} THEN 0 ELSE 1
         /\ Cardinality(Packets(x)) = IF Packets(x) = {} THEN 0 ELSE 1
         /\ Listed(x) = IF Lists(x) THEN 1 ELSE 0
         /\ Lent(x) = IF x \in inflight THEN 1 ELSE 0
<1> USE DEF IInv, Owners
<1>1. Users(x) = {w \in Workers : Handling(w) /\ cur[w] = x}
  BY DEF Users, Handling
<1>2. \A w, v \in Users(x) : w = v
  BY <1>1 DEF WorkerOwns
<1>3. \A i, j \in Packets(x) : i = j
  BY Constants DEF Packets, Carries, PacketOwns
<1>4. Listed(x) = (IF Lists(x) THEN 1 ELSE 0) /\ Lent(x) = IF x \in inflight THEN 1 ELSE 0
  BY DEF Listed, Lists, Lent
<1> QED BY <1>1, <1>2, <1>3, <1>4, AtMostOne

LEMMA OneHolder == ASSUME IInv PROVE SingleOwner
<1> SUFFICES ASSUME NEW x \in Ctxs
             PROVE  Holders(x) <= (IF x \in live THEN 1 ELSE 0)
  BY DEF SingleOwner
<1> USE DEF IInv, Owners
<1>1. \A i \in Packets(x) : i \in 1 .. Len(port) /\ Carries(i) /\ port[i].ctx = x
  BY Constants DEF Packets, Carries
<1>2. \A w \in Users(x) : w \in Workers /\ Handling(w) /\ cur[w] = x
  BY HolderSizes
<1>3. Users(x) # {} => x \in Loose /\ ~Lists(x)
  BY <1>2 DEF WorkerOwns
<1>4. Packets(x) # {} => x \in Loose /\ ~Lists(x) /\ Users(x) = {}
  BY <1>1, <1>2 DEF PacketOwns
<1>5. Lists(x) => x \in Loose
  BY DEF ListenerOwns, Lists
<1>6. x \in Loose => x \in live /\ x \notin inflight
  BY DEF Loose
<1>7. x \in inflight => x \in live
  BY DEF TypeOK
<1> QED BY <1>3, <1>4, <1>5, <1>6, <1>7, HolderSizes DEF Holders

(* The variables keep their types; every handler a completion can reach is  *)
(* known, and what is lent or lost is allocated.                            *)
THEOREM TypeCorrect == Spec => []TypeOK
<1>1. IInv => TypeOK
  BY DEF IInv
<1> QED BY <1>1, Invariant, PTL

(* A client context is in one hand at a time: no two workers handle         *)
(* completions of the same connection at once, and none is freed, let alone *)
(* allocated again, while the kernel or a packet of the port holds it.      *)
(* This holds whatever fails, and across the shutdown of the pool.          *)
THEOREM OneOwner == Spec => []SingleOwner
BY Invariant, OneHolder, PTL
=============================================================================
