--------------------------- MODULE ThreadPoolProofs ---------------------------
(***************************************************************************)
(* Proofs about ThreadPool, for every number of work items, workers and    *)
(* callers: type correctness, that work items are conserved, that no       *)
(* wakeup is lost or spurious, and that the pool is a FIFO of jobs: while  *)
(* its mutex exists, every step of ThreadPool is a step of WorkQueue or    *)
(* changes nothing there.                                                  *)
(***************************************************************************)
EXTENDS ThreadPool, ListFacts

USE DEF Workers, Threads, Slots, Goto, Ready

(* Where the code is: workers and callers run different programs, a thread *)
(* that carries a work item knows which, and thread_pool_init creates the  *)
(* workers in order, once the synchronization objects exist.               *)
WorkerPC == {"off", "loop", "wait", "lock", "unlink", "recycle", "run", "busy", "exited"}
CallerPC == {"idle", "lock", "take", "link", "signal"}

Control ==
    /\ \A w \in Workers : pc[w] \in WorkerPC
    /\ \A c \in Callers : pc[c] \in CallerPC
    /\ \A t \in Threads : pc[t] \in {"link", "recycle", "run"} => slot[t] \in Slots
    /\ gui = "init" => handles = "none" /\ created = 0
    /\ gui = "create" => handles = "open" /\ created < ThreadCount
    /\ \A w \in Workers : w > created => pc[w] = "off"
    /\ handles = "none" => created = 0 /\ \A c \in Callers : pc[c] = "idle"
    /\ handles = "none" => sem = 0 /\ queue = <<>>

Typing == TypeOK /\ Control

(* While the mutex exists, the thread inside a critical section owns it.   *)
MutexOwned == handles = "open" => \A t \in Inside : mutex = t

(* What the assumption on the constants says of workers and callers.       *)
LEMMA SetFacts == /\ MaxPendingWork \in Nat \ {0} /\ ThreadCount \in Nat \ {0}
                  /\ \A c \in Callers, w \in Workers : c # w
BY PoolAssumption

(* Counting one more run of a job.                                         *)
LEMMA CountUp ==
  ASSUME NEW S, NEW f \in [S -> Nat], NEW x
  PROVE  [f EXCEPT ![x] = @ + 1] \in [S -> Nat]
<1> DEFINE g == [f EXCEPT ![x] = @ + 1]
<1>1. g = [y \in S |-> g[y]]
  OBVIOUS
<1>2. ASSUME NEW y \in S PROVE g[y] \in Nat
  <2>1. CASE x = y
    <3>1. g[y] = f[y] + 1 BY <2>1
    <3> QED BY <3>1
  <2>2. CASE x # y
    <3>1. g[y] = f[y] BY <2>2
    <3> QED BY <3>1
  <2> QED BY <2>1, <2>2
<1> HIDE DEF g
<1>3. g \in [S -> Nat]
  BY <1>1, <1>2
<1> QED BY <1>3 DEF g

(* Typing holds when thread_pool_init is entered.                          *)
LEMMA TypingInit == Init => Typing
<1> SUFFICES ASSUME Init PROVE Typing OBVIOUS
<1>1. free \in Seq(Slots)
  <2>1. free \in [1 .. MaxPendingWork -> Slots]
    BY PoolAssumption DEF Init
  <2> QED BY <2>1, PoolAssumption, SeqDef
<1>2. TypeOK
  <2>1. queue \in Seq(Slots)
    BY EmptySeq DEF Init
  <2>2. runs \in [Jobs -> Nat]
    BY DEF Init
  <2>3. pc \in [Threads -> {"off", "idle"}]
    BY DEF Init
  <2>4. /\ item \in [Slots -> Jobs \cup {NoJob}] /\ owed \in [Workers -> Jobs \cup {NoJob}]
        /\ slot \in [Threads -> Slots \cup {NoSlot}] /\ job \in [Threads -> Jobs \cup {NoJob}]
    BY DEF Init
  <2>5. sem \in 0 .. MaxPendingWork /\ created \in 0 .. ThreadCount /\ joined \in 0 .. ThreadCount
    BY SetFacts DEF Init
  <2> QED BY <1>1, <2>1, <2>2, <2>3, <2>4, <2>5 DEF Init, TypeOK
<1>3. Control
  BY SetFacts DEF Init, Control, WorkerPC, CallerPC
<1> QED BY <1>2, <1>3 DEF Typing

(* Every step keeps the types, and keeps each thread inside its own        *)
(* program.                                                                *)
LEMMA TypingStep == Typing /\ [Next]_vars => Typing'
<1> SUFFICES ASSUME Typing, [Next]_vars PROVE Typing'
  OBVIOUS
<1> USE SetFacts DEF Typing, TypeOK, Control
<1>1. ASSUME NEW ok \in BOOLEAN, CreateSync(ok) PROVE Typing'
  BY <1>1 DEF CreateSync, listVars, ghosts
<1>2. ASSUME NEW ok \in BOOLEAN, CreateWorker(ok) PROVE Typing'
  <2>1. created + 1 \in Workers /\ created + 1 \in 0 .. ThreadCount
    BY <1>2 DEF CreateWorker
  <2>2. CASE ok
    <3>1. /\ pc' = [pc EXCEPT ![created + 1] = "loop"] /\ created' = created + 1
          /\ gui = "create" /\ gui' \in {"up", "create"}
          /\ gui' = "create" => created' # ThreadCount
          /\ UNCHANGED <<syncVars, listVars, isShutdown, shutdownEvent, joined, slot, job,
                         fresh, ghosts>>
      BY <1>2, <2>2 DEF CreateWorker
    <3>2. TypeOK'
      BY <2>1, <3>1 DEF listVars, ghosts, syncVars
    <3>3. Control'
      BY <2>1, <3>1 DEF listVars, ghosts, syncVars, WorkerPC
    <3> QED BY <3>2, <3>3
  <2>3. CASE ~ok
    BY <1>2, <2>3 DEF CreateWorker, listVars, ghosts, syncVars
  <2> QED BY <2>2, <2>3
<1>3. ASSUME ShutdownFlag PROVE Typing'
  BY <1>3 DEF ShutdownFlag, listVars, ghosts, syncVars
<1>4. ASSUME ShutdownEvent PROVE Typing'
  BY <1>4 DEF ShutdownEvent, EventAfterShutdown, listVars, ghosts, syncVars
<1>5. ASSUME ShutdownJoin PROVE Typing'
  BY <1>5 DEF ShutdownJoin, listVars, ghosts, syncVars
<1>6. ASSUME ShutdownClose PROVE Typing'
  BY <1>6 DEF ShutdownClose, listVars, ghosts
<1>7. ASSUME NEW c \in Callers, NEW x \in Jobs, QueueEnter(c, x) PROVE Typing'
  <2>1. /\ fresh' = fresh \ {x}
        /\ UNCHANGED <<syncVars, listVars, guiVars, slot, ghosts>>
    BY <1>7 DEF QueueEnter
  <2>2. CASE pc' = [pc EXCEPT ![c] = "lock"] /\ job' = [job EXCEPT ![c] = x]
    <3>1. handles # "none"
      BY <1>7 DEF QueueEnter
    <3>2. TypeOK'
      BY <2>1, <2>2 DEF listVars, ghosts, syncVars, guiVars
    <3>3. Control'
      BY <2>1, <2>2, <3>1 DEF listVars, syncVars, guiVars, CallerPC
    <3> QED BY <3>2, <3>3
  <2>3. CASE UNCHANGED <<pc, job>>
    BY <2>1, <2>3 DEF listVars, ghosts, syncVars, guiVars
  <2> QED BY <1>7, <2>2, <2>3 DEF QueueEnter
<1>8. ASSUME NEW c \in Callers, QueueLock(c) PROVE Typing'
  <2>1. /\ pc[c] = "lock" /\ pc' = [pc EXCEPT ![c] = "take"]
        /\ mutex' \in Threads \cup {NoThread}
        /\ UNCHANGED <<handles, sem, listVars, guiVars, slot, job, fresh, ghosts>>
    BY <1>8 DEF QueueLock, Acquire
  <2>2. TypeOK'
    BY <2>1 DEF listVars, ghosts, guiVars, CallerPC, WorkerPC
  <2>3. Control'
    BY <2>1 DEF listVars, ghosts, guiVars, CallerPC, WorkerPC
  <2> QED BY <2>2, <2>3
<1>9. ASSUME NEW c \in Callers, QueueFull(c) PROVE Typing'
  <2>1. /\ pc[c] = "take" /\ pc' = [pc EXCEPT ![c] = "idle"]
        /\ mutex' \in Threads \cup {NoThread}
        /\ UNCHANGED <<handles, sem, listVars, guiVars, slot, job, fresh, ghosts>>
    BY <1>9 DEF QueueFull, Release
  <2>2. TypeOK'
    BY <2>1 DEF listVars, ghosts, guiVars, CallerPC, WorkerPC
  <2>3. Control'
    BY <2>1 DEF listVars, ghosts, guiVars, CallerPC, WorkerPC
  <2> QED BY <2>2, <2>3
<1>10. ASSUME NEW c \in Callers, QueueTake(c) PROVE Typing'
  <2>1. free[Len(free)] \in Slots /\ free' \in Seq(Slots)
    BY <1>10, FrontRange DEF QueueTake
  <2> QED BY <1>10, <2>1 DEF QueueTake, ghosts, syncVars, guiVars, CallerPC
<1>11. ASSUME NEW c \in Callers, QueueLink(c) PROVE Typing'
  <2>1. queue' \in Seq(Slots)
    BY <1>11, AppendRange DEF QueueLink, Linked
  <2> QED BY <1>11, <2>1 DEF QueueLink, Release, ghosts, guiVars, CallerPC
<1>12. ASSUME NEW c \in Callers, QueueSignal(c) PROVE Typing'
  <2>1. /\ pc[c] = "signal" /\ pc' = [pc EXCEPT ![c] = "idle"]
        /\ sem' \in 0 .. MaxPendingWork
        /\ UNCHANGED <<handles, mutex, listVars, guiVars, slot, job, fresh, ghosts>>
    BY <1>12 DEF QueueSignal, SemReleased
  <2>2. TypeOK'
    BY <2>1 DEF listVars, ghosts, guiVars, CallerPC, WorkerPC
  <2>3. Control'
    BY <1>12, <2>1 DEF QueueSignal, SemReleased, listVars, ghosts, guiVars, CallerPC, WorkerPC
  <2> QED BY <2>2, <2>3
<1>13. ASSUME NEW w \in Workers, WorkerLoop(w) PROVE Typing'
  <2>1. /\ pc[w] = "loop" /\ \E to \in {"exited", "wait"} : pc' = [pc EXCEPT ![w] = to]
        /\ UNCHANGED <<syncVars, listVars, guiVars, slot, job, fresh, ghosts>>
    BY <1>13 DEF WorkerLoop
  <2>2. TypeOK'
    BY <2>1 DEF listVars, ghosts, syncVars, guiVars, CallerPC, WorkerPC
  <2>3. Control'
    BY <2>1 DEF listVars, ghosts, syncVars, guiVars, CallerPC, WorkerPC
  <2> QED BY <2>2, <2>3
<1>14. ASSUME NEW w \in Workers, WorkerWait(w) PROVE Typing'
  <2>1. sem' \in 0 .. MaxPendingWork
    BY <1>14 DEF WorkerWait, WorkAvailable
  <2>2. PICK to \in {"lock", "exited", "loop"} : pc' = [pc EXCEPT ![w] = to]
    BY <1>14 DEF WorkerWait
  <2>3. UNCHANGED <<handles, mutex, listVars, ghosts, guiVars, slot, job, fresh>>
    BY <1>14 DEF WorkerWait
  <2>4. pc[w] = "wait"
    BY <1>14 DEF WorkerWait
  <2> QED BY <2>1, <2>2, <2>3, <2>4 DEF listVars, ghosts, guiVars, WorkerPC
<1>15. ASSUME NEW w \in Workers, WorkerLock(w) PROVE Typing'
  <2>1. /\ pc[w] = "lock" /\ pc' = [pc EXCEPT ![w] = "unlink"]
        /\ mutex' \in Threads \cup {NoThread}
        /\ UNCHANGED <<handles, sem, listVars, guiVars, slot, job, fresh, ghosts>>
    BY <1>15 DEF WorkerLock, Acquire
  <2>2. TypeOK'
    BY <2>1 DEF listVars, ghosts, guiVars, CallerPC, WorkerPC
  <2>3. Control'
    BY <2>1 DEF listVars, ghosts, guiVars, CallerPC, WorkerPC
  <2> QED BY <2>2, <2>3
<1>16. ASSUME NEW w \in Workers, WorkerUnlink(w) PROVE Typing'
  <2>1. queue # <<>> => Head(queue) \in Slots /\ Tail(queue) \in Seq(Slots)
    BY TailRange
  <2>2. CASE queue # <<>>
    <3>1. owed' \in [Workers -> Jobs \cup {NoJob}]
      <4>1. owed' = [owed EXCEPT ![w] = item[Head(queue)]]
        BY <1>16, <2>2 DEF WorkerUnlink
      <4>2. item[Head(queue)] \in Jobs \cup {NoJob}
        BY <2>1, <2>2
      <4> QED BY <4>1, <4>2
    <3>2. /\ pc[w] = "unlink" /\ pc' = [pc EXCEPT ![w] = "recycle"]
          /\ slot' = [slot EXCEPT ![w] = Head(queue)]
          /\ queue' \in Seq(Slots)
          /\ UNCHANGED <<handles, sem, mutex, free, item, guiVars, job, fresh, runs>>
      BY <1>16, <2>1, <2>2 DEF WorkerUnlink
    <3>3. TypeOK'
      BY <2>1, <2>2, <3>1, <3>2 DEF guiVars
    <3>4. Control'
      BY <2>1, <2>2, <3>2 DEF guiVars, WorkerPC
    <3> QED BY <3>3, <3>4
  <2>3. CASE queue = <<>>
    <3>1. /\ pc[w] = "unlink" /\ pc' = [pc EXCEPT ![w] = "loop"]
          /\ mutex' \in Threads \cup {NoThread}
          /\ UNCHANGED <<handles, sem, queue, free, item, guiVars, slot, job, fresh, ghosts>>
      BY <1>16, <2>3 DEF WorkerUnlink, Release, ghosts
    <3>2. TypeOK'
      BY <3>1 DEF guiVars, ghosts
    <3>3. Control'
      BY <3>1 DEF guiVars, WorkerPC
    <3> QED BY <3>2, <3>3
  <2> QED BY <2>2, <2>3
<1>17. ASSUME NEW w \in Workers, WorkerRecycle(w) PROVE Typing'
  <2>1. free' \in Seq(Slots)
    BY <1>17, AppendRange DEF WorkerRecycle, Recycled
  <2> QED BY <1>17, <2>1 DEF WorkerRecycle, Release, ghosts, guiVars, WorkerPC
<1>18. ASSUME NEW w \in Workers, WorkerRun(w) PROVE Typing'
  <2>1. slot[w] \in Slots
    BY <1>18 DEF WorkerRun
  <2>2. job' \in [Threads -> Jobs \cup {NoJob}]
    BY <1>18, <2>1 DEF WorkerRun
  <2>3. runs' \in [Jobs -> Nat]
    <3>1. PICK x : runs' = [runs EXCEPT ![x] = @ + 1]
      BY <1>18 DEF WorkerRun
    <3> QED BY <3>1, CountUp
  <2> QED BY <1>18, <2>1, <2>2, <2>3 DEF WorkerRun, listVars, syncVars, guiVars, WorkerPC
<1>19. ASSUME NEW w \in Workers, WorkerReturn(w) PROVE Typing'
  <2>1. /\ pc[w] = "busy" /\ pc' = [pc EXCEPT ![w] = "loop"]
        /\ owed' \in [Workers -> Jobs \cup {NoJob}]
        /\ UNCHANGED <<syncVars, listVars, guiVars, slot, job, fresh, runs>>
    BY <1>19 DEF WorkerReturn
  <2>2. TypeOK'
    BY <2>1 DEF listVars, syncVars, guiVars, CallerPC, WorkerPC
  <2>3. Control'
    BY <2>1 DEF listVars, syncVars, guiVars, CallerPC, WorkerPC
  <2> QED BY <2>2, <2>3
<1>20. CASE UNCHANGED vars
  BY <1>20 DEF vars, syncVars, listVars, guiVars, ghosts
<1> QED
  BY <1>1, <1>2, <1>3, <1>4, <1>5, <1>6, <1>7, <1>8, <1>9, <1>10, <1>11, <1>12, <1>13,
     <1>14, <1>15, <1>16, <1>17, <1>18, <1>19, <1>20
     DEF Next, Start, Shutdown, CallerStep, WorkerStep, Terminated

-----------------------------------------------------------------------------
(* Every step keeps the mutex with the thread that is inside.              *)
LEMMA MutexOwnedStep == Typing /\ MutexOwned /\ [Next]_vars => MutexOwned'
<1> SUFFICES ASSUME Typing, MutexOwned, [Next]_vars PROVE MutexOwned'
  OBVIOUS
<1> USE SetFacts DEF Typing, TypeOK, Control, MutexOwned, Inside, WorkerPC, CallerPC
<1>1. CASE Start
  <2>1. ASSUME NEW ok \in BOOLEAN, CreateSync(ok) PROVE Inside' = {}
    BY <2>1 DEF CreateSync
  <2>2. ASSUME NEW ok \in BOOLEAN, CreateWorker(ok) PROVE MutexOwned'
    <3>1. created + 1 \in Workers
      BY <2>2 DEF CreateWorker
    <3>2. pc' = pc \/ pc' = [pc EXCEPT ![created + 1] = "loop"]
      BY <2>2 DEF CreateWorker
    <3>3. UNCHANGED <<handles, mutex>>
      BY <2>2 DEF CreateWorker, syncVars
    <3> QED BY <3>1, <3>2, <3>3
  <2> QED BY <1>1, <2>1, <2>2 DEF Start
<1>2. CASE ShutdownFlag \/ Shutdown
  BY <1>2 DEF ShutdownFlag, Shutdown, ShutdownEvent, ShutdownJoin, ShutdownClose, syncVars
<1>3. ASSUME NEW c \in Callers, NEW x \in Jobs, QueueEnter(c, x) PROVE MutexOwned'
  BY <1>3 DEF QueueEnter, syncVars
<1>4. ASSUME NEW c \in Callers, QueueLock(c) PROVE MutexOwned'
  BY <1>4, PoolAssumption DEF QueueLock, Acquire
<1>5. ASSUME NEW c \in Callers, QueueFull(c) \/ QueueLink(c) PROVE MutexOwned'
  BY <1>5 DEF QueueFull, QueueLink, Release
<1>6. ASSUME NEW c \in Callers, QueueTake(c) \/ QueueSignal(c) PROVE MutexOwned'
  BY <1>6 DEF QueueTake, QueueSignal, syncVars
<1>7. ASSUME NEW w \in Workers, WorkerLoop(w) \/ WorkerWait(w) \/ WorkerRun(w) \/ WorkerReturn(w)
      PROVE MutexOwned'
  <2>1. \E to \in WorkerPC \ {"unlink", "recycle"} :
           pc[w] \notin {"unlink", "recycle"} /\ pc' = [pc EXCEPT ![w] = to]
    BY <1>7 DEF WorkerLoop, WorkerWait, WorkerRun, WorkerReturn
  <2>2. UNCHANGED <<handles, mutex>>
    BY <1>7 DEF WorkerLoop, WorkerWait, WorkerRun, WorkerReturn, syncVars
  <2>3. Inside' = Inside
    BY <2>1
  <2> HIDE DEF Inside, TypeOK, Control
  <2> QED BY <2>2, <2>3
<1>8. ASSUME NEW w \in Workers, WorkerLock(w) PROVE MutexOwned'
  BY <1>8, PoolAssumption DEF WorkerLock, Acquire
<1>9. ASSUME NEW w \in Workers, WorkerUnlink(w) \/ WorkerRecycle(w) PROVE MutexOwned'
  <2>1. /\ pc[w] = "unlink" /\ pc' = [pc EXCEPT ![w] = "recycle"]
           => Inside' = Inside
        /\ \A to \in {"loop", "run"} :
             pc[w] \in {"unlink", "recycle"} /\ pc' = [pc EXCEPT ![w] = to]
             => w \in Inside /\ Inside' = Inside \ {w}
    OBVIOUS
  <2>2. CASE WorkerUnlink(w)
    BY <2>1, <2>2 DEF WorkerUnlink, Release
  <2>3. CASE WorkerRecycle(w)
    BY <2>1, <2>3 DEF WorkerRecycle, Release
  <2> QED BY <1>9, <2>2, <2>3
<1>10. CASE UNCHANGED vars
  BY <1>10 DEF vars, syncVars
<1> QED
  BY <1>1, <1>2, <1>3, <1>4, <1>5, <1>6, <1>7, <1>8, <1>9, <1>10
     DEF Next, CallerStep, WorkerStep, Terminated

-----------------------------------------------------------------------------
(* Handles are closed for good.                                            *)
LEMMA ClosedStays ==
  ASSUME Typing, [Next]_vars, handles = "closed" PROVE handles' = "closed"
<1> USE DEF Typing, Control
<1> QED
  BY DEF Next, Start, Shutdown, CallerStep, WorkerStep, Terminated, vars, syncVars,
     CreateSync, CreateWorker, ShutdownFlag, ShutdownEvent, ShutdownJoin, ShutdownClose,
     QueueEnter, QueueLock, QueueFull, QueueTake, QueueLink, QueueSignal, WorkerLoop,
     WorkerWait, WorkerLock, WorkerUnlink, WorkerRecycle, WorkerRun, WorkerReturn

(* thread_pool_init starts the workers one by one.                         *)
LEMMA StartStep ==
  ASSUME Typing, Start
  PROVE  \/ pc' = pc
         \/ /\ created + 1 \in Workers /\ pc[created + 1] = "off"
            /\ pc' = [pc EXCEPT ![created + 1] = "loop"]
<1>1. PICK ok \in BOOLEAN : CreateSync(ok) \/ CreateWorker(ok)
  BY DEF Start
<1>2. created \in 0 .. ThreadCount /\ \A w \in Workers : w > created => pc[w] = "off"
  BY DEF Typing, TypeOK, Control
<1>3. CASE CreateSync(ok)
  BY <1>3 DEF CreateSync
<1>4. CASE CreateWorker(ok)
  <2>1. created < ThreadCount
    BY <1>4 DEF CreateWorker, Typing, Control
  <2>2. created + 1 \in Workers /\ pc[created + 1] = "off"
    BY <1>2, <2>1, SetFacts
  <2> QED BY <1>4, <2>2 DEF CreateWorker
<1> QED BY <1>1, <1>3, <1>4

(* Work items, whether the mutex is there or not: each is at one place.    *)
ItemsApart ==
    /\ IsInjective(queue) /\ IsInjective(free)
    /\ Range(queue) \cap Range(free) = {}
    /\ \A t \in Holding : slot[t] \notin Range(queue) \cup Range(free)
    /\ \A t, u \in Holding : slot[t] = slot[u] => t = u
    /\ Slots = Range(queue) \cup Range(free) \cup {slot[t] : t \in Holding}

(* A step that changes neither list and neither takes up nor puts down a   *)
(* work item leaves the items where they are.                              *)
LEMMA ItemsStay ==
  ASSUME ItemsApart,
         UNCHANGED <<queue, free>>, Holding' = Holding,
         \A t \in Holding : slot'[t] = slot[t]
  PROVE  ItemsApart'
BY DEF ItemsApart

(* While the mutex is there, the thread inside is alone.                   *)
LEMMA OpenExclusive == Typing /\ MutexOwned /\ handles # "closed" => ExclusiveAccess
<1> SUFFICES ASSUME Typing, MutexOwned, handles # "closed", NEW t \in Inside, NEW u \in Inside
             PROVE  t = u
  BY DEF ExclusiveAccess
<1>1. handles = "open"
  BY SetFacts DEF Typing, TypeOK, Control, Inside
<1> QED BY <1>1 DEF MutexOwned

(* The thread that is about to move a work item is alone.                  *)
LEMMA AloneInside ==
  ASSUME ExclusiveAccess, NEW t \in Inside PROVE Inside = {t}
BY DEF ExclusiveAccess

(* No step loses a work item or puts it in two places: QueueTake and       *)
(* WorkerUnlink take one from a list, QueueLink and WorkerRecycle put it   *)
(* on one.                                                                 *)
LEMMA ItemsStep == Typing /\ ExclusiveAccess /\ ItemsApart /\ [Next]_vars => ItemsApart'
<1> SUFFICES ASSUME Typing, ExclusiveAccess, ItemsApart, [Next]_vars PROVE ItemsApart'
  OBVIOUS
<1> USE SetFacts DEF Typing, TypeOK, Control
<1>1. CASE Start
  <2>1. UNCHANGED <<queue, free, slot>>
    BY <1>1 DEF Start, CreateSync, CreateWorker, listVars
  <2>2. \/ pc' = pc
        \/ /\ created + 1 \in Workers /\ pc[created + 1] = "off"
           /\ pc' = [pc EXCEPT ![created + 1] = "loop"]
    BY <1>1, StartStep
  <2>3. Holding' = Holding
    BY <2>2 DEF Holding
  <2> QED BY <2>1, <2>3, ItemsStay
<1>2. CASE ShutdownFlag \/ Shutdown
  BY <1>2, ItemsStay
     DEF ShutdownFlag, Shutdown, ShutdownEvent, ShutdownJoin, ShutdownClose, listVars, Holding
<1>3. ASSUME NEW c \in Callers,
             (\E x \in Jobs : QueueEnter(c, x)) \/ QueueLock(c) \/ QueueFull(c) \/ QueueSignal(c)
      PROVE ItemsApart'
  <2>1. UNCHANGED <<queue, free, slot>>
    BY <1>3 DEF QueueEnter, QueueLock, QueueFull, QueueSignal, listVars
  <2>2. Holding' = Holding
    BY <1>3 DEF QueueEnter, QueueLock, QueueFull, QueueSignal, Holding
  <2> QED BY <2>1, <2>2, ItemsStay
<1>4. ASSUME NEW w \in Workers, WorkerLoop(w) \/ WorkerWait(w) \/ WorkerLock(w)
                                \/ WorkerRun(w) \/ WorkerReturn(w)
      PROVE ItemsApart'
  <2>1. UNCHANGED <<queue, free, slot>>
    BY <1>4 DEF WorkerLoop, WorkerWait, WorkerLock, WorkerRun, WorkerReturn, listVars
  <2>2. Holding' = Holding
    BY <1>4 DEF WorkerLoop, WorkerWait, WorkerLock, WorkerRun, WorkerReturn, Holding
  <2> QED BY <2>1, <2>2, ItemsStay
<1>5. ASSUME NEW c \in Callers, QueueTake(c) PROVE ItemsApart'
  <2> DEFINE top == free[Len(free)]
  <2>1. Holding = {} /\ Holding' = {c}
    <3>1. pc[c] = "take" /\ pc' = [pc EXCEPT ![c] = "link"]
      BY <1>5 DEF QueueTake
    <3>2. Inside = {c}
      BY <3>1, AloneInside DEF Inside
    <3> QED BY <3>1, <3>2 DEF Inside, Holding
  <2>2. /\ Range(free) = Range(free') \cup {top}
        /\ IsInjective(free) => IsInjective(free') /\ top \notin Range(free')
    BY <1>5, FrontRange DEF QueueTake
  <2>3. slot'[c] = top /\ queue' = queue
    BY <1>5 DEF QueueTake
  <2> QED BY <2>1, <2>2, <2>3 DEF ItemsApart
<1>6. ASSUME NEW c \in Callers, QueueLink(c) PROVE ItemsApart'
  <2>1. Holding = {c} /\ Holding' = {}
    <3>1. pc[c] = "link" /\ pc' = [pc EXCEPT ![c] = "signal"]
      BY <1>6 DEF QueueLink
    <3>2. Inside = {c}
      BY <3>1, AloneInside DEF Inside
    <3> QED BY <3>1, <3>2 DEF Inside, Holding
  <2>2. slot[c] \in Slots
    BY <1>6 DEF QueueLink
  <2>3. /\ Range(queue') = Range(queue) \cup {slot[c]}
        /\ IsInjective(queue) /\ slot[c] \notin Range(queue) => IsInjective(queue')
    <3>1. queue' = Append(queue, slot[c]) /\ queue \in Seq(Slots)
      BY <1>6 DEF QueueLink, Linked
    <3> HIDE DEF Control, TypeOK
    <3> QED BY <2>2, <3>1, AppendRange
  <2>4. free' = free
    BY <1>6 DEF QueueLink
  <2> QED BY <2>1, <2>3, <2>4 DEF ItemsApart
<1>7. ASSUME NEW w \in Workers, WorkerUnlink(w) PROVE ItemsApart'
  <2>1. CASE queue # <<>>
    <3>1. Holding = {} /\ Holding' = {w}
      <4>1. pc[w] = "unlink" /\ pc' = [pc EXCEPT ![w] = "recycle"]
        BY <1>7, <2>1 DEF WorkerUnlink
      <4>2. Inside = {w}
        BY <4>1, AloneInside DEF Inside
      <4> QED BY <4>1, <4>2 DEF Inside, Holding
    <3>2. /\ Range(queue) = Range(queue') \cup {Head(queue)}
          /\ IsInjective(queue) => IsInjective(queue') /\ Head(queue) \notin Range(queue')
      <4>1. queue' = Tail(queue)
        BY <1>7, <2>1 DEF WorkerUnlink
      <4> HIDE DEF Control
      <4> QED BY <2>1, <4>1, TailRange
    <3>3. slot'[w] = Head(queue) /\ free' = free
      BY <1>7, <2>1 DEF WorkerUnlink
    <3> QED BY <3>1, <3>2, <3>3 DEF ItemsApart
  <2>2. CASE queue = <<>>
    <3>1. UNCHANGED <<queue, free, slot>> /\ Holding' = Holding
      BY <1>7, <2>2 DEF WorkerUnlink, Holding
    <3> QED BY <3>1, ItemsStay
  <2> QED BY <2>1, <2>2
<1>8. ASSUME NEW w \in Workers, WorkerRecycle(w) PROVE ItemsApart'
  <2>1. Holding = {w} /\ Holding' = {}
    <3>1. pc[w] = "recycle" /\ pc' = [pc EXCEPT ![w] = "run"]
      BY <1>8 DEF WorkerRecycle
    <3>2. Inside = {w}
      BY <3>1, AloneInside DEF Inside
    <3> QED BY <3>1, <3>2 DEF Inside, Holding
  <2>2. slot[w] \in Slots
    BY <1>8 DEF WorkerRecycle
  <2>3. /\ Range(free') = Range(free) \cup {slot[w]}
        /\ IsInjective(free) /\ slot[w] \notin Range(free) => IsInjective(free')
    <3>1. free' = Append(free, slot[w])
      BY <1>8 DEF WorkerRecycle, Recycled
    <3>2. free \in Seq(Slots)
      OBVIOUS
    <3> HIDE DEF Control, TypeOK
    <3> QED BY <2>2, <3>1, <3>2, AppendRange
  <2>4. queue' = queue
    BY <1>8 DEF WorkerRecycle
  <2> QED BY <2>1, <2>3, <2>4 DEF ItemsApart
<1>9. CASE UNCHANGED vars
  BY <1>9, ItemsStay DEF vars, listVars, Holding
<1> QED
  BY <1>1, <1>2, <1>3, <1>4, <1>5, <1>6, <1>7, <1>8, <1>9
     DEF Next, CallerStep, WorkerStep, Terminated

(* As long as the mutex is there, it keeps the items apart.                *)
LEMMA SlotsStep == Typing /\ MutexOwned /\ SlotsConserved /\ [Next]_vars => SlotsConserved'
<1> SUFFICES ASSUME Typing, MutexOwned, SlotsConserved, [Next]_vars, handles' # "closed"
             PROVE  ItemsApart'
  BY DEF SlotsConserved, ItemsApart
<1>1. handles # "closed"
  BY ClosedStays
<1>2. ItemsApart
  BY <1>1 DEF SlotsConserved, ItemsApart
<1> QED BY <1>1, <1>2, OpenExclusive, ItemsStep

-----------------------------------------------------------------------------
(* The groups of threads that SignalAccounting counts are finite.          *)
LEMMA FiniteThreads == /\ IsFiniteSet(Woken) /\ IsFiniteSet(Linking)
                       /\ Cardinality(Woken) \in Nat /\ Cardinality(Linking) \in Nat
<1>1. IsFiniteSet(Workers)
  BY FS_Interval, SetFacts
<1>2. Woken \in SUBSET Workers /\ Linking \in SUBSET Callers
  BY DEF Woken, Linking
<1>3. IsFiniteSet(Woken) /\ IsFiniteSet(Linking)
  BY <1>1, <1>2, FS_Subset, PoolAssumption
<1> QED BY <1>3, FS_CardinalityType

(* A thread that joins or leaves one of the counted groups.                *)
LEMMA OneMore ==
  ASSUME NEW S, NEW T, NEW e, IsFiniteSet(S), e \notin S, T = S \cup {e}
  PROVE  Cardinality(T) = Cardinality(S) + 1
BY FS_AddElement

(* The same for a thread that leaves its group.                            *)
LEMMA OneLess ==
  ASSUME NEW S, NEW T, NEW e, IsFiniteSet(S), e \in S, T = S \ {e}
  PROVE  Cardinality(T) = Cardinality(S) - 1
BY FS_RemoveElement

(* Every step that changes one side of the balance of signals changes the  *)
(* other side as much.                                                     *)
LEMMA SignalStep ==
  Typing /\ SlotsConserved /\ SignalAccounting /\ [Next]_vars => SignalAccounting'
<1> SUFFICES ASSUME Typing, SlotsConserved, SignalAccounting, [Next]_vars,
                    handles' = "open"
             PROVE  Len(queue') = sem' + Cardinality(Woken') + Cardinality(Linking')
  BY DEF SignalAccounting
<1> DEFINE Balance == Len(queue') = sem' + Cardinality(Woken') + Cardinality(Linking')
<1> USE SetFacts DEF Typing, TypeOK, Control
<1>a. sem \in Nat /\ Len(queue) \in Nat
  BY LenProperties
<1>b. ASSUME handles = "open"
      PROVE  Len(queue) = sem + Cardinality(Woken) + Cardinality(Linking)
  BY <1>b DEF SignalAccounting
<1>1. ASSUME NEW ok \in BOOLEAN, CreateSync(ok) PROVE Balance
  <2>1. Woken' = {} /\ Linking' = {}
    BY <1>1 DEF CreateSync, Woken, Linking
  <2>2. sem' = sem /\ queue' = queue
    BY <1>1 DEF CreateSync, listVars
  <2>3. sem = 0 /\ queue = <<>>
    BY <1>1 DEF CreateSync
  <2> QED BY <2>1, <2>2, <2>3, FS_EmptySet, EmptySeq
<1>2. ASSUME NEW ok \in BOOLEAN, CreateWorker(ok) PROVE Balance
  <2>1. created + 1 \in Workers /\ pc[created + 1] = "off"
    BY <1>2 DEF CreateWorker
  <2>2. pc' = pc \/ pc' = [pc EXCEPT ![created + 1] = "loop"]
    BY <1>2 DEF CreateWorker
  <2>3. Woken' = Woken /\ Linking' = Linking
    <3>1. Woken' = Woken
      BY <2>1, <2>2 DEF Woken
    <3>2. Linking' = Linking
      BY <2>1, <2>2 DEF Linking
    <3> QED BY <3>1, <3>2
  <2>4. UNCHANGED <<handles, sem, queue>>
    BY <1>2 DEF CreateWorker, syncVars, listVars
  <2> QED BY <1>b, <2>3, <2>4
<1>3. CASE ShutdownFlag \/ Shutdown
  <2>1. UNCHANGED <<handles, sem, queue, pc>>
    BY <1>3 DEF ShutdownFlag, Shutdown, ShutdownEvent, ShutdownJoin, ShutdownClose,
                syncVars, listVars
  <2> QED BY <1>b, <2>1 DEF Woken, Linking
<1>4. ASSUME NEW c \in Callers,
             (\E x \in Jobs : QueueEnter(c, x)) \/ QueueLock(c) \/ QueueFull(c) \/ QueueTake(c)
      PROVE  Balance
  <2>1. UNCHANGED <<handles, sem, queue>>
    BY <1>4 DEF QueueEnter, QueueLock, QueueFull, QueueTake, syncVars, listVars
  <2>2. Woken' = Woken /\ Linking' = Linking
    <3>1. \/ pc' = pc
          \/ \E to \in CallerPC \ {"signal"} : pc[c] # "signal" /\ pc' = [pc EXCEPT ![c] = to]
      BY <1>4 DEF QueueEnter, QueueLock, QueueFull, QueueTake, CallerPC
    <3>2. Woken' = Woken
      BY <3>1 DEF Woken
    <3>3. Linking' = Linking
      BY <3>1 DEF Linking
    <3> QED BY <3>2, <3>3
  <2> QED BY <1>b, <2>1, <2>2
<1>5. ASSUME NEW c \in Callers, QueueLink(c) PROVE Balance
  <2>1. UNCHANGED <<handles, sem>> /\ Len(queue') = Len(queue) + 1
    BY <1>5, AppendRange DEF QueueLink, Linked
  <2>2. Woken' = Woken /\ Linking' = Linking \cup {c} /\ c \notin Linking
    BY <1>5 DEF QueueLink, Woken, Linking
  <2>3. Cardinality(Linking') = Cardinality(Linking) + 1
    BY <2>2, FiniteThreads, OneMore
  <2> QED BY <1>a, <1>b, <2>1, <2>2, <2>3, FiniteThreads
<1>6. ASSUME NEW c \in Callers, QueueSignal(c) PROVE Balance
  <2>1. UNCHANGED <<handles, queue>>
    BY <1>6 DEF QueueSignal, listVars
  <2>2. Woken' = Woken /\ Linking' = Linking \ {c} /\ c \in Linking
    BY <1>6 DEF QueueSignal, Woken, Linking
  <2>3. Cardinality(Linking') = Cardinality(Linking) - 1
    BY <2>2, FiniteThreads, OneLess
  <2>4. Cardinality(Linking) > 0
    BY <2>2, FiniteThreads, FS_EmptySet
  <2>5. Len(queue) <= MaxPendingWork
    BY <2>1, InjectiveLen DEF SlotsConserved
  <2>6. sem < MaxPendingWork
    BY <1>a, <1>b, <2>1, <2>4, <2>5, FiniteThreads
  <2>7. sem' = sem + 1
    BY <1>6, <2>1, <2>6 DEF QueueSignal, SemReleased
  <2> QED BY <1>a, <1>b, <2>1, <2>2, <2>3, <2>7, FiniteThreads
<1>7. ASSUME NEW w \in Workers, WorkerLoop(w) \/ WorkerLock(w) \/ WorkerRecycle(w)
                                \/ WorkerRun(w) \/ WorkerReturn(w)
      PROVE  Balance
  <2>1. UNCHANGED <<handles, sem, queue>>
    BY <1>7 DEF WorkerLoop, WorkerLock, WorkerRecycle, WorkerRun, WorkerReturn, syncVars, listVars
  <2>2. Woken' = Woken /\ Linking' = Linking
    <3>1. /\ \A t \in Threads : t # w => pc'[t] = pc[t]
          /\ pc'[w] \in {"lock", "unlink"} <=> pc[w] \in {"lock", "unlink"}
      BY <1>7 DEF WorkerLoop, WorkerLock, WorkerRecycle, WorkerRun, WorkerReturn
    <3> HIDE DEF Typing, TypeOK, Control
    <3>2. Linking' = Linking
      BY <3>1, SetFacts DEF Linking
    <3>3. Woken' = Woken
      BY <3>1, SetFacts DEF Woken
    <3> QED BY <3>2, <3>3
  <2> QED BY <1>b, <2>1, <2>2
<1>8. ASSUME NEW w \in Workers, WorkerWait(w) PROVE Balance
  <2>1. UNCHANGED <<handles, queue>> /\ pc[w] = "wait"
    BY <1>8 DEF WorkerWait, listVars
  <2>2. CASE sem' = sem - 1 /\ pc' = [pc EXCEPT ![w] = "lock"]
    <3>1. Woken' = Woken \cup {w} /\ w \notin Woken /\ Linking' = Linking
      BY <2>1, <2>2 DEF Woken, Linking
    <3>2. Cardinality(Woken') = Cardinality(Woken) + 1
      BY <3>1, FiniteThreads, OneMore
    <3> QED BY <1>a, <1>b, <2>1, <2>2, <3>1, <3>2, FiniteThreads
  <2>3. CASE sem' = sem /\ pc' = [pc EXCEPT ![w] = "exited"]
    <3>1. Woken' = Woken /\ Linking' = Linking
      BY <2>1, <2>3 DEF Woken, Linking
    <3> QED BY <1>b, <2>1, <2>3, <3>1
  <2> QED BY <1>8, <2>1, <2>2, <2>3 DEF WorkerWait
<1>9. ASSUME NEW w \in Workers, WorkerUnlink(w) PROVE Balance
  <2>1. UNCHANGED <<handles, sem>> /\ pc[w] = "unlink"
    BY <1>9 DEF WorkerUnlink
  <2>2. w \in Woken /\ Cardinality(Woken) > 0
    <3>1. w \in Woken
      BY <2>1 DEF Woken
    <3> QED BY <3>1, FiniteThreads, FS_EmptySet
  <2>3. queue # <<>>
    BY <1>a, <1>b, <2>1, <2>2, FiniteThreads, EmptySeq
  <2>4. Len(queue') = Len(queue) - 1 /\ pc' = [pc EXCEPT ![w] = "recycle"]
    BY <1>9, <2>3, TailRange DEF WorkerUnlink
  <2>5. Woken' = Woken \ {w} /\ Linking' = Linking
    BY <2>1, <2>4 DEF Woken, Linking
  <2>6. Cardinality(Woken') = Cardinality(Woken) - 1
    BY <2>2, <2>5, FiniteThreads, OneLess
  <2>7. Len(queue) = sem + Cardinality(Woken) + Cardinality(Linking)
    BY <1>b, <2>1
  <2> QED BY <1>a, <2>1, <2>4, <2>5, <2>6, <2>7, FiniteThreads
<1>10. CASE UNCHANGED vars
  BY <1>10, <1>b DEF vars, syncVars, listVars, Woken, Linking
<1> QED
  BY <1>1, <1>2, <1>3, <1>4, <1>5, <1>6, <1>7, <1>8, <1>9, <1>10
     DEF Next, Start, CallerStep, WorkerStep, Terminated
-----------------------------------------------------------------------------
(* The inductive invariant.                                                *)
IInv == Typing /\ MutexOwned /\ SlotsConserved /\ SignalAccounting

(* The inductive invariant holds initially.                                *)
LEMMA IInvInit == Init => IInv
<1> SUFFICES ASSUME Init PROVE IInv
  OBVIOUS
<1>1. Typing
  BY TypingInit
<1>2. MutexOwned /\ SignalAccounting
  BY DEF Init, MutexOwned, SignalAccounting
<1>3. SlotsConserved
  <2>1. Range(queue) = {} /\ IsInjective(queue)
    BY DEF Init, Range, IsInjective
  <2>2. Range(free) = Slots /\ IsInjective(free)
    <3>1. DOMAIN free = 1 .. MaxPendingWork /\ \A i \in 1 .. MaxPendingWork : free[i] = i - 1
      BY DEF Init
    <3>2. \A s \in Slots : s + 1 \in 1 .. MaxPendingWork /\ (s + 1) - 1 = s
      BY SetFacts
    <3>3. \A i \in 1 .. MaxPendingWork : i - 1 \in Slots
      BY SetFacts
    <3>4. Range(free) = Slots
      BY <3>1, <3>2, <3>3 DEF Range
    <3>5. IsInjective(free)
      BY <3>1, SetFacts DEF IsInjective
    <3> QED BY <3>4, <3>5
  <2>3. Holding = {}
    BY DEF Init, Holding
  <2> QED BY <2>1, <2>2, <2>3 DEF SlotsConserved
<1> QED BY <1>1, <1>2, <1>3 DEF IInv

(* Every step preserves the inductive invariant.                           *)
LEMMA IInvStep == IInv /\ [Next]_vars => IInv'
BY TypingStep, MutexOwnedStep, SlotsStep, SignalStep DEF IInv

(* The inductive invariant always holds.                                   *)
LEMMA Invariance == Spec => []IInv
BY IInvInit, IInvStep, PTL DEF Spec

(* Every value the pool holds has the type its declaration gives it: the   *)
(* semaphore never exceeds the maximum it was created with, and an index   *)
(* on the free stack is always an index of work_items.                     *)
THEOREM TypeCorrect == Spec => []TypeOK
<1>1. IInv => TypeOK
  BY DEF IInv, Typing
<1> QED BY <1>1, Invariance, PTL

(* No work item is lost or handed out twice, whatever the number of items, *)
(* workers and callers, until thread_pool_shutdown closes the mutex.       *)
THEOREM ItemsConserved == Spec => []SlotsConserved
<1>1. IInv => SlotsConserved
  BY DEF IInv
<1> QED BY <1>1, Invariance, PTL

(* The semaphore counts the queued items exactly, up to the workers on     *)
(* their way to one and the callers about to signal.                       *)
THEOREM SignalsAccounted == Spec => []SignalAccounting
<1>1. IInv => SignalAccounting
  BY DEF IInv
<1> QED BY <1>1, Invariance, PTL

(* The worker's branch for an empty queue is dead code.                    *)
THEOREM EmptyWakeupNever == Spec => []WokenFindsWork
<1>1. IInv => WokenFindsWork
  <2> SUFFICES ASSUME IInv, handles = "open", NEW w \in Workers, pc[w] = "unlink"
               PROVE  queue # <<>>
    BY DEF WokenFindsWork
  <2>1. Woken # {} /\ Cardinality(Woken) > 0
    BY FiniteThreads, FS_EmptySet DEF Woken
  <2>2. Len(queue) = sem + Cardinality(Woken) + Cardinality(Linking) /\ sem \in Nat
    BY SetFacts DEF IInv, SignalAccounting, Typing, TypeOK
  <2>3. Len(queue) > 0
    BY <2>1, <2>2, FiniteThreads
  <2> QED BY <2>3, EmptySeq
<1> QED BY <1>1, Invariance, PTL
-----------------------------------------------------------------------------
(* The program, in which one thread submits and a worker has time to end   *)
(* before the wait for it expires, unless a client keeps it in its handler.*)
Prompt == Late \subseteq {"busy"} /\ \A c, d \in Callers : c = d

(* The shutdown passes a worker only when it has ended or is in its        *)
(* handler, from where it comes back to the flag, and closes the handles   *)
(* when it has passed them all.                                            *)
Passed == {"off", "busy", "loop", "exited"}

Joined ==
    /\ gui \in {"init", "create", "up", "abort", "event"} => joined = 0
    /\ gui \in {"event", "join", "done"} => isShutdown
    /\ \A w \in Workers : w <= joined => pc[w] \in Passed
    /\ handles = "closed" => joined = ThreadCount

LEMMA JoinedStep == Prompt /\ Typing /\ Joined /\ [Next]_vars => Joined'
<1> SUFFICES ASSUME Prompt, Typing, Joined, [Next]_vars PROVE Joined'
  OBVIOUS
<1>0. joined \in 0 .. ThreadCount /\ ThreadCount \in Nat /\ created \in 0 .. ThreadCount
  BY SetFacts DEF Typing, TypeOK
<1>a. \A w \in Workers : w \in Int
  BY SetFacts
<1>1. ASSUME NEW ok \in BOOLEAN, CreateSync(ok) PROVE Joined'
  BY <1>1 DEF CreateSync, Joined
<1>2. ASSUME NEW ok \in BOOLEAN, CreateWorker(ok) PROVE Joined'
  <2>1. /\ joined' = joined /\ joined = 0 /\ handles' = handles
    BY <1>2 DEF CreateWorker, Joined, syncVars
  <2>2. \A w \in Workers : ~(w <= 0)
    BY <1>0
  <2> QED BY <2>1, <2>2, <1>2 DEF CreateWorker, Joined
<1>3. CASE ShutdownFlag
  BY <1>3 DEF ShutdownFlag, Joined, syncVars
<1>4. CASE ShutdownEvent
  BY <1>4 DEF ShutdownEvent, Joined, syncVars
<1>5. CASE ShutdownJoin
  <2>1. joined + 1 \in Workers /\ pc[joined + 1] \in Passed
    <3>1. joined + 1 \in Workers
      BY <1>0, <1>5 DEF ShutdownJoin
    <3>2. pc[joined + 1] \in {"off", "exited"} \cup {"busy"}
      BY <1>5 DEF ShutdownJoin, JoinReturns, Prompt
    <3> QED BY <3>1, <3>2 DEF Passed
  <2>2. \A w \in Workers : w <= joined + 1 => w <= joined \/ w = joined + 1
    BY <1>0, <1>a
  <2>3. gui = "join" /\ joined < ThreadCount /\ joined' = joined + 1
        /\ UNCHANGED <<gui, pc, handles, isShutdown>>
    BY <1>5 DEF ShutdownJoin, syncVars
  <2>4. handles # "closed"
    BY <1>0, <2>3 DEF Joined
  <2>5. ASSUME NEW w \in Workers, w <= joined' PROVE pc'[w] \in Passed
    BY <2>1, <2>2, <2>3, <2>5 DEF Joined
  <2> QED BY <2>3, <2>4, <2>5 DEF Joined
<1>6. CASE ShutdownClose
  BY <1>6 DEF ShutdownClose, Joined
<1>7. ASSUME NEW c \in Callers, CallerStep(c) \/ \E x \in Jobs : QueueEnter(c, x) PROVE Joined'
  <2>1. UNCHANGED <<gui, joined, handles, isShutdown>>
    BY <1>7 DEF CallerStep, QueueEnter, QueueLock, QueueFull, QueueTake, QueueLink, QueueSignal,
                guiVars, syncVars
  <2>2. pc' = pc \/ \E to : pc' = [pc EXCEPT ![c] = to]
    BY <1>7 DEF CallerStep, QueueEnter, QueueLock, QueueFull, QueueTake, QueueLink, QueueSignal
  <2>3. ASSUME NEW w \in Workers PROVE pc'[w] = pc[w]
    <3>1. w # c /\ pc \in [Threads -> WorkerPC \cup CallerPC]
      BY SetFacts DEF Typing, TypeOK, WorkerPC, CallerPC
    <3>2. CASE \E to : pc' = [pc EXCEPT ![c] = to]
      BY <3>1, <3>2
    <3> QED BY <2>2, <3>2
  <2> QED BY <2>1, <2>3 DEF Joined
<1>8. ASSUME NEW w \in Workers, WorkerStep(w) PROVE Joined'
  <2>1. UNCHANGED <<gui, joined, handles, isShutdown>>
    BY <1>8 DEF WorkerStep, WorkerLoop, WorkerWait, WorkerLock, WorkerUnlink, WorkerRecycle,
                WorkerRun, WorkerReturn, guiVars, syncVars
  <2>2. ASSUME w <= joined PROVE pc'[w] \in Passed
    <3>1. pc[w] \in Passed /\ pc \in [Threads -> WorkerPC \cup CallerPC]
      BY <2>2 DEF Joined, Typing, TypeOK, WorkerPC, CallerPC
    <3>2. isShutdown
      <4>1. joined # 0
        BY <1>0, <1>a, <2>2
      <4>2. gui \in {"join", "done"}
        BY <4>1 DEF Joined, Typing, TypeOK
      <4> QED BY <4>2 DEF Joined
    <3>3. CASE WorkerLoop(w)
      BY <3>1, <3>2, <3>3 DEF WorkerLoop, Passed
    <3>4. CASE WorkerReturn(w)
      BY <3>1, <3>4 DEF WorkerReturn, Passed
    <3>5. ~(WorkerWait(w) \/ WorkerLock(w) \/ WorkerUnlink(w) \/ WorkerRecycle(w) \/ WorkerRun(w))
      BY <3>1 DEF WorkerWait, WorkerLock, WorkerUnlink, WorkerRecycle, WorkerRun, Passed
    <3> QED BY <1>8, <3>3, <3>4, <3>5 DEF WorkerStep
  <2>3. ASSUME NEW v \in Workers, v # w PROVE pc'[v] = pc[v]
    <3>1. \E to : pc' = [pc EXCEPT ![w] = to]
      BY <1>8 DEF WorkerStep, WorkerLoop, WorkerWait, WorkerLock, WorkerUnlink, WorkerRecycle,
                  WorkerRun, WorkerReturn
    <3>2. pc \in [Threads -> WorkerPC \cup CallerPC]
      BY DEF Typing, TypeOK, WorkerPC, CallerPC
    <3> QED BY <2>3, <3>1, <3>2
  <2>4. \A v \in Workers : v <= joined => pc'[v] \in Passed
    BY <2>2, <2>3 DEF Joined
  <2> QED BY <2>1, <2>4 DEF Joined
<1>9. CASE UNCHANGED vars
  BY <1>9 DEF vars, guiVars, syncVars, Joined
<1> QED
  BY <1>1, <1>2, <1>3, <1>4, <1>5, <1>6, <1>7, <1>8, <1>9
     DEF Next, Start, Shutdown, Terminated

(* One thread at a time is inside, whether the mutex is there to see to it *)
(* or thread_pool_shutdown has closed it: then no worker comes back to the *)
(* lists, not even one that outlived the 5 s wait in its handler.          *)
THEOREM AccessExclusive == Prompt => (Spec => []ExclusiveAccess)
<1> SUFFICES ASSUME Prompt PROVE Spec => []ExclusiveAccess
  OBVIOUS
<1>1. Init => Joined
  <2>1. \A w \in Workers : ~(w <= 0)
    BY SetFacts
  <2> QED BY <2>1 DEF Init, Joined
<1>2. IInv /\ Joined /\ [Next]_vars => Joined'
  BY JoinedStep DEF IInv
<1>3. IInv /\ Joined => ExclusiveAccess
  <2> SUFFICES ASSUME IInv, Joined, NEW t \in Inside, NEW u \in Inside PROVE t = u
    BY DEF ExclusiveAccess
  <2>1. CASE handles = "open"
    BY <2>1 DEF IInv, MutexOwned
  <2>2. CASE handles = "none"
    <3>1. \A v \in Threads : pc[v] \in {"off", "idle"}
      <4>1. created = 0 /\ \A c \in Callers : pc[c] = "idle"
        BY <2>2 DEF IInv, Typing, Control
      <4>2. \A w \in Workers : w > 0
        BY SetFacts
      <4> QED BY <4>1, <4>2 DEF IInv, Typing, Control
    <3> QED BY <3>1 DEF Inside
  <2>3. CASE handles = "closed"
    <3>1. \A w \in Workers : pc[w] \in Passed
      <4>1. \A w \in Workers : w <= ThreadCount
        BY SetFacts
      <4> QED BY <2>3, <4>1 DEF Joined
    <3>2. t \in Callers /\ u \in Callers
      BY <3>1 DEF Inside, Passed
    <3> QED BY <3>2 DEF Prompt
  <2> QED BY <2>1, <2>2, <2>3 DEF IInv, Typing, TypeOK
<1> QED BY <1>1, <1>2, <1>3, Invariance, PTL DEF Spec
-----------------------------------------------------------------------------
(* What is known of the jobs under way: a worker without an item owes      *)
(* nothing, a caller that is being served has a job, and a caller about to *)
(* link an item has put its job into it.                                   *)
JobsPlaced ==
    /\ \A w \in Workers : pc[w] \notin {"recycle", "run", "busy"} => owed[w] = NoJob
    /\ \A c \in Callers : pc[c] \in {"lock", "take", "link"} => job[c] \in Jobs
Filled == \A c \in Callers : pc[c] = "link" => item[slot[c]] = job[c]

(* Every step keeps the jobs where JobsPlaced says.                        *)
LEMMA JobsPlacedStep ==
  ASSUME Typing, JobsPlaced, NEW kept \in BOOLEAN, kept => ItemsApart /\ Filled, [Next]_vars
  PROVE  JobsPlaced' /\ (kept => Filled')
<1> DEFINE P1 == JobsPlaced' /\ (kept => Filled')
<1> SUFFICES P1
  OBVIOUS
<1>b. /\ pc \in [Threads -> WorkerPC \cup CallerPC]
      /\ slot \in [Threads -> Slots \cup {NoSlot}] /\ item \in [Slots -> Jobs \cup {NoJob}]
      /\ job \in [Threads -> Jobs \cup {NoJob}] /\ owed \in [Workers -> Jobs \cup {NoJob}]
      /\ free \in Seq(Slots) /\ fresh \subseteq Jobs
      /\ \A w \in Workers : w > created => pc[w] = "off"
      /\ \A t \in Threads : pc[t] = "link" => slot[t] \in Slots
      /\ \A w \in Workers : pc[w] # "link"
  BY DEF Typing, TypeOK, Control, WorkerPC, CallerPC
<1> USE SetFacts DEF JobsPlaced, Filled
<1>1. CASE Start
  <2>1. UNCHANGED <<slot, item, owed, job>>
    BY <1>1 DEF Start, CreateSync, CreateWorker, listVars, ghosts
  <2>2. \/ pc' = pc
        \/ /\ created + 1 \in Workers /\ pc[created + 1] = "off"
           /\ pc' = [pc EXCEPT ![created + 1] = "loop"]
    BY <1>1, StartStep
  <2>3. \A c \in Callers : pc'[c] = pc[c]
    BY <1>b, <2>2
  <2>4. \A w \in Workers : pc'[w] \notin {"recycle", "run", "busy"} => pc[w] \notin {"recycle", "run", "busy"}
    BY <1>b, <2>2
  <2> QED BY <2>1, <2>3, <2>4
<1>2. CASE ShutdownFlag \/ Shutdown
  BY <1>2
     DEF ShutdownFlag, Shutdown, ShutdownEvent, ShutdownJoin, ShutdownClose, listVars, ghosts
<1>3. ASSUME NEW c \in Callers,
             (\E x \in Jobs : QueueEnter(c, x)) \/ QueueLock(c) \/ QueueFull(c) \/ QueueLink(c)
             \/ QueueSignal(c)
      PROVE  P1
  <2>1. UNCHANGED <<slot, item, owed, handles>>
    BY <1>3 DEF QueueEnter, QueueLock, QueueFull, QueueLink, QueueSignal, listVars, ghosts, syncVars
  <2>2. \A t \in Threads : t # c => pc'[t] = pc[t] /\ job'[t] = job[t]
    BY <1>3, <1>b DEF QueueEnter, QueueLock, QueueFull, QueueLink, QueueSignal
  <2>3. /\ pc'[c] # "link"
        /\ pc'[c] \in {"lock", "take", "link"} => job'[c] \in Jobs
    BY <1>3, <1>b DEF QueueEnter, QueueLock, QueueFull, QueueLink, QueueSignal
  <2> QED BY <2>1, <2>2, <2>3
<1>4. ASSUME NEW c \in Callers, QueueTake(c) PROVE P1
  <2> DEFINE top == free[Len(free)]
  <2>1. top \in Slots /\ top \in Range(free)
    BY <1>4, <1>b, FrontRange DEF QueueTake
  <2>2. /\ item' = [item EXCEPT ![top] = job[c]] /\ slot' = [slot EXCEPT ![c] = top]
        /\ pc[c] = "take" /\ pc' = [pc EXCEPT ![c] = "link"]
        /\ job' = job
    BY <1>4 DEF QueueTake
  <2>3. owed' = owed /\ handles' = handles
    BY <1>4 DEF QueueTake, ghosts, syncVars
  <2> HIDE DEF top
  <2>4. ASSUME kept, NEW d \in Callers, pc'[d] = "link"
        PROVE  item'[slot'[d]] = job'[d]
    <3>1. CASE d = c
      BY <1>b, <2>1, <2>2, <3>1
    <3>2. CASE d # c
      <4>1. pc[d] = "link" /\ slot'[d] = slot[d] /\ slot[d] \in Slots
        BY <1>b, <2>2, <2>4, <3>2
      <4>2. slot[d] # top
        BY <2>1, <2>4, <4>1 DEF ItemsApart, Holding
      <4>3. item'[slot[d]] = item[slot[d]]
        BY <1>b, <2>2, <4>1, <4>2
      <4>4. item[slot[d]] = job[d]
        BY <2>4, <4>1
      <4> QED BY <2>2, <4>1, <4>3, <4>4
    <3> QED BY <3>1, <3>2
  <2>5. \A w \in Workers : pc'[w] = pc[w]
    BY <1>b, <2>2
  <2>6. \A d \in Callers : pc'[d] \in {"lock", "take", "link"} => job'[d] \in Jobs
    BY <1>b, <2>2
  <2> QED BY <2>2, <2>3, <2>4, <2>5, <2>6
<1>5. ASSUME NEW w \in Workers, WorkerStep(w) PROVE P1
  <2>1. item' = item /\ handles' = handles
    BY <1>5 DEF WorkerStep, WorkerLoop, WorkerWait, WorkerLock, WorkerUnlink, WorkerRecycle,
                WorkerRun, WorkerReturn, syncVars, listVars
  <2>2. \A t \in Threads : t # w => pc'[t] = pc[t] /\ job'[t] = job[t] /\ slot'[t] = slot[t]
    BY <1>5, <1>b
       DEF WorkerStep, WorkerLoop, WorkerWait, WorkerLock, WorkerUnlink, WorkerRecycle,
           WorkerRun, WorkerReturn
  <2>3. \A v \in Workers : v # w => owed'[v] = owed[v]
    BY <1>5, <1>b
       DEF WorkerStep, WorkerLoop, WorkerWait, WorkerLock, WorkerUnlink, WorkerRecycle,
           WorkerRun, WorkerReturn, ghosts
  <2>4. pc'[w] \in {"recycle", "run", "busy"} \/ owed'[w] = NoJob
    <3>1. CASE WorkerUnlink(w)
      BY <1>b, <3>1 DEF WorkerUnlink
    <3>2. CASE WorkerReturn(w)
      BY <1>b, <3>2 DEF WorkerReturn
    <3>3. CASE WorkerRecycle(w) \/ WorkerRun(w)
      BY <1>b, <3>3 DEF WorkerRecycle, WorkerRun
    <3>4. CASE WorkerLoop(w) \/ WorkerWait(w) \/ WorkerLock(w)
      BY <1>b, <3>4 DEF WorkerLoop, WorkerWait, WorkerLock, ghosts
    <3> QED BY <1>5, <3>1, <3>2, <3>3, <3>4 DEF WorkerStep
  <2> QED BY <2>1, <2>2, <2>3, <2>4
<1>6. CASE UNCHANGED vars
  BY <1>6 DEF vars, syncVars, listVars, ghosts
<1> QED
  BY <1>1, <1>2, <1>3, <1>4, <1>5, <1>6 DEF Next, CallerStep, Terminated
-----------------------------------------------------------------------------
(* Two lists of items that hold the same jobs are the same list of jobs.   *)
LEMMA WaitingSeq ==
  ASSUME Typing
  PROVE  /\ Waiting \in Seq(Jobs \cup {NoJob}) /\ Len(Waiting) = Len(queue)
         /\ \A i \in 1 .. Len(queue) : Waiting[i] = item[queue[i]]
<1>1. Len(queue) \in Nat /\ \A i \in 1 .. Len(queue) : queue[i] \in Slots
  BY ElementOfSeq, LenProperties DEF Typing, TypeOK
<1>2. item \in [Slots -> Jobs \cup {NoJob}]
  BY DEF Typing, TypeOK
<1>3. Waiting \in [1 .. Len(queue) -> Jobs \cup {NoJob}]
  BY <1>1, <1>2 DEF Waiting
<1>4. Waiting \in Seq(Jobs \cup {NoJob})
  BY <1>1, <1>3, SeqDef
<1>5. Len(Waiting) = Len(queue)
  BY <1>1, <1>3, <1>4, LenProperties
<1> QED BY <1>4, <1>5 DEF Waiting

(* The same in the next state.                                             *)
LEMMA WaitingSeqNext ==
  ASSUME Typing'
  PROVE  /\ Waiting' \in Seq(Jobs \cup {NoJob}) /\ Len(Waiting') = Len(queue')
         /\ \A i \in 1 .. Len(queue') : Waiting'[i] = item'[queue'[i]]
<1>1. Len(queue') \in Nat /\ \A i \in 1 .. Len(queue') : queue'[i] \in Slots
  BY ElementOfSeq, LenProperties DEF Typing, TypeOK
<1>2. item' \in [Slots -> Jobs \cup {NoJob}]
  BY DEF Typing, TypeOK
<1>3. Waiting' \in [1 .. Len(queue') -> Jobs \cup {NoJob}]
  BY <1>1, <1>2 DEF Waiting
<1>4. Waiting' \in Seq(Jobs \cup {NoJob})
  BY <1>1, <1>3, SeqDef
<1>5. Len(Waiting') = Len(queue')
  BY <1>1, <1>3, <1>4, LenProperties
<1> QED BY <1>4, <1>5 DEF Waiting

(* The items of the queue are the same and hold the same jobs.             *)
LEMMA WaitingStays ==
  ASSUME Typing, queue' = queue, \A s \in Range(queue) : item'[s] = item[s]
  PROVE  Waiting' = Waiting
<1>1. \A i \in 1 .. Len(queue) : item'[queue[i]] = item[queue[i]]
  BY LenProperties DEF Typing, TypeOK, Range
<1> QED BY <1>1 DEF Waiting

(* Linking an item to the queue submits the job the caller carries.        *)
LEMMA LinkSubmits ==
  ASSUME Typing, Typing', ItemsApart', JobsPlaced, Filled, NEW c \in Callers, QueueLink(c)
  PROVE  WQ!Submit(job[c])
<1>1. /\ pc[c] = "link" /\ queue' = Append(queue, slot[c]) /\ item' = item /\ owed' = owed
      /\ slot[c] \in Slots /\ queue \in Seq(Slots) /\ c \in Holding /\ handles' = handles
  BY DEF QueueLink, Linked, ghosts, Typing, TypeOK, Control, Holding
<1>2. /\ Len(queue') = Len(queue) + 1 /\ queue'[Len(queue) + 1] = slot[c]
      /\ \A i \in 1 .. Len(queue) : queue'[i] = queue[i]
  BY <1>1, AppendProperties
<1>3. Len(queue) < MaxPendingWork
  <2>1. queue' \in Seq(Slots) /\ IsInjective(queue')
    BY <1>1 DEF Typing, TypeOK, ItemsApart
  <2>2. Len(queue') <= MaxPendingWork
    BY <2>1, InjectiveLen, SetFacts
  <2> QED BY <1>1, <1>2, <2>2, SetFacts, LenProperties
<1>4. item[slot[c]] = job[c] /\ job[c] \in Jobs
  BY <1>1 DEF JobsPlaced, Filled
<1>5. Waiting' = Append(Waiting, job[c])
  <2> DEFINE J == Jobs \cup {NoJob}
  <2>1. /\ Waiting \in Seq(J) /\ Len(Waiting) = Len(queue)
        /\ \A i \in 1 .. Len(queue) : Waiting[i] = item[queue[i]]
    BY WaitingSeq
  <2>2. /\ Waiting' \in Seq(J) /\ Len(Waiting') = Len(queue')
        /\ \A i \in 1 .. Len(queue') : Waiting'[i] = item'[queue'[i]]
    BY WaitingSeqNext
  <2>3. /\ Append(Waiting, job[c]) \in Seq(J) /\ Len(Append(Waiting, job[c])) = Len(Waiting) + 1
        /\ \A i \in 1 .. Len(Waiting) : Append(Waiting, job[c])[i] = Waiting[i]
        /\ Append(Waiting, job[c])[Len(Waiting) + 1] = job[c]
    BY <1>4, <2>1, AppendProperties
  <2>4. Len(queue) \in Nat
    BY <1>1, LenProperties
  <2>5. ASSUME NEW i \in 1 .. Len(queue) + 1 PROVE Waiting'[i] = Append(Waiting, job[c])[i]
    <3>1. CASE i \in 1 .. Len(queue)
      <4>1. i \in 1 .. Len(queue') /\ i \in 1 .. Len(Waiting)
        BY <1>2, <2>1, <2>4, <3>1
      <4>2. Waiting'[i] = item[queue[i]]
        BY <1>1, <1>2, <2>2, <3>1, <4>1
      <4>3. Append(Waiting, job[c])[i] = item[queue[i]]
        BY <2>1, <2>3, <3>1, <4>1
      <4> QED BY <4>2, <4>3
    <3>2. CASE i = Len(queue) + 1
      <4>1. i \in 1 .. Len(queue') /\ i = Len(Waiting) + 1
        BY <1>2, <2>1, <2>4, <3>2
      <4>2. Waiting'[i] = item[slot[c]]
        BY <1>1, <1>2, <2>2, <3>2, <4>1
      <4> QED BY <1>4, <2>3, <4>1, <4>2
    <3>3. i \in 1 .. Len(queue) \/ i = Len(queue) + 1
      BY <2>4, <2>5
    <3> QED BY <3>1, <3>2, <3>3
  <2> QED BY <1>2, <2>1, <2>2, <2>3, <2>4, <2>5, SeqEqual
<1>6. Len(Waiting) = Len(queue)
  BY WaitingSeq
<1> QED BY <1>1, <1>3, <1>5, <1>6 DEF WQ!Submit

(* Unlinking the head of the queue takes the oldest job.                   *)
LEMMA UnlinkTakes ==
  ASSUME Typing, Typing', JobsPlaced, NEW w \in Workers, WorkerUnlink(w), queue # <<>>
  PROVE  WQ!Take(w)
<1>1. /\ pc[w] = "unlink" /\ queue' = Tail(queue) /\ item' = item
      /\ owed' = [owed EXCEPT ![w] = item[Head(queue)]] /\ queue \in Seq(Slots)
  BY DEF WorkerUnlink, Typing, TypeOK
<1>2. /\ Len(queue') = Len(queue) - 1 /\ Len(queue) \in Nat \ {0} /\ Head(queue) = queue[1]
      /\ \A i \in 1 .. Len(queue') : queue'[i] = queue[i + 1]
  BY <1>1, HeadTailProperties, EmptySeq
<1> DEFINE J == Jobs \cup {NoJob}
<1>3. /\ Waiting \in Seq(J) /\ Len(Waiting) = Len(queue)
      /\ \A i \in 1 .. Len(queue) : Waiting[i] = item[queue[i]]
  BY WaitingSeq
<1>4. /\ Waiting' \in Seq(J) /\ Len(Waiting') = Len(queue')
      /\ \A i \in 1 .. Len(queue') : Waiting'[i] = item'[queue'[i]]
  BY WaitingSeqNext
<1>5. Waiting # <<>>
  BY <1>2, <1>3, EmptySeq
<1>6. /\ Tail(Waiting) \in Seq(J) /\ Len(Tail(Waiting)) = Len(Waiting) - 1
      /\ \A i \in 1 .. Len(Tail(Waiting)) : Tail(Waiting)[i] = Waiting[i + 1]
      /\ Head(Waiting) = Waiting[1]
  BY <1>3, <1>5, HeadTailProperties
<1>7. Head(Waiting) = item[Head(queue)]
  BY <1>2, <1>3, <1>6
<1>8. Waiting' = Tail(Waiting)
  <2>1. ASSUME NEW i \in 1 .. Len(queue') PROVE Waiting'[i] = Tail(Waiting)[i]
    <3>1. i \in 1 .. Len(Tail(Waiting)) /\ i + 1 \in 1 .. Len(queue)
      BY <1>2, <1>3, <1>6, <2>1
    <3>2. Tail(Waiting)[i] = item[queue[i + 1]]
      BY <1>3, <1>6, <3>1
    <3>3. Waiting'[i] = item[queue'[i]] /\ queue'[i] = queue[i + 1]
      BY <1>1, <1>2, <1>4, <2>1
    <3> QED BY <3>2, <3>3
  <2> QED BY <1>2, <1>3, <1>4, <1>6, <2>1, SeqEqual
<1>9. owed[w] = NoJob
  BY <1>1 DEF JobsPlaced
<1> QED BY <1>1, <1>5, <1>7, <1>8, <1>9 DEF WQ!Take

(* Every step of the pool is a step of the FIFO or leaves it as it is.     *)
LEMMA StepRefines ==
  ASSUME Typing, Typing', ItemsApart, ItemsApart', JobsPlaced, Filled, [Next]_vars
  PROVE  WQ!Next \/ UNCHANGED <<Waiting, owed>>
<1>1. CASE Start \/ ShutdownFlag \/ Shutdown \/ UNCHANGED vars
  <2>1. UNCHANGED <<queue, item, owed>>
    BY <1>1 DEF Start, CreateSync, CreateWorker, ShutdownFlag, Shutdown, ShutdownEvent, ShutdownJoin,
                ShutdownClose, vars, listVars, ghosts
  <2> QED BY <2>1, WaitingStays
<1>2. ASSUME NEW c \in Callers,
             (\E x \in Jobs : QueueEnter(c, x)) \/ QueueLock(c) \/ QueueFull(c) \/ QueueSignal(c)
      PROVE  UNCHANGED <<Waiting, owed>>
  <2>1. UNCHANGED <<queue, item, owed>>
    BY <1>2 DEF QueueEnter, QueueLock, QueueFull, QueueSignal, listVars, ghosts
  <2> QED BY <2>1, WaitingStays
<1>3. ASSUME NEW c \in Callers, QueueTake(c) PROVE UNCHANGED <<Waiting, owed>>
  <2> DEFINE top == free[Len(free)]
  <2>1. top \in Range(free)
    BY <1>3, FrontRange DEF QueueTake, Typing, TypeOK
  <2>2. queue' = queue /\ owed' = owed /\ item' = [item EXCEPT ![top] = job[c]]
    BY <1>3 DEF QueueTake, ghosts
  <2> HIDE DEF top
  <2>3. item \in [Slots -> Jobs \cup {NoJob}] /\ queue \in Seq(Slots)
    BY DEF Typing, TypeOK
  <2>4. top \notin Range(queue) /\ Range(queue) \subseteq Slots
    BY <2>1, <2>3, RangeOfSeq DEF ItemsApart
  <2>5. \A s \in Range(queue) : item'[s] = item[s]
    BY <2>2, <2>3, <2>4
  <2> QED BY <2>2, <2>5, WaitingStays
<1>4. ASSUME NEW c \in Callers, QueueLink(c) PROVE WQ!Next
  <2>1. job[c] \in Jobs
    BY <1>4 DEF JobsPlaced, QueueLink
  <2> QED BY <1>4, <2>1, LinkSubmits DEF WQ!Next
<1>5. ASSUME NEW w \in Workers,
             WorkerLoop(w) \/ WorkerWait(w) \/ WorkerLock(w) \/ WorkerRecycle(w) \/ WorkerRun(w)
      PROVE  UNCHANGED <<Waiting, owed>>
  <2>1. UNCHANGED <<queue, item, owed>>
    BY <1>5 DEF WorkerLoop, WorkerWait, WorkerLock, WorkerRecycle, WorkerRun, listVars, ghosts
  <2> QED BY <2>1, WaitingStays
<1>6. ASSUME NEW w \in Workers, WorkerUnlink(w) PROVE WQ!Next \/ UNCHANGED <<Waiting, owed>>
  <2>1. CASE queue = <<>>
    <3>1. UNCHANGED <<queue, item, owed>>
      BY <1>6, <2>1 DEF WorkerUnlink
    <3> QED BY <3>1, WaitingStays
  <2>2. CASE queue # <<>>
    BY <1>6, <2>2, UnlinkTakes DEF WQ!Next
  <2> QED BY <2>1, <2>2
<1>7. ASSUME NEW w \in Workers, WorkerReturn(w) PROVE WQ!Next \/ UNCHANGED <<Waiting, owed>>
  <2>1. UNCHANGED <<queue, item>> /\ owed' = [owed EXCEPT ![w] = NoJob]
    BY <1>7 DEF WorkerReturn, listVars
  <2>2. Waiting' = Waiting
    BY <2>1, WaitingStays
  <2>3. CASE owed[w] = NoJob
    <3>1. owed' = owed
      BY <2>1, <2>3 DEF Typing, TypeOK
    <3> QED BY <2>2, <3>1
  <2>4. CASE owed[w] # NoJob
    BY <2>1, <2>2, <2>4 DEF WQ!Next, WQ!PutDown
  <2> QED BY <2>3, <2>4
<1> QED
  BY <1>1, <1>2, <1>3, <1>4, <1>5, <1>6, <1>7
     DEF Next, CallerStep, WorkerStep, Terminated
-----------------------------------------------------------------------------
(* Where the jobs are, as long as the items are where they should be.      *)
JInv == JobsPlaced /\ (handles # "closed" => Filled)

LEMMA JobsKnown == Spec => []JInv
<1>1. Init => JInv
  BY PoolAssumption DEF Init, JInv, JobsPlaced, Filled
<1>2. IInv /\ JInv /\ [Next]_vars => JInv'
  <2> SUFFICES ASSUME IInv, JInv, [Next]_vars PROVE JInv'
    OBVIOUS
  <2>1. handles' # "closed" => handles # "closed"
    BY ClosedStays DEF IInv
  <2>2. handles # "closed" => ItemsApart
    BY DEF IInv, SlotsConserved, ItemsApart
  <2> DEFINE kept == handles # "closed"
  <2>3. JobsPlaced' /\ (kept => Filled')
    <3>1. Typing /\ JobsPlaced /\ (kept => ItemsApart /\ Filled) /\ kept \in BOOLEAN
      BY <2>2 DEF IInv, JInv
    <3> HIDE DEF kept
    <3> QED BY <3>1, JobsPlacedStep
  <2> QED BY <2>1, <2>3 DEF JInv
<1> QED BY <1>1, <1>2, Invariance, PTL DEF Spec

(* The FIFO is empty at first.                                             *)
LEMMA FifoInit == Init => WQ!Init
BY DEF Init, Waiting, WQ!Init

(* The pool serves its callers as a FIFO of at most MAX_PENDING_WORK jobs, *)
(* for every number of work items, workers and callers, until the shutdown *)
(* closes the mutex.                                                       *)
THEOREM PoolIsFifo == Spec => FifoWhileOpen
<1>1. IInv /\ IInv' /\ JInv /\ [Next]_vars
        => [handles # "closed" => WQ!Next]_<<Waiting, owed>>
  <2> SUFFICES ASSUME IInv, IInv', JInv, [Next]_vars, handles # "closed"
               PROVE  WQ!Next \/ UNCHANGED <<Waiting, owed>>
    OBVIOUS
  <2>1. ItemsApart /\ ExclusiveAccess
    BY OpenExclusive DEF IInv, SlotsConserved, ItemsApart
  <2>2. ItemsApart'
    BY <2>1, ItemsStep DEF IInv
  <2> QED BY <2>1, <2>2, StepRefines DEF IInv, JInv
<1> QED BY <1>1, JobsKnown, FifoInit, Invariance, PTL DEF Spec, FifoWhileOpen

(* Where one thread submits and the wait for a worker expires at most in   *)
(* its handler, the pool is that FIFO to the end: a submission that the    *)
(* shutdown overtakes, and that goes on without a mutex, still moves one   *)
(* item after the other.                                                   *)
THEOREM PoolImplementsFifo == Prompt => (Spec => ImplementsWorkQueue)
<1> SUFFICES ASSUME Prompt PROVE Spec => ImplementsWorkQueue
  OBVIOUS
<1>1. IInv /\ Init => ItemsApart /\ Filled
  BY DEF Init, IInv, SlotsConserved, ItemsApart, Filled
<1>2. IInv /\ JInv /\ ExclusiveAccess /\ ItemsApart /\ Filled /\ [Next]_vars
        => (ItemsApart /\ Filled)'
  <2> SUFFICES ASSUME IInv, JInv, ExclusiveAccess, ItemsApart, Filled, [Next]_vars
               PROVE  ItemsApart' /\ Filled'
    OBVIOUS
  <2>1. ItemsApart'
    BY ItemsStep DEF IInv
  <2>2. TRUE => Filled'
    BY JobsPlacedStep DEF IInv, JInv
  <2> QED BY <2>1, <2>2
<1>3. Spec => [](ItemsApart /\ Filled)
  BY <1>1, <1>2, JobsKnown, AccessExclusive, Invariance, PTL DEF Spec
<1>4. IInv /\ IInv' /\ JInv /\ [Next]_vars /\ ItemsApart /\ Filled /\ (ItemsApart /\ Filled)'
        => [WQ!Next]_<<Waiting, owed>>
  BY StepRefines DEF IInv, JInv
<1> QED BY <1>3, <1>4, JobsKnown, FifoInit, Invariance, PTL
        DEF Spec, ImplementsWorkQueue, WQ!Spec, WQ!abstractVars
=============================================================================
