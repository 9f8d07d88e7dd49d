------------------------------ MODULE ThreadPool ------------------------------
(***************************************************************************)
(* The Windows 9x thread pool of thread_pool.c: a fixed array of work      *)
(* items threaded on a queue and on a free stack, a mutex around both, a   *)
(* semaphore that counts queued items, and an event for shutdown.          *)
(*                                                                         *)
(* One action is one step of a thread between two points where another     *)
(* thread can run.  The linked list (work_queue_head, work_queue_tail and  *)
(* the next pointers) is the sequence queue of item indices; the array     *)
(* free_work_items[0 .. free_work_count-1] is the sequence free, whose end *)
(* is the top of the stack.                                                *)
(***************************************************************************)
EXTENDS Integers, Sequences, FiniteSets, Functions

CONSTANTS MaxPendingWork,  \* MAX_PENDING_WORK
          ThreadCount,     \* thread_count
          Callers,         \* threads that call thread_pool_queue_work
          Jobs,            \* client contexts; each is submitted at most once
          NoJob, NoSlot, NoThread,
          Late             \* where a worker may be when the 5 s wait for it expires

ASSUME PoolAssumption ==
    /\ MaxPendingWork \in Nat \ {0}
    /\ ThreadCount \in Nat \ {0}
    /\ IsFiniteSet(Callers)
    /\ Callers \cap (1 .. ThreadCount) = {}
    /\ NoJob \notin Jobs
    /\ NoSlot \notin 0 .. MaxPendingWork - 1
    /\ NoThread \notin Callers \cup (1 .. ThreadCount)
    /\ Late \subseteq {"loop", "wait", "lock", "unlink", "recycle", "run", "busy"}

Workers == 1 .. ThreadCount
Threads == Workers \cup Callers
Slots   == 0 .. MaxPendingWork - 1

VARIABLES
    isShutdown,     \* pool->is_shutdown
    shutdownEvent,  \* the manual-reset event is signalled
    handles,        \* semaphore, mutex and event: "none", "open" or "closed"
    sem,            \* count of work_semaphore
    mutex,          \* owner of work_mutex
    queue, free,    \* item indices: queued (oldest first), free (top last)
    item,           \* work_items[i].param
    created,        \* worker threads created so far by thread_pool_init
    joined,         \* worker threads thread_pool_shutdown has waited for
    gui,            \* control state of the thread that inits and shuts down
    pc,             \* control state of each worker and caller
    slot,           \* item_index of each worker and caller
    job,            \* param: what a caller submits, what a worker was given
    fresh,          \* jobs not submitted yet
    owed,           \* ghost: the job that was in the item a worker dequeued
    runs            \* ghost: how often work_func was called on each job

syncVars == <<handles, sem, mutex>>
listVars == <<queue, free, item>>
guiVars  == <<isShutdown, shutdownEvent, created, joined, gui>>
ghosts   == <<owed, runs>>
vars == <<syncVars, listVars, guiVars, pc, slot, job, fresh, ghosts>>

Ready == created = ThreadCount

TypeOK ==
    /\ isShutdown \in BOOLEAN /\ shutdownEvent \in BOOLEAN
    /\ handles \in {"none", "open", "closed"}
    /\ sem \in 0 .. MaxPendingWork
    /\ mutex \in Threads \cup {NoThread}
    /\ queue \in Seq(Slots) /\ free \in Seq(Slots)
    /\ item \in [Slots -> Jobs \cup {NoJob}]
    /\ created \in 0 .. ThreadCount /\ joined \in 0 .. ThreadCount
    /\ gui \in {"init", "create", "abort", "up", "event", "join", "done"}
    /\ pc \in [Threads -> {"off", "loop", "wait", "lock", "unlink", "recycle",
                           "run", "busy", "exited", "idle", "take", "link", "signal"}]
    /\ slot \in [Threads -> Slots \cup {NoSlot}]
    /\ job \in [Threads -> Jobs \cup {NoJob}]
    /\ fresh \in SUBSET Jobs
    /\ owed \in [Workers -> Jobs \cup {NoJob}]
    /\ runs \in [Jobs -> Nat]

Init ==
    /\ isShutdown = FALSE /\ shutdownEvent = FALSE
    /\ handles = "none" /\ sem = 0 /\ mutex = NoThread
    /\ queue = <<>>
    /\ free = [i \in 1 .. MaxPendingWork |-> i - 1]
    /\ item = [s \in Slots |-> NoJob]
    /\ created = 0 /\ joined = 0 /\ gui = "init"
    /\ pc = [t \in Threads |-> IF t \in Workers THEN "off" ELSE "idle"]
    /\ slot = [t \in Threads |-> NoSlot]
    /\ job = [t \in Threads |-> NoJob]
    /\ fresh = Jobs
    /\ owed = [w \in Workers |-> NoJob]
    /\ runs = [x \in Jobs |-> 0]

Goto(t, to) == pc' = [pc EXCEPT ![t] = to]
-----------------------------------------------------------------------------
(* Win32 objects.  Once the handle is closed a wait fails at once and the  *)
(* caller, which does not look at the result, goes on without the object.  *)

Acquire(t) == /\ handles = "open" => mutex = NoThread
              /\ mutex' = IF handles = "open" THEN t ELSE mutex

Release(t) == mutex' = IF mutex = t THEN NoThread ELSE mutex

SemReleasedNever == sem
SemReleased == IF handles = "open" /\ sem < MaxPendingWork THEN sem + 1 ELSE sem

WorkAvailableOffByOne == sem >= 0
WorkAvailable == sem > 0
-----------------------------------------------------------------------------
(* thread_pool_init *)

CreateSync(ok) ==
    /\ gui = "init"
    /\ handles' = IF ok THEN "open" ELSE "none"
    /\ gui' = IF ok THEN "create" ELSE "abort"
    /\ UNCHANGED <<sem, mutex, listVars, isShutdown, shutdownEvent, created, joined,
                   pc, slot, job, fresh, ghosts>>

CreateWorker(ok) ==
    /\ gui = "create"
    /\ IF ok THEN /\ created' = created + 1
                  /\ Goto(created + 1, "loop")
             ELSE UNCHANGED <<created, pc>>
    /\ gui' = IF ~ok THEN "abort" ELSE IF created' = ThreadCount THEN "up" ELSE gui
    /\ UNCHANGED <<syncVars, listVars, isShutdown, shutdownEvent, joined,
                   slot, job, fresh, ghosts>>
-----------------------------------------------------------------------------
(* thread_pool_queue_work, called by thread c with param x *)

QueueEnter(c, x) ==
    /\ pc[c] = "idle" /\ Ready /\ x \in fresh
    /\ fresh' = fresh \ {x}
    /\ IF isShutdown THEN UNCHANGED <<pc, job>>             \* return -1
                     ELSE Goto(c, "lock") /\ job' = [job EXCEPT ![c] = x]
    /\ UNCHANGED <<syncVars, listVars, guiVars, slot, ghosts>>

QueueLock(c) ==
    /\ pc[c] = "lock"
    /\ Acquire(c)
    /\ Goto(c, "take")
    /\ UNCHANGED <<handles, sem, listVars, guiVars, slot, job, fresh, ghosts>>

QueueFull(c) ==                                             \* return -1
    /\ pc[c] = "take" /\ free = <<>>
    /\ Release(c)
    /\ Goto(c, "idle")
    /\ UNCHANGED <<handles, sem, listVars, guiVars, slot, job, fresh, ghosts>>

QueueTake(c) ==
    /\ pc[c] = "take" /\ free # <<>>
    /\ LET top == free[Len(free)] IN
         /\ free' = SubSeq(free, 1, Len(free) - 1)
         /\ slot' = [slot EXCEPT ![c] = top]
         /\ item' = [item EXCEPT ![top] = job[c]]
    /\ Goto(c, "link")
    /\ UNCHANGED <<syncVars, queue, guiVars, job, fresh, ghosts>>

LinkedFirst(s) == <<s>> \o queue
Linked(s) == Append(queue, s)

QueueLink(c) ==
    /\ pc[c] = "link"
    /\ queue' = Linked(slot[c])
    /\ Release(c)
    /\ Goto(c, "signal")
    /\ UNCHANGED <<handles, sem, free, item, guiVars, slot, job, fresh, ghosts>>

QueueSignal(c) ==
    /\ pc[c] = "signal"
    /\ sem' = SemReleased
    /\ Goto(c, "idle")                                      \* return 0
    /\ UNCHANGED <<handles, mutex, listVars, guiVars, slot, job, fresh, ghosts>>
-----------------------------------------------------------------------------
(* worker_thread_proc *)

WorkerLoop(w) ==
    /\ pc[w] = "loop"
    /\ Goto(w, IF isShutdown THEN "exited" ELSE "wait")
    /\ UNCHANGED <<syncVars, listVars, guiVars, slot, job, fresh, ghosts>>

(* WaitForMultipleObjects reports the lowest signalled index: the          *)
(* semaphore, even when the shutdown event is set as well.                 *)
WorkerWait(w) ==
    /\ pc[w] = "wait"
    /\ \/ /\ handles = "open" /\ WorkAvailable
          /\ sem' = sem - 1
          /\ Goto(w, "lock")
       \/ /\ handles = "open" /\ ~WorkAvailable /\ shutdownEvent
          /\ Goto(w, "exited")
          /\ UNCHANGED sem
       \/ /\ handles = "closed"                             \* WAIT_FAILED
          /\ Goto(w, "loop")
          /\ UNCHANGED sem
    /\ UNCHANGED <<handles, mutex, listVars, guiVars, slot, job, fresh, ghosts>>

WorkerLock(w) ==
    /\ pc[w] = "lock"
    /\ Acquire(w)
    /\ Goto(w, "unlink")
    /\ UNCHANGED <<handles, sem, listVars, guiVars, slot, job, fresh, ghosts>>

WorkerUnlink(w) ==
    /\ pc[w] = "unlink"
    /\ IF queue # <<>>
         THEN /\ slot' = [slot EXCEPT ![w] = Head(queue)]
              /\ owed' = [owed EXCEPT ![w] = item[Head(queue)]]
              /\ queue' = Tail(queue)
              /\ Goto(w, "recycle")
              /\ UNCHANGED mutex
         ELSE /\ Release(w)
              /\ Goto(w, "loop")
              /\ UNCHANGED <<slot, owed, queue>>
    /\ UNCHANGED <<handles, sem, free, item, guiVars, job, fresh, runs>>

RecycledNever(s) == free
Recycled(s) == Append(free, s)

WorkerRecycle(w) ==
    /\ pc[w] = "recycle"
    /\ free' = Recycled(slot[w])
    /\ Release(w)
    /\ Goto(w, "run")
    /\ UNCHANGED <<handles, sem, queue, item, guiVars, slot, job, fresh, ghosts>>

(* The item's fields are read here, after the item was freed and the mutex *)
(* released.                                                               *)
WorkerRun(w) ==
    /\ pc[w] = "run"
    /\ LET x == item[slot[w]] IN
         /\ job' = [job EXCEPT ![w] = x]
         /\ runs' = [runs EXCEPT ![x] = @ + 1]
    /\ Goto(w, "busy")
    /\ UNCHANGED <<syncVars, listVars, guiVars, slot, fresh, owed>>

WorkerReturn(w) ==
    /\ pc[w] = "busy"
    /\ Goto(w, "loop")
    /\ owed' = [owed EXCEPT ![w] = NoJob]
    /\ UNCHANGED <<syncVars, listVars, guiVars, slot, job, fresh, runs>>
-----------------------------------------------------------------------------
(* thread_pool_shutdown, from stop_server or from a failed init *)

ShutdownFlag ==
    /\ gui \in {"up", "abort"}
    /\ isShutdown' = TRUE
    /\ gui' = "event"
    /\ UNCHANGED <<syncVars, listVars, shutdownEvent, created, joined,
                   pc, slot, job, fresh, ghosts>>

EventAfterShutdownNever == shutdownEvent
EventAfterShutdown == (handles = "open")

ShutdownEvent ==
    /\ gui = "event"
    /\ shutdownEvent' = EventAfterShutdown
    /\ gui' = "join"
    /\ UNCHANGED <<syncVars, listVars, isShutdown, created, joined,
                   pc, slot, job, fresh, ghosts>>

JoinReturnsAtOnce(w) == TRUE
JoinReturns(w) == pc[w] \in {"off", "exited"} \cup Late

ShutdownJoin ==
    /\ gui = "join" /\ joined < ThreadCount
    /\ JoinReturns(joined + 1)
    /\ joined' = joined + 1
    /\ UNCHANGED <<syncVars, listVars, isShutdown, shutdownEvent, created, gui,
                   pc, slot, job, fresh, ghosts>>

ShutdownClose ==
    /\ gui = "join" /\ joined = ThreadCount
    /\ handles' = IF handles = "open" THEN "closed" ELSE handles
    /\ gui' = "done"
    /\ UNCHANGED <<sem, mutex, listVars, isShutdown, shutdownEvent, created, joined,
                   pc, slot, job, fresh, ghosts>>
-----------------------------------------------------------------------------
Start == \E ok \in BOOLEAN : CreateSync(ok) \/ CreateWorker(ok)

Shutdown == ShutdownEvent \/ ShutdownJoin \/ ShutdownClose

CallerStep(c) == QueueLock(c) \/ QueueFull(c) \/ QueueTake(c) \/ QueueLink(c) \/ QueueSignal(c)

WorkerStep(w) == \/ WorkerLoop(w) \/ WorkerWait(w) \/ WorkerLock(w) \/ WorkerUnlink(w)
                 \/ WorkerRecycle(w) \/ WorkerRun(w) \/ WorkerReturn(w)

Terminated == /\ gui = "done"
              /\ \A w \in Workers : pc[w] \in {"off", "exited"}
              /\ \A c \in Callers : pc[c] = "idle"
              /\ UNCHANGED vars

Next == \/ Start \/ ShutdownFlag \/ Shutdown
        \/ \E c \in Callers : CallerStep(c) \/ \E x \in Jobs : QueueEnter(c, x)
        \/ \E w \in Workers : WorkerStep(w)
        \/ Terminated

Spec == Init /\ [][Next]_vars

(* Every thread that can run does; nobody has to submit a job or to press  *)
(* the stop button.  Fairness of WorkerReturn is an assumption about the   *)
(* handler: recv has no timeout, so it is the client's to keep.            *)
Fairness == /\ WF_vars(Start) /\ WF_vars(Shutdown)
            /\ \A c \in Callers : WF_vars(CallerStep(c))
            /\ \A w \in Workers : WF_vars(WorkerStep(w))

FairSpec == Spec /\ Fairness
-----------------------------------------------------------------------------
Holding == {t \in Threads : pc[t] \in {"link", "recycle"}}
Woken   == {w \in Workers : pc[w] \in {"lock", "unlink"}}
Linking == {c \in Callers : pc[c] = "signal"}
Inside  == {t \in Threads : pc[t] \in {"take", "link", "unlink", "recycle"}}

(* Work items are neither lost nor handed out twice: at every moment each  *)
(* of the MAX_PENDING_WORK items is at exactly one place, on the free      *)
(* stack, on the queue, or with the one thread that moves it between them. *)
SlotsConserved == handles # "closed" =>
    /\ IsInjective(queue) /\ IsInjective(free)
    /\ Range(queue) \cap Range(free) = {}
    /\ \A t \in Holding : slot[t] \notin Range(queue) \cup Range(free)
    /\ \A t, u \in Holding : slot[t] = slot[u] => t = u
    /\ Slots = Range(queue) \cup Range(free) \cup {slot[t] : t \in Holding}

(* No wakeup is lost and none is spurious, although the semaphore is       *)
(* released after the mutex: every queued item has its signal in the       *)
(* semaphore, with a worker that was woken for it, or still owed by the    *)
(* caller that linked it.                                                  *)
SignalAccounting == handles = "open" =>
    Len(queue) = sem + Cardinality(Woken) + Cardinality(Linking)

(* A woken worker always finds an item: the else branch of the worker,     *)
(* which releases the mutex and goes back to sleep, never runs.            *)
WokenFindsWork == handles = "open" => \A w \in Workers : pc[w] = "unlink" => queue # <<>>

(* The queue and the free stack are touched by one thread at a time, also  *)
(* after thread_pool_shutdown closed the mutex: a worker that a slow       *)
(* client kept in its handler beyond the 5 s wait comes back to the flag   *)
(* and ends, and does not go on without the mutex.                         *)
ExclusiveAccess == \A t, u \in Inside : t = u

(* The pool implements a FIFO of at most MAX_PENDING_WORK jobs.            *)
Waiting == [i \in 1 .. Len(queue) |-> item[queue[i]]]

WQ == INSTANCE WorkQueue WITH Capacity <- MaxPendingWork, waiting <- Waiting, held <- owed

ImplementsWorkQueue == WQ!Spec

(* The same for any number of callers and for workers that outlive the 5 s *)
(* wait, as long as the mutex exists.                                      *)
FifoWhileOpen == WQ!Init /\ [][handles # "closed" => WQ!Next]_<<Waiting, owed>>

(* A queued job is dequeued, unless the pool is shut down first.           *)
Queued(x) == \E i \in 1 .. Len(queue) : item[queue[i]] = x
QueuedIsDequeued == \A x \in Jobs : Queued(x) ~> (~Queued(x) \/ isShutdown)

(* thread_pool_shutdown returns: every worker notices the flag or the      *)
(* event, wherever the shutdown finds it.                                  *)
ShutdownReturns == (gui = "event") ~> (gui = "done")

(* The documentation says the mutex protects the work queue; then a queued *)
(* job is given to one worker only.                                        *)
EachJobRunOnce == \A x \in Jobs : runs[x] <= 1
=============================================================================
