------------------------------ MODULE WorkQueue ------------------------------
(***************************************************************************)
(* What the Windows 9x thread pool promises its callers, without slots,    *)
(* mutex or semaphore: a FIFO of at most Capacity jobs, from which each    *)
(* worker takes the oldest job, holds it while it serves it, and puts it   *)
(* down.  ThreadPool implements this specification.                        *)
(***************************************************************************)
EXTENDS Naturals, Sequences

CONSTANTS Capacity,   \* the most jobs that can wait at once
          Workers,    \* the worker threads
          Jobs,       \* the jobs that callers may submit
          NoJob       \* what an idle worker holds

VARIABLES waiting,    \* the jobs in the queue, oldest first
          held        \* held[w]: the job worker w took and has not put down

abstractVars == <<waiting, held>>

Init == /\ waiting = <<>>
        /\ held = [w \in Workers |-> NoJob]

Submit(x) == /\ Len(waiting) < Capacity
             /\ waiting' = Append(waiting, x)
             /\ UNCHANGED held

Take(w) == /\ waiting # <<>>
           /\ held[w] = NoJob
           /\ held' = [held EXCEPT ![w] = Head(waiting)]
           /\ waiting' = Tail(waiting)

PutDown(w) == /\ held[w] # NoJob
              /\ held' = [held EXCEPT ![w] = NoJob]
              /\ UNCHANGED waiting

Next == \/ \E x \in Jobs : Submit(x)
        \/ \E w \in Workers : Take(w) \/ PutDown(w)

Spec == Init /\ [][Next]_abstractVars
=============================================================================
