------------------------------- MODULE Exchange -------------------------------
(***************************************************************************)
(* What the NT server promises about each client context: it serves one    *)
(* exchange, accept, then one receive, then sends, and it changes hands    *)
(* between the server and the kernel, so that only one of them may touch   *)
(* it.  IocpServer implements this specification.                          *)
(***************************************************************************)
CONSTANT Ctxs

VARIABLES phase,    \* what the context is doing
          turn      \* who may touch it

exchangeVars == <<phase, turn>>

(* What may be posted for a context, given what was done with it before.   *)
Follows == {<<"fresh", "accept">>, <<"accept", "recv">>, <<"recv", "send">>, <<"send", "send">>}

Init == /\ phase = [x \in Ctxs |-> "free"]
        /\ turn = [x \in Ctxs |-> "server"]

Create(x) == /\ phase[x] = "free"
             /\ phase' = [phase EXCEPT ![x] = "fresh"]
             /\ UNCHANGED turn

Post(x, op) == /\ turn[x] = "server"
               /\ <<phase[x], op>> \in Follows
               /\ phase' = [phase EXCEPT ![x] = op]
               /\ turn' = [turn EXCEPT ![x] = "kernel"]

Complete(x) == /\ turn[x] = "kernel"
               /\ turn' = [turn EXCEPT ![x] = "server"]
               /\ UNCHANGED phase

Destroy(x) == /\ turn[x] = "server"
              /\ phase[x] # "free"
              /\ phase' = [phase EXCEPT ![x] = "free"]
              /\ UNCHANGED turn

Next == \E x \in Ctxs : \/ Create(x) \/ Complete(x) \/ Destroy(x)
                        \/ \E op \in {"accept", "recv", "send"} : Post(x, op)

Spec == Init /\ [][Next]_exchangeVars
=============================================================================
