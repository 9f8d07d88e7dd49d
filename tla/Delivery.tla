------------------------------- MODULE Delivery -------------------------------
(***************************************************************************)
(* What either server promises a client about a response body: its parts   *)
(* arrive in order, and when the connection is closed the client has all   *)
(* of them, unless sending or reading failed.  ResponseStream implements   *)
(* this specification.                                                     *)
(***************************************************************************)
EXTENDS Naturals

VARIABLES total,     \* the parts of the body
          received,  \* how many of them the client has
          outcome    \* "asked", "open", "complete" or "broken"

deliveryVars == <<total, received, outcome>>

Init == total = 0 /\ received = 0 /\ outcome = "asked"

Answer == /\ outcome = "asked"
          /\ total' \in Nat
          /\ outcome' = "open"
          /\ UNCHANGED received

Receive == /\ outcome = "open"
           /\ received' \in received + 1 .. total
           /\ UNCHANGED <<total, outcome>>

Finish == /\ outcome = "open" /\ received = total
          /\ outcome' = "complete"
          /\ UNCHANGED <<total, received>>

Break == /\ outcome = "open"
         /\ outcome' = "broken"
         /\ UNCHANGED <<total, received>>

Transfer == Receive \/ Finish \/ Break

Next == Answer \/ Transfer

Spec == Init /\ [][Next]_deliveryVars /\ WF_deliveryVars(Transfer)
=============================================================================
