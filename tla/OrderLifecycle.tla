--------------------------- MODULE OrderLifecycle ---------------------------
(***************************************************************************)
(* What an in-memory exchange promises about each order, with no threads,  *)
(* locks or callbacks: an order is accepted once, while the call that sent *)
(* it is open it may be filled, and an order that is filled, or canceled   *)
(* with its call closed, never changes again.                              *)
(***************************************************************************)
CONSTANT Ids   \* broker order ids

VARIABLES
  status,   \* of each order
  open      \* the orders whose SendOrder call has not returned

Init == status = [id \in Ids |-> "absent"] /\ open = {}

Accept(id) == /\ status[id] = "absent"
              /\ status' = [status EXCEPT ![id] = "working"]
              /\ open' = open \cup {id}

\* A fill wins over a cancel that comes while the call is open, whichever was decided
\* first: the open call does not look at the status.
Fill(id) == /\ id \in open
            /\ status[id] \in {"working", "canceled"}
            /\ status' = [status EXCEPT ![id] = "filled"]
            /\ open' = open \ {id}

Close(id) == id \in open /\ open' = open \ {id} /\ UNCHANGED status

Cancel(id) == /\ status[id] = "working"
              /\ status' = [status EXCEPT ![id] = "canceled"]
              /\ UNCHANGED open

Next == \E id \in Ids : Accept(id) \/ Fill(id) \/ Close(id) \/ Cancel(id)

Spec == Init /\ [][Next]_<<status, open>>

FairSpec == Spec /\ \A id \in Ids : WF_<<status, open>>(Fill(id) \/ Close(id))
=============================================================================
