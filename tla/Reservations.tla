----------------------------- MODULE Reservations -----------------------------
(***************************************************************************)
(* What the risk bridge promises the engine about the reservations of its  *)
(* orders, over a network that loses and delays.  A request is decided at  *)
(* one instant, once at most, and only after it was made; the decision may *)
(* come after the caller has given up.  A caller is told what was decided  *)
(* of its own request, or that it is not known ("kTimeout"), or that the   *)
(* bridge is closed, and then the request is never decided.                *)
(***************************************************************************)
CONSTANTS
  Callers, Orders,
  OrderAccount,  \* the account an order is for
  Requests,      \* what a caller may ask for, once
  NoRequest, NoOutcome, NoData

VARIABLES
  open,     \* whether the bridge has a connection
  ledger,   \* the state of every order's reservation
  request,  \* what each caller asks for
  outcome,  \* what was decided of it: a code and the data
  told,     \* "idle", "asked", or the code the caller was told
  answer    \* the data the caller was told

vars == <<open, ledger, request, outcome, told, answer>>

Init ==
  /\ open = FALSE
  /\ ledger = [o \in Orders |-> "none"]
  /\ request = [c \in Callers |-> NoRequest]
  /\ outcome = [c \in Callers |-> NoOutcome]
  /\ told = [c \in Callers |-> "idle"]
  /\ answer = [c \in Callers |-> NoData]

\* The connection changes between the calls only.
OpenOrClose == /\ \A c \in Callers : told[c] # "asked"
               /\ open' = ~ open
               /\ UNCHANGED <<ledger, request, outcome, told, answer>>

Ask(c, r) == /\ told[c] = "idle"
             /\ request' = [request EXCEPT ![c] = r]
             /\ told' = [told EXCEPT ![c] = IF open THEN "asked" ELSE "kNotInitialized"]
             /\ UNCHANGED <<open, ledger, outcome, answer>>

-----------------------------------------------------------------------------
(* Decisions *)

\* The request of c is decided, at the earliest when it was made and but once.
Decide(c, op, code, data) ==
  /\ told[c] \notin {"idle", "kNotInitialized"}
  /\ outcome[c] = NoOutcome
  /\ request[c].op = op
  /\ outcome' = [outcome EXCEPT ![c] = [code |-> code, data |-> data]]
  /\ UNCHANGED <<open, request, told, answer>>

\* Only a reserved order's state is still to change, and no order is reserved twice.
Reserve(c, state) ==
  LET order == request[c].order
  IN /\ Decide(c, "Reserve", "kSuccess", [state |-> state])
     /\ \/ /\ state \in {"kReserved", "kRejected"}
           /\ ledger[order] = "none"
           /\ ledger' = [ledger EXCEPT ![order] = state]
        \/ state = "kReserved" /\ ledger[order] = "kReserved" /\ UNCHANGED ledger
        \/ state = "kUnspecified" /\ ledger[order] # "kReserved" /\ UNCHANGED ledger

\* A reservation that is not there to be released is left as it is.
Release(c, state) ==
  LET order == request[c].order
  IN /\ Decide(c, "Release", "kSuccess", [state |-> state])
     /\ \/ /\ ledger[order] = "kReserved"
           /\ state = IF request[c].reason = "kSettled" THEN "kSettled" ELSE "kReleased"
           /\ ledger' = [ledger EXCEPT ![order] = state]
        \/ state = "kUnspecified" /\ ledger[order] # "kReserved" /\ UNCHANGED ledger

Query(c) ==
  LET state == ledger[request[c].order]
  IN /\ \/ Decide(c, "QueryReservation", "kNotFound", NoData) /\ state = "none"
        \/ Decide(c, "QueryReservation", "kSuccess", [state |-> state]) /\ state # "none"
     /\ UNCHANGED ledger

List(c) ==
  /\ Decide(c, "ListActiveReservations", "kSuccess",
            [orders |-> {o \in Orders : /\ OrderAccount[o] = request[c].account
                                        /\ ledger[o] = "kReserved"}])
  /\ UNCHANGED ledger

Lapse(o) == /\ ledger[o] = "kReserved"
            /\ ledger' = [ledger EXCEPT ![o] = "kExpired"]
            /\ UNCHANGED <<open, request, outcome, told, answer>>

-----------------------------------------------------------------------------
(* Answers *)

Tell(c) == /\ told[c] = "asked"
           /\ outcome[c] # NoOutcome
           /\ told' = [told EXCEPT ![c] = outcome[c].code]
           /\ answer' = [answer EXCEPT ![c] = outcome[c].data]
           /\ UNCHANGED <<open, ledger, request, outcome>>

GiveUp(c) == /\ told[c] = "asked"
             /\ told' = [told EXCEPT ![c] = "kTimeout"]
             /\ UNCHANGED <<open, ledger, request, outcome, answer>>

Next == \/ OpenOrClose
        \/ \E o \in Orders : Lapse(o)
        \/ \E c \in Callers :
             \/ \E r \in Requests : Ask(c, r)
             \/ \E state \in {"kReserved", "kRejected", "kUnspecified"} : Reserve(c, state)
             \/ \E state \in {"kReleased", "kSettled", "kUnspecified"} : Release(c, state)
             \/ Query(c) \/ List(c)
             \/ Tell(c) \/ GiveUp(c)

Spec == Init /\ [][Next]_vars
=============================================================================
