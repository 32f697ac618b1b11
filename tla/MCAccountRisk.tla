---------------------------- MODULE MCAccountRisk ----------------------------
(***************************************************************************)
(* AccountRiskBridge with two accounts, of which one has an order.         *)
(***************************************************************************)
EXTENDS AccountRiskBridge, TLC

CONSTANTS Alice, Bob, First

TwoAccounts == {Alice, Bob}
OneAccount == {Alice}
OneOrder == {First}

AccountOfFirst == First :> Alice

AllCalls == Queries \cup Reserves \cup Releases

\* Bob, who has no orders, asks for his policy only.
BothCalls == {r \in AllCalls : r.op = "ListActiveReservations" => r.account = Alice}

\* The reason of a Release has no part in when it returns.
OneReason == {r \in AllCalls : r.op = "Release" => r.reason = "kSettled"}

\* The calls are alike.
Symmetry == Permutations(Calls)
=============================================================================
