-------------------------- MODULE AccountRiskProofs --------------------------
(***************************************************************************)
(* Proofs about AccountRiskBridge, for every set of calls, accounts and    *)
(* orders, every number of threads and versions and every choice of what   *)
(* the calls ask for: its variables have their types, and what it says of  *)
(* a reservation is true of the service.                                   *)
(***************************************************************************)
EXTENDS AccountRiskBridge, TLAPS

-----------------------------------------------------------------------------
(* The invariant *)

Op(c) == operation[c].op
Asked(c) == [op |-> "Reserve", order |-> operation[c].order]

\* What belongs to a call at the place it has reached.
PlaceOK(c) ==
  /\ pc[c] = "new" => /\ operation[c] = NoOperation /\ rpc[c] = "unsent"
                      /\ data[c] = NoData /\ error_code[c] = "kSuccess"
  /\ pc[c] # "new" => operation[c] \in Operations
  /\ pc[c] \in {"new", "rpc"} => rpc_status[c] = "none"
  /\ pc[c] = "rpc" => rpc[c] # "unsent" /\ data[c] = NoData
  /\ pc[c] = "store" => rpc[c] = "served" /\ Found(reply[c]) /\ rpc_status[c] = "ok"
  /\ pc[c] = "cache" =>
       \/ rpc[c] = "unsent" /\ error_code[c] = "kSuccess"
       \/ rpc[c] # "unsent" /\ rpc_status[c] = "failed" /\ error_code[c] = "kTimeout"
  /\ pc[c] \in {"store", "cache"} => IsPolicy(c) /\ data[c] = NoData

PolicyReply(c) ==
  \/ ~ Found(reply[c])
  \/ \E policy \in Policy : /\ reply[c] = [policy |-> policy]
                            /\ policy.account = operation[c].account
                            /\ policy.version <= published[policy.account]

ReserveReply(c) ==
  \E decision \in {"APPROVED", "REJECTED", "UNSPECIFIED"} :
    /\ reply[c] = [decision |-> decision]
    /\ decision = "APPROVED" => reservations[operation[c].order] \notin {"none", "rejected"}

ReleaseReply(c) ==
  \E released \in BOOLEAN :
    /\ reply[c] = [released |-> released]
    /\ released => reservations[operation[c].order] =
                     IF operation[c].reason = "kSettled" THEN "settled" ELSE "released"

QueryReply(c) ==
  ~ Found(reply[c]) \/ \E status \in States \ {"none"} : reply[c] = [status |-> status]

ListReply(c) == \E orders \in SUBSET Orders : reply[c] = [orders |-> orders]

\* What the service has answered fits the question, and what it has answered of an
\* order is true of it from then on.
ReplyOK(c) ==
  rpc[c] = "served" => /\ IsPolicy(c) => PolicyReply(c)
                       /\ Op(c) = "Reserve" => ReserveReply(c)
                       /\ Op(c) = "Release" => ReleaseReply(c)
                       /\ Op(c) = "QueryReservation" => QueryReply(c)
                       /\ Op(c) = "ListActiveReservations" => ListReply(c)

\* What a call about an order has returned comes from the reply.
ResultOK(c) ==
  pc[c] = "done" =>
    /\ error_code[c] = "kSuccess" /\ Op(c) = "Reserve" =>
         rpc[c] = "served" /\ data[c] = ReserveData(c)
    /\ error_code[c] = "kSuccess" /\ Op(c) = "Release" =>
         rpc[c] = "served" /\ data[c] = ReleaseData(c)
    /\ error_code[c] = "kNotInitialized" /\ ~ IsPolicy(c) => rpc[c] = "unsent"

CallOK(c) == PlaceOK(c) /\ ReplyOK(c) /\ ResultOK(c)

\* The Reserve call that the service has granted the order's reservation.
Granted(c, o) == /\ operation[c] = [op |-> "Reserve", order |-> o]
                 /\ rpc[c] = "served" /\ reply[c] = [decision |-> "APPROVED"]

HeldOK == \A o \in Orders : reservations[o] = "reserved" => \E c \in Calls : Granted(c, o)

\* The service knows no policy it has not published.
PoliciesOK == \A a \in Accounts : policies[a] <= published[a]

IInv == TypeOK /\ (\A c \in Calls : CallOK(c)) /\ HeldOK /\ PoliciesOK

-----------------------------------------------------------------------------
(* Requests *)

\* What a request consists of.
LEMMA RequestParts ==
  ASSUME NEW request \in Operations
  PROVE  /\ request.op \in {"GetAccountRiskPolicy", "ListActiveReservations", "Reserve",
                            "QueryReservation", "Release"}
         /\ request.op \in {"GetAccountRiskPolicy", "ListActiveReservations"} =>
              request.account \in Accounts
         /\ request.op \in {"Reserve", "QueryReservation", "Release"} =>
              request.order \in Orders
         /\ request.op = "Reserve" => request = [op |-> "Reserve", order |-> request.order]
         /\ request.op = "Release" => request.reason \in {"kCanceled", "kSettled"}
<1>1. CASE request \in Queries
  BY <1>1 DEF Queries
<1>2. CASE request \in Reserves
  BY <1>2 DEF Reserves
<1>3. CASE request \in Releases
  BY <1>3 DEF Releases
<1>. QED
  BY <1>1, <1>2, <1>3, RiskAssumption

-----------------------------------------------------------------------------
(* Types *)

\* Every variable starts with its type.
LEMMA InitTypeOK == Init => TypeOK
<1> SUFFICES ASSUME Init PROVE TypeOK
  OBVIOUS
<1> USE RiskAssumption
<1>1. initialized \in BOOLEAN
  BY Zenon DEF Init
<1>2. policy_cache \in [DOMAIN policy_cache -> Policy] /\ DOMAIN policy_cache = {}
  BY DEF Init
<1>3. reply \in [Calls -> Replies] /\ data \in [Calls -> {NoData}]
  BY DEF Init, Replies
<1>. QED
  BY <1>1, <1>2, <1>3 DEF Init, TypeOK, RpcStatuses, ErrorCodes, States, Values

\* What the service may answer.
LEMMA AnswerTypes ==
  /\ [not_found |-> TRUE] \in Replies
  /\ \A policy \in Policy : [policy |-> policy] \in Replies
  /\ \A decision \in {"APPROVED", "REJECTED", "UNSPECIFIED"} : [decision |-> decision] \in Replies
  /\ \A released \in BOOLEAN : [released |-> released] \in Replies
  /\ \A status \in States \ {"none"} : [status |-> status] \in Replies
  /\ \A orders \in SUBSET Orders : [orders |-> orders] \in Replies
<1>1. \A policy \in Policy : [policy |-> policy] \in [policy : Policy]
  OBVIOUS
<1>2. \A released \in BOOLEAN : [released |-> released] \in [released : BOOLEAN]
  OBVIOUS
<1>3. \A status \in States \ {"none"} : [status |-> status] \in [status : States \ {"none"}]
  OBVIOUS
<1>4. \A orders \in SUBSET Orders : [orders |-> orders] \in [orders : SUBSET Orders]
  OBVIOUS
<1>5. \A decision \in {"APPROVED", "REJECTED", "UNSPECIFIED"} :
        [decision |-> decision] \in Decisions
  BY DEF Decisions
<1>. QED
  BY <1>1, <1>2, <1>3, <1>4, <1>5, Zenon DEF Replies

\* What the service answers to a call, and how the order's reservation changes.
LEMMA ServeFacts ==
  ASSUME TypeOK, PoliciesOK, NEW c \in Calls, PlaceOK(c), Serve(c)
  PROVE  /\ pc[c] # "new" /\ operation[c] \in Operations
         /\ \E answer \in Replies : reply' = [reply EXCEPT ![c] = answer]
         /\ ReplyOK(c)'
         /\ \/ UNCHANGED reservations
            \/ /\ operation[c].order \in Orders
               /\ \E state \in {"reserved", "rejected", "released", "settled"} :
                    /\ reservations' = [reservations EXCEPT ![operation[c].order] = state]
                    /\ \/ reservations[operation[c].order] = "none"
                       \/ reservations[operation[c].order] = "reserved" /\ state # "rejected"
                    /\ state = "reserved" => Granted(c, operation[c].order)'
<1> DEFINE order == operation[c].order
<1> USE DEF TypeOK
<1>1. pc[c] # "new" /\ operation[c] \in Operations
  BY DEF Serve, PlaceOK
<1>2. UNCHANGED <<operation, policies, published>> /\ rpc'[c] = "served"
  BY DEF Serve
<1>3. \A answer \in Replies : reply' = [reply EXCEPT ![c] = answer] => reply'[c] = answer
  OBVIOUS
<1> USE <1>1, <1>2 DEF ReplyOK, IsPolicy, Op
<1>4. CASE operation[c].op = "GetAccountRiskPolicy" /\ ServePolicy(c)
  <2> DEFINE account == operation[c].account
  <2>1. account \in Accounts
    BY <1>4, RequestParts
  <2>2. CASE policies[account] = 0
    <3>1. reply' = [reply EXCEPT ![c] = [not_found |-> TRUE]] /\ UNCHANGED reservations
      BY <1>4, <2>2 DEF ServePolicy, Look
    <3>2. PolicyReply(c)'
      BY <3>1, <1>3, AnswerTypes DEF PolicyReply, Found
    <3>. QED
      BY <1>4, <3>1, <3>2, AnswerTypes
  <2>3. CASE policies[account] # 0
    <3> DEFINE policy == [account |-> account, version |-> policies[account]]
    <3>1. reply' = [reply EXCEPT ![c] = [policy |-> policy]] /\ UNCHANGED reservations
      BY <1>4, <2>3 DEF ServePolicy, Look
    <3>2. policies[account] \in 1 .. MaxVersion
      BY <2>1, <2>3, RiskAssumption
    <3>3. policy \in Policy
      BY <2>1, <3>2 DEF Policy
    <3>4. PolicyReply(c)'
      <4>1. reply'[c] = [policy |-> policy]
        BY <3>1, <3>3, <1>3, AnswerTypes
      <4>2. policy.account = operation'[c].account /\ policy.version <= published'[account]
        BY <2>1 DEF PoliciesOK
      <4>. QED
        BY <3>3, <4>1, <4>2 DEF PolicyReply
    <3>. QED
      BY <1>4, <3>1, <3>3, <3>4, AnswerTypes
  <2>. QED
    BY <2>2, <2>3
<1>5. CASE operation[c].op = "Reserve" /\ ServeReserve(c)
  <2>1. order \in Orders /\ operation[c] = Asked(c)
    BY <1>5, RequestParts DEF Asked
  <2>2. CASE reservations[order] = "none" /\ Answer(c, order, "reserved", [decision |-> "APPROVED"])
    <3>1. /\ reply' = [reply EXCEPT ![c] = [decision |-> "APPROVED"]]
          /\ reservations' = [reservations EXCEPT ![order] = "reserved"]
      BY <2>2 DEF Answer
    <3>2. reply'[c] = [decision |-> "APPROVED"] /\ reservations'[order] = "reserved"
      BY <3>1, <2>1, <1>3, AnswerTypes
    <3>3. ReserveReply(c)' /\ Granted(c, order)'
      BY <3>2, <2>1 DEF ReserveReply, Granted, Asked
    <3>. QED
      BY <1>5, <2>1, <2>2, <3>1, <3>3, AnswerTypes
  <2>3. CASE reservations[order] = "none" /\ Answer(c, order, "rejected", [decision |-> "REJECTED"])
    <3>1. /\ reply' = [reply EXCEPT ![c] = [decision |-> "REJECTED"]]
          /\ reservations' = [reservations EXCEPT ![order] = "rejected"]
      BY <2>3 DEF Answer
    <3>2. reply'[c] = [decision |-> "REJECTED"]
      BY <3>1, <1>3, AnswerTypes
    <3>3. ReserveReply(c)'
      BY <3>2 DEF ReserveReply
    <3>. QED
      BY <1>5, <2>1, <2>3, <3>1, <3>3, AnswerTypes
  <2>4. CASE reservations[order] = "reserved" /\ Look(c, [decision |-> "APPROVED"])
    <3>1. reply' = [reply EXCEPT ![c] = [decision |-> "APPROVED"]] /\ UNCHANGED reservations
      BY <2>4 DEF Look
    <3>2. reply'[c] = [decision |-> "APPROVED"]
      BY <3>1, <1>3, AnswerTypes
    <3>3. ReserveReply(c)'
      BY <2>4, <3>1, <3>2 DEF ReserveReply
    <3>. QED
      BY <1>5, <3>1, <3>3, AnswerTypes
  <2>5. CASE reservations[order] # "reserved" /\ Look(c, [decision |-> "UNSPECIFIED"])
    <3>1. reply' = [reply EXCEPT ![c] = [decision |-> "UNSPECIFIED"]] /\ UNCHANGED reservations
      BY <2>5 DEF Look
    <3>2. reply'[c] = [decision |-> "UNSPECIFIED"]
      BY <3>1, <1>3, AnswerTypes
    <3>3. ReserveReply(c)'
      BY <3>2 DEF ReserveReply
    <3>. QED
      BY <1>5, <3>1, <3>3, AnswerTypes
  <2>. QED
    BY <1>5, <2>2, <2>3, <2>4, <2>5 DEF ServeReserve
<1>6. CASE operation[c].op = "Release" /\ ServeRelease(c)
  <2> DEFINE state == IF operation[c].reason = "kSettled" THEN "settled" ELSE "released"
  <2>1. order \in Orders /\ operation[c].reason \in {"kCanceled", "kSettled"}
    BY <1>6, RequestParts
  <2>2. state = IF ToProtoReleaseReason(operation[c].reason) = "SETTLED" THEN "settled"
                ELSE "released"
    BY <2>1 DEF ToProtoReleaseReason
  <2>3. CASE reservations[order] = "reserved" /\ Answer(c, order, state, [released |-> TRUE])
    <3>1. /\ reply' = [reply EXCEPT ![c] = [released |-> TRUE]]
          /\ reservations' = [reservations EXCEPT ![order] = state]
      BY <2>3 DEF Answer
    <3>2. reply'[c] = [released |-> TRUE] /\ reservations'[order] = state
      BY <3>1, <2>1, <1>3, AnswerTypes
    <3>3. ReleaseReply(c)'
      BY <3>2 DEF ReleaseReply
    <3>4. state \in {"released", "settled"}
      OBVIOUS
    <3>. QED
      BY <1>6, <2>1, <2>3, <3>1, <3>3, <3>4, AnswerTypes
  <2>4. CASE reservations[order] # "reserved" /\ Look(c, [released |-> FALSE])
    <3>1. reply' = [reply EXCEPT ![c] = [released |-> FALSE]] /\ UNCHANGED reservations
      BY <2>4 DEF Look
    <3>2. reply'[c] = [released |-> FALSE]
      BY <3>1, <1>3, AnswerTypes
    <3>3. ReleaseReply(c)'
      BY <3>2, Zenon DEF ReleaseReply
    <3>. QED
      BY <1>6, <3>1, <3>3, AnswerTypes
  <2>. QED
    BY <1>6, <2>2, <2>3, <2>4 DEF ServeRelease
<1>7. CASE operation[c].op = "QueryReservation" /\ ServeQuery(c)
  <2> DEFINE state == reservations[order]
             answer == IF state = "none" THEN [not_found |-> TRUE] ELSE [status |-> state]
  <2>1. state \in States
    BY <1>7, RequestParts
  <2>2. reply' = [reply EXCEPT ![c] = answer] /\ UNCHANGED reservations
    BY <1>7 DEF ServeQuery, Look
  <2>3. answer \in Replies
    BY <2>1, AnswerTypes
  <2>4. QueryReply(c)'
    BY <2>1, <2>2, <2>3, <1>3 DEF QueryReply, Found
  <2>. QED
    BY <1>7, <2>2, <2>3, <2>4
<1>8. CASE operation[c].op = "ListActiveReservations" /\ ServeList(c)
  <2> DEFINE orders == {o \in Orders : /\ OrderAccount[o] = operation[c].account
                                       /\ reservations[o] = "reserved"}
  <2>1. reply' = [reply EXCEPT ![c] = [orders |-> orders]] /\ UNCHANGED reservations
    BY <1>8 DEF ServeList, Look
  <2>2. orders \in SUBSET Orders
    OBVIOUS
  <2>3. ListReply(c)'
    BY <2>1, <2>2, <1>3, AnswerTypes DEF ListReply
  <2>. QED
    BY <1>8, <2>1, <2>2, <2>3, AnswerTypes
<1>. QED
  BY <1>4, <1>5, <1>6, <1>7, <1>8 DEF Serve

-----------------------------------------------------------------------------
(* The calls *)

\* The call keeps what it has.
Same(c) == /\ pc'[c] = pc[c] /\ operation'[c] = operation[c] /\ rpc'[c] = rpc[c]
           /\ rpc_status'[c] = rpc_status[c] /\ error_code'[c] = error_code[c]
           /\ data'[c] = data[c] /\ reply'[c] = reply[c]

\* What the service has said stays true.
ServiceKeepsWord ==
  /\ \A a \in Accounts : published[a] <= published'[a]
  /\ \A o \in Orders : reservations[o] \notin {"none", "rejected"} =>
                         reservations'[o] \notin {"none", "rejected"}
  /\ \A o \in Orders : reservations[o] \in {"released", "settled"} =>
                         reservations'[o] = reservations[o]

\* A call that does not move stays in order.
LEMMA StaysOK ==
  ASSUME TypeOK, TypeOK', ServiceKeepsWord, NEW c \in Calls, CallOK(c), Same(c)
  PROVE  CallOK(c)'
<1> USE DEF CallOK, Same, IsPolicy, Op
<1>1. PlaceOK(c)'
  BY DEF PlaceOK, Found
<1>2. ResultOK(c)'
  BY DEF ResultOK, ReserveData, ReleaseData
<1>3. ReplyOK(c)'
  <2> SUFFICES ASSUME rpc[c] = "served" PROVE ReplyOK(c)'
    BY DEF ReplyOK
  <2>1. operation[c] \in Operations
    BY DEF PlaceOK
  <2>2. IsPolicy(c) => PolicyReply(c)'
    <3>1. \A policy \in Policy : policy.account \in Accounts /\ policy.version \in Nat
      BY RiskAssumption DEF Policy
    <3>2. \A a \in Accounts, v \in Nat : v <= published[a] => v <= published'[a]
      BY DEF TypeOK, ServiceKeepsWord
    <3>. QED
      BY <3>1, <3>2 DEF ReplyOK, PolicyReply, Found
  <2>3. Op(c) = "Reserve" => ReserveReply(c)'
    BY <2>1, RequestParts DEF ReplyOK, ReserveReply, ServiceKeepsWord
  <2>4. Op(c) = "Release" => ReleaseReply(c)'
    <3>1. Op(c) = "Release" => operation[c].order \in Orders
      BY <2>1, RequestParts
    <3>. QED
      BY <3>1 DEF ReplyOK, ReleaseReply, ServiceKeepsWord
  <2>5. Op(c) = "QueryReservation" => QueryReply(c)'
    BY DEF ReplyOK, QueryReply, Found
  <2>6. Op(c) = "ListActiveReservations" => ListReply(c)'
    BY DEF ReplyOK, ListReply
  <2>. QED
    BY <2>2, <2>3, <2>4, <2>5, <2>6 DEF ReplyOK
<1>. QED
  BY <1>1, <1>2, <1>3

\* Nor does the service's grant go away.
LEMMA GrantStays ==
  ASSUME NEW c \in Calls, NEW o \in Orders, Granted(c, o),
         operation'[c] = operation[c], rpc'[c] = rpc[c], reply'[c] = reply[c]
  PROVE  Granted(c, o)'
  BY DEF Granted

\* The initial states.
LEMMA InitOK == Init => IInv
<1> SUFFICES ASSUME Init PROVE IInv
  OBVIOUS
<1>1. \A c \in Calls : CallOK(c)
  BY DEF Init, CallOK, PlaceOK, ReplyOK, ResultOK
<1>2. HeldOK /\ PoliciesOK
  BY DEF Init, HeldOK, PoliciesOK
<1>. QED
  BY <1>1, <1>2, InitTypeOK DEF IInv

\* A request is served.
LEMMA ServeOK == ASSUME IInv, NEW c \in Calls, Serve(c) PROVE IInv'
<1> DEFINE order == operation[c].order
<1> USE DEF IInv
<1>1. /\ UNCHANGED <<initialized, policy_cache, pc, operation, results, policies, published>>
      /\ rpc[c] = "sent" /\ rpc' = [rpc EXCEPT ![c] = "served"]
  BY DEF Serve
<1>2. /\ pc[c] # "new" /\ operation[c] \in Operations
      /\ \E answer \in Replies : reply' = [reply EXCEPT ![c] = answer]
      /\ ReplyOK(c)'
  BY ServeFacts DEF CallOK
<1>3. \/ UNCHANGED reservations
      \/ /\ order \in Orders
         /\ \E state \in {"reserved", "rejected", "released", "settled"} :
              /\ reservations' = [reservations EXCEPT ![order] = state]
              /\ \/ reservations[order] = "none"
                 \/ reservations[order] = "reserved" /\ state # "rejected"
              /\ state = "reserved" => Granted(c, order)'
  BY ServeFacts DEF CallOK
<1>4. reservations' \in [Orders -> States]
  BY <1>3 DEF TypeOK, States
<1>5. TypeOK'
  BY <1>1, <1>2, <1>4 DEF TypeOK, results
<1>6. ServiceKeepsWord
  <2>1. \A a \in Accounts : published[a] <= published'[a]
    BY <1>1, RiskAssumption DEF TypeOK
  <2>2. \A o \in Orders :
          /\ reservations[o] \notin {"none", "rejected"} =>
               reservations'[o] \notin {"none", "rejected"}
          /\ reservations[o] \in {"released", "settled"} =>
               reservations'[o] = reservations[o]
    BY <1>3 DEF TypeOK
  <2>. QED
    BY <2>1, <2>2 DEF ServiceKeepsWord
<1>7. \A d \in Calls \ {c} : Same(d)
  BY <1>1, <1>2 DEF TypeOK, Same, results
<1>8. \A d \in Calls \ {c} : CallOK(d)'
  BY <1>5, <1>6, <1>7, StaysOK
<1>9. CallOK(c)'
  <2>1. PlaceOK(c)'
    BY <1>1, <1>2 DEF CallOK, PlaceOK, results, IsPolicy, TypeOK
  <2>2. ResultOK(c)'
    BY <1>1 DEF CallOK, ResultOK, results, Op, IsPolicy
  <2>. QED
    BY <1>2, <2>1, <2>2 DEF CallOK
<1>10. HeldOK'
  <2> SUFFICES ASSUME NEW o \in Orders, reservations'[o] = "reserved"
               PROVE  \E d \in Calls : Granted(d, o)'
    BY DEF HeldOK
  <2>1. CASE reservations[o] = "reserved"
    <3>1. PICK d \in Calls : Granted(d, o)
      BY <2>1 DEF HeldOK
    <3>2. d # c
      BY <1>1, <3>1 DEF Granted
    <3>3. Granted(d, o)'
      BY <1>7, <3>1, <3>2, GrantStays DEF Same
    <3>. QED
      BY <3>3
  <2>2. CASE reservations[o] # "reserved"
    <3>1. PICK state \in {"reserved", "rejected", "released", "settled"} :
            /\ reservations' = [reservations EXCEPT ![order] = state]
            /\ state = "reserved" => Granted(c, order)'
      BY <1>3, <2>2, Zenon
    <3>2. DOMAIN reservations = Orders
      BY DEF TypeOK
    <3>3. o = order /\ state = "reserved"
      BY <2>2, <3>1, <3>2
    <3>4. Granted(c, o)'
      BY <1>1, <3>1, <3>3 DEF Granted
    <3>. QED
      BY <3>4
  <2>. QED
    BY <2>1, <2>2
<1>11. PoliciesOK'
  BY <1>1 DEF PoliciesOK
<1>. QED
  BY <1>5, <1>8, <1>9, <1>10, <1>11

\* The calls and the client take a step; what the service holds stays, and at most the
\* call c moves.
LEMMA MoveOK ==
  ASSUME IInv, TypeOK', UNCHANGED service, NEW c \in Calls, CallOK(c)',
         operation'[c] = operation[c] \/ rpc[c] = "unsent",
         rpc'[c] = rpc[c] \/ rpc[c] = "unsent", UNCHANGED reply,
         \A d \in Calls \ {c} : Same(d)
  PROVE  IInv'
<1> USE DEF IInv
<1>1. ServiceKeepsWord
  BY RiskAssumption DEF service, TypeOK, ServiceKeepsWord
<1>2. \A d \in Calls : CallOK(d)'
  BY <1>1, StaysOK
<1>3. HeldOK'
  <2> SUFFICES ASSUME NEW o \in Orders, reservations[o] = "reserved"
               PROVE  \E d \in Calls : Granted(d, o)'
    BY DEF HeldOK, service
  <2>1. PICK d \in Calls : Granted(d, o)
    BY DEF HeldOK
  <2>2. operation'[d] = operation[d] /\ rpc'[d] = rpc[d] /\ reply'[d] = reply[d]
    BY <2>1 DEF Granted, Same
  <2>3. Granted(d, o)'
    BY <2>1, <2>2, GrantStays
  <2>. QED
    BY <2>3
<1>4. PoliciesOK'
  BY DEF PoliciesOK, service
<1>. QED
  BY <1>2, <1>3, <1>4

\* The service changes by itself, the client is opened or closed: no call moves.
LEMMA NoCallMoves ==
  ASSUME IInv, TypeOK', ServiceKeepsWord, PoliciesOK',
         UNCHANGED <<pc, operation, results, rpc, reply>>,
         \A o \in Orders : reservations'[o] = "reserved" => reservations[o] = "reserved"
  PROVE  IInv'
<1> USE DEF IInv
<1>1. \A d \in Calls : Same(d)
  BY DEF Same, results
<1>2. \A d \in Calls : CallOK(d)'
  BY <1>1, StaysOK
<1>3. HeldOK'
  <2> SUFFICES ASSUME NEW o \in Orders, reservations'[o] = "reserved"
               PROVE  \E d \in Calls : Granted(d, o)'
    BY DEF HeldOK
  <2>1. PICK d \in Calls : Granted(d, o)
    BY DEF HeldOK
  <2>2. Granted(d, o)'
    BY <1>1, <2>1, GrantStays DEF Same
  <2>. QED
    BY <2>2
<1>. QED
  BY <1>2, <1>3

\* The service publishes, withdraws and expires; main opens and closes the client.
LEMMA AloneOK ==
  ASSUME IInv, \/ InitBridge \/ Shutdown
               \/ \E a \in Accounts : PublishPolicy(a) \/ WithdrawPolicy(a)
               \/ \E o \in Orders : Expire(o)
  PROVE  IInv'
<1> USE RiskAssumption DEF IInv
<1>1. CASE InitBridge \/ Shutdown
  <2>1. initialized' \in BOOLEAN
    BY <1>1, Zenon DEF InitBridge, Shutdown
  <2>2. UNCHANGED <<policy_cache, pc, operation, results, rpc, reply, service>>
    BY <1>1 DEF InitBridge, Shutdown
  <2>3. TypeOK'
    BY <2>1, <2>2 DEF TypeOK, results, service
  <2>4. ServiceKeepsWord /\ PoliciesOK'
    BY <2>2 DEF TypeOK, ServiceKeepsWord, PoliciesOK, service
  <2>5. \A o \in Orders : reservations'[o] = "reserved" => reservations[o] = "reserved"
    BY <2>2 DEF service
  <2>6. UNCHANGED <<pc, operation, results, rpc, reply>>
    BY <2>2
  <2>. QED
    BY <2>3, <2>4, <2>5, <2>6, NoCallMoves
<1>2. ASSUME NEW a \in Accounts, PublishPolicy(a) PROVE IInv'
  <2>1. published' \in [Accounts -> 0 .. MaxVersion] /\ policies' \in [Accounts -> 0 .. MaxVersion]
    BY <1>2 DEF PublishPolicy, TypeOK
  <2>2. TypeOK'
    BY <1>2, <2>1 DEF PublishPolicy, TypeOK, results
  <2>3. ServiceKeepsWord
    BY <1>2 DEF PublishPolicy, TypeOK, ServiceKeepsWord
  <2>4. PoliciesOK'
    BY <1>2 DEF PublishPolicy, TypeOK, PoliciesOK
  <2>. QED
    BY <1>2, <2>2, <2>3, <2>4, NoCallMoves DEF PublishPolicy
<1>3. ASSUME NEW a \in Accounts, WithdrawPolicy(a) PROVE IInv'
  <2>1. policies' \in [Accounts -> 0 .. MaxVersion]
    BY <1>3 DEF WithdrawPolicy, TypeOK
  <2>2. TypeOK'
    BY <1>3, <2>1 DEF WithdrawPolicy, TypeOK, results
  <2>3. ServiceKeepsWord
    BY <1>3 DEF WithdrawPolicy, TypeOK, ServiceKeepsWord
  <2>4. PoliciesOK'
    BY <1>3 DEF WithdrawPolicy, TypeOK, PoliciesOK
  <2>. QED
    BY <1>3, <2>2, <2>3, <2>4, NoCallMoves DEF WithdrawPolicy
<1>4. ASSUME NEW o \in Orders, Expire(o) PROVE IInv'
  <2>1. reservations' \in [Orders -> States]
    BY <1>4 DEF Expire, TypeOK, States
  <2>2. TypeOK'
    BY <1>4, <2>1 DEF Expire, TypeOK, results
  <2>3. ServiceKeepsWord
    BY <1>4 DEF Expire, TypeOK, ServiceKeepsWord
  <2>4. PoliciesOK'
    BY <1>4 DEF Expire, PoliciesOK
  <2>5. \A p \in Orders : reservations'[p] = "reserved" => reservations[p] = "reserved"
    BY <1>4 DEF Expire, TypeOK
  <2>. QED
    BY <1>4, <2>2, <2>3, <2>4, <2>5, NoCallMoves DEF Expire
<1>. QED
  BY <1>1, <1>2, <1>3, <1>4

-----------------------------------------------------------------------------
(* The steps of a call *)

\* The data of a successful call, by its kind.
LEMMA AnswersHaveForm ==
  ASSUME TypeOK, NEW c \in Calls, CallOK(c), rpc[c] = "served", Found(reply[c]),
         operation[c] \in Operations
  PROVE  /\ IsPolicy(c) => reply[c].policy \in Policy
         /\ Op(c) = "Reserve" => ReserveData(c) \in Values
         /\ Op(c) = "Release" => ReleaseData(c) \in Values
         /\ Op(c) = "QueryReservation" => QueryData(c) \in Values
         /\ Op(c) = "ListActiveReservations" => ListData(c) \in Values
<1> USE DEF CallOK, ReplyOK
<1>1. IsPolicy(c) => reply[c].policy \in Policy
  <2> SUFFICES ASSUME IsPolicy(c) PROVE reply[c].policy \in Policy
    OBVIOUS
  <2>1. PICK policy \in Policy : reply[c] = [policy |-> policy]
    BY Zenon DEF PolicyReply
  <2>. QED
    BY <2>1
<1>2. Op(c) = "Reserve" => ReserveData(c) \in Values
  <2>1. ToReservationState(reply[c].decision) \in ReservationStates
    BY DEF ToReservationState, ReservationStates
  <2>. QED
    BY <2>1 DEF ReserveData, Values
<1>3. Op(c) = "Release" => ReleaseData(c) \in Values
  <2>1. ReleaseState(reply[c].released, operation[c].reason) \in ReservationStates
    BY DEF ReleaseState, ReservationStates
  <2>. QED
    BY <2>1 DEF ReleaseData, Values
<1>4. Op(c) = "QueryReservation" => QueryData(c) \in Values
  <2>1. ToState(reply[c].status) \in ReservationStates
    BY DEF ToState, ReservationStates
  <2>. QED
    BY <2>1 DEF QueryData, Values
<1>5. Op(c) = "ListActiveReservations" => ListData(c) \in Values
  <2> SUFFICES ASSUME Op(c) = "ListActiveReservations" PROVE ListData(c) \in Values
    OBVIOUS
  <2>1. PICK orders \in SUBSET Orders : reply[c] = [orders |-> orders]
    BY Zenon DEF ListReply
  <2>2. ListData(c) \in [orders : SUBSET Orders]
    BY <2>1 DEF ListData
  <2>. QED
    BY <2>2, Zenon DEF Values
<1>. QED
  BY <1>1, <1>2, <1>3, <1>4, <1>5

\* What a call that returns leaves of the invariant.
LEMMA ReturnOK ==
  ASSUME IInv, NEW c \in Calls, NEW from, NEW code \in ErrorCodes, NEW value \in Values,
         pc[c] # "new", Return(c, from, code, value),
         NEW status \in RpcStatuses, rpc_status' = [rpc_status EXCEPT ![c] = status],
         UNCHANGED <<initialized, operation, rpc, reply, service>>,
         DOMAIN policy_cache' \subseteq Accounts,
         policy_cache' \in [DOMAIN policy_cache' -> Policy],
         code # "kNotInitialized" \/ IsPolicy(c),
         code = "kSuccess" =>
           /\ Op(c) = "Reserve" => rpc[c] = "served" /\ value = ReserveData(c)
           /\ Op(c) = "Release" => rpc[c] = "served" /\ value = ReleaseData(c)
  PROVE  IInv'
<1> USE DEF IInv
<1>1. /\ pc' = [pc EXCEPT ![c] = "done"] /\ error_code' = [error_code EXCEPT ![c] = code]
      /\ data' = [data EXCEPT ![c] = value]
  BY DEF Return, Goto
<1>2. data' \in [Calls -> Values]
  BY <1>1 DEF TypeOK, Values
<1>3. TypeOK'
  BY <1>1, <1>2 DEF TypeOK, Values, service
<1>4. pc'[c] = "done" /\ error_code'[c] = code /\ data'[c] = value
  BY <1>1, <1>3 DEF TypeOK, Values
<1>5. PlaceOK(c)'
  BY <1>4 DEF CallOK, PlaceOK
<1>6. ReplyOK(c)'
  BY DEF CallOK, ReplyOK, IsPolicy, Op, PolicyReply, ReserveReply, ReleaseReply, QueryReply,
         ListReply, Found, service
<1>7. ResultOK(c)'
  BY <1>4 DEF ResultOK, Op, IsPolicy, ReserveData, ReleaseData
<1>8. \A d \in Calls \ {c} : Same(d)
  BY <1>1, <1>2 DEF Same, TypeOK, Values
<1>9. CallOK(c)' /\ operation'[c] = operation[c] /\ rpc'[c] = rpc[c]
  BY <1>5, <1>6, <1>7 DEF CallOK
<1>10. UNCHANGED reply /\ UNCHANGED service
  OBVIOUS
<1> HIDE DEF IInv
<1>. QED
  BY <1>3, <1>8, <1>9, <1>10, MoveOK

\* A call goes on to another place, without a result.
LEMMA GoOnOK ==
  ASSUME IInv, NEW c \in Calls, NEW to \in {"store", "cache"}, Goto(c, "rpc", to), IsPolicy(c),
         to = "store" => rpc[c] = "served" /\ Found(reply[c]),
         rpc_status' = [rpc_status EXCEPT ![c] = IF to = "store" THEN "ok" ELSE "failed"],
         NEW code \in ErrorCodes, error_code' = [error_code EXCEPT ![c] = code],
         to = "cache" => code = "kTimeout",
         UNCHANGED <<initialized, policy_cache, operation, data, rpc, reply, service>>
  PROVE  IInv'
<1> USE DEF IInv
<1>1. pc' = [pc EXCEPT ![c] = to] /\ pc[c] = "rpc"
  BY DEF Goto
<1>2. TypeOK'
  BY <1>1 DEF TypeOK, RpcStatuses, service
<1>3. /\ pc'[c] = to /\ error_code'[c] = code
      /\ rpc_status'[c] = IF to = "store" THEN "ok" ELSE "failed"
  BY <1>1 DEF TypeOK
<1>4. PlaceOK(c)'
  BY <1>1, <1>3 DEF CallOK, PlaceOK, IsPolicy
<1>5. ReplyOK(c)'
  BY DEF CallOK, ReplyOK, IsPolicy, Op, PolicyReply, ReserveReply, ReleaseReply, QueryReply,
         ListReply, Found, service
<1>6. ResultOK(c)'
  BY <1>3 DEF ResultOK
<1>7. \A d \in Calls \ {c} : Same(d)
  BY <1>1 DEF Same, TypeOK
<1>8. CallOK(c)' /\ operation'[c] = operation[c] /\ rpc'[c] = rpc[c]
  BY <1>4, <1>5, <1>6 DEF CallOK
<1>9. UNCHANGED reply /\ UNCHANGED service
  OBVIOUS
<1> HIDE DEF IInv
<1>. QED
  BY <1>2, <1>7, <1>8, <1>9, MoveOK

\* Every step of a call.
LEMMA CallStepOK ==
  ASSUME IInv, NEW c \in Calls, Step(c) \/ \E request \in Operations : Call(c, request)
  PROVE  IInv'
<1>0. /\ NoData \in Values /\ {"kSuccess", "kNotFound", "kTimeout", "kNotInitialized"} = ErrorCodes
      /\ {"none", "failed", "not_found", "ok"} = RpcStatuses
  BY DEF Values, ErrorCodes, RpcStatuses
<1>1. TypeOK /\ CallOK(c)
  BY DEF IInv
<1>2. pc[c] \notin {"new"} => operation[c] \in Operations
  BY <1>1 DEF CallOK, PlaceOK
<1>3. DOMAIN policy_cache \subseteq Accounts /\ policy_cache \in [DOMAIN policy_cache -> Policy]
  BY <1>1 DEF TypeOK
<1>4. CASE RpcFails(c)
  <2>1. pc[c] = "rpc"
    BY <1>4 DEF RpcFails, RpcEnds
  <2>2. /\ UNCHANGED <<initialized, policy_cache, operation, rpc, reply, service>>
        /\ rpc_status' = [rpc_status EXCEPT ![c] = "failed"]
    BY <1>4 DEF RpcFails, RpcEnds
  <2>3. CASE IsPolicy(c)
    <3>1. /\ Goto(c, "rpc", "cache") /\ UNCHANGED data
          /\ error_code' = [error_code EXCEPT ![c] = "kTimeout"]
      BY <1>4, <2>3 DEF RpcFails, FallBack
    <3>. QED
      BY <1>0, <2>2, <2>3, <3>1, GoOnOK
  <2>4. CASE ~ IsPolicy(c)
    <3>1. Return(c, "rpc", "kTimeout", NoData)
      BY <1>4, <2>4 DEF RpcFails
    <3>. QED
      BY <1>0, <1>3, <2>1, <2>2, <3>1, ReturnOK
  <2>. QED
    BY <2>3, <2>4
<1>5. CASE RpcNotFound(c)
  <2>1. /\ pc[c] = "rpc" /\ Return(c, "rpc", "kNotFound", NoData)
        /\ rpc_status' = [rpc_status EXCEPT ![c] = "not_found"]
        /\ UNCHANGED <<initialized, policy_cache, operation, rpc, reply, service>>
    BY <1>5 DEF RpcNotFound, RpcEnds
  <2>. QED
    BY <1>0, <1>3, <2>1, ReturnOK
<1>6. CASE RpcAnswered(c)
  <2>1. /\ pc[c] = "rpc" /\ rpc[c] = "served" /\ Found(reply[c])
        /\ rpc_status' = [rpc_status EXCEPT ![c] = "ok"]
        /\ UNCHANGED <<initialized, policy_cache, operation, rpc, reply, service>>
    BY <1>6 DEF RpcAnswered, RpcEnds
  <2>2. operation[c] \in Operations
    BY <1>2, <2>1
  <2>3. CASE IsPolicy(c) /\ Goto(c, "rpc", "store") /\ UNCHANGED <<error_code, data>>
    <3>1. error_code' = [error_code EXCEPT ![c] = error_code[c]] /\ error_code[c] \in ErrorCodes
      BY <1>1, <2>3 DEF TypeOK
    <3>2. UNCHANGED data
      BY <2>3
    <3>. QED
      BY <2>1, <2>3, <3>1, <3>2, GoOnOK
  <2>4. CASE Succeed(c, "Reserve", ReserveData(c))
    <3>1. Op(c) = "Reserve" /\ Return(c, "rpc", "kSuccess", ReserveData(c))
      BY <2>4 DEF Succeed, Op
    <3>2. ReserveData(c) \in Values
      BY <1>1, <2>1, <2>2, <3>1, AnswersHaveForm
    <3>. QED
      BY <1>0, <1>3, <2>1, <3>1, <3>2, ReturnOK
  <2>5. CASE Succeed(c, "Release", ReleaseData(c))
    <3>1. Op(c) = "Release" /\ Return(c, "rpc", "kSuccess", ReleaseData(c))
      BY <2>5 DEF Succeed, Op
    <3>2. ReleaseData(c) \in Values
      BY <1>1, <2>1, <2>2, <3>1, AnswersHaveForm
    <3>. QED
      BY <1>0, <1>3, <2>1, <3>1, <3>2, ReturnOK
  <2>6. CASE Succeed(c, "QueryReservation", QueryData(c))
    <3>1. Op(c) = "QueryReservation" /\ Return(c, "rpc", "kSuccess", QueryData(c))
      BY <2>6 DEF Succeed, Op
    <3>2. QueryData(c) \in Values
      BY <1>1, <2>1, <2>2, <3>1, AnswersHaveForm
    <3>. QED
      BY <1>0, <1>3, <2>1, <3>1, <3>2, ReturnOK
  <2>7. CASE Succeed(c, "ListActiveReservations", ListData(c))
    <3>1. Op(c) = "ListActiveReservations" /\ Return(c, "rpc", "kSuccess", ListData(c))
      BY <2>7 DEF Succeed, Op
    <3>2. ListData(c) \in Values
      BY <1>1, <2>1, <2>2, <3>1, AnswersHaveForm
    <3>. QED
      BY <1>0, <1>3, <2>1, <3>1, <3>2, ReturnOK
  <2>. QED
    BY <1>6, <2>3, <2>4, <2>5, <2>6, <2>7 DEF RpcAnswered
<1>7. CASE StorePolicy(c)
  <2> DEFINE key == operation[c].account
  <2>1. /\ Return(c, "store", "kSuccess", reply[c].policy)
        /\ policy_cache' = [k \in DOMAIN policy_cache \cup {key} |->
                              IF k = key THEN reply[c].policy ELSE policy_cache[k]]
        /\ UNCHANGED <<initialized, operation, rpc, rpc_status, reply, service>>
    BY <1>7 DEF StorePolicy, CacheKey
  <2>0. rpc_status' = [rpc_status EXCEPT ![c] = rpc_status[c]] /\ rpc_status[c] \in RpcStatuses
    BY <1>1, <2>1 DEF TypeOK
  <2>2. pc[c] = "store"
    BY <2>1 DEF Return, Goto
  <2>3. operation[c] \in Operations /\ IsPolicy(c) /\ rpc[c] = "served" /\ Found(reply[c])
    BY <1>1, <1>2, <2>2 DEF CallOK, PlaceOK
  <2>4. key \in Accounts /\ Op(c) = "GetAccountRiskPolicy"
    BY <2>3, RequestParts DEF IsPolicy, Op
  <2>5. reply[c].policy \in Policy
    BY <1>1, <2>3, AnswersHaveForm
  <2>6. DOMAIN policy_cache' \subseteq Accounts /\ policy_cache' \in [DOMAIN policy_cache' -> Policy]
    BY <1>3, <2>1, <2>4, <2>5
  <2>7. reply[c].policy \in Values
    BY <2>5 DEF Values
  <2>. QED
    BY <1>0, <2>0, <2>1, <2>2, <2>3, <2>4, <2>6, <2>7, ReturnOK
<1>8. CASE ReadCache(c)
  <2> DEFINE key == operation[c].account
  <2>1. pc[c] = "cache" /\ UNCHANGED <<initialized, policy_cache, operation, rpc, reply, service>>
    BY <1>8 DEF ReadCache
  <2>0. rpc_status' = [rpc_status EXCEPT ![c] = rpc_status[c]] /\ rpc_status[c] \in RpcStatuses
    BY <1>1, <1>8 DEF ReadCache, TypeOK
  <2>2. IsPolicy(c) /\ Op(c) = "GetAccountRiskPolicy"
    BY <1>1, <2>1 DEF CallOK, PlaceOK, IsPolicy, Op
  <2>3. CASE key \in DOMAIN policy_cache /\ Return(c, "cache", "kSuccess", policy_cache[key])
    <3>1. policy_cache[key] \in Values
      BY <1>3, <2>3 DEF Values
    <3>. QED
      BY <1>0, <1>3, <2>0, <2>1, <2>2, <2>3, <3>1, ReturnOK
  <2>4. CASE Return(c, "cache", IF error_code[c] = "kSuccess" THEN "kNotInitialized"
                                ELSE error_code[c], NoData)
    <3> DEFINE code == IF error_code[c] = "kSuccess" THEN "kNotInitialized" ELSE error_code[c]
    <3>1. code \in ErrorCodes
      BY <1>0, <1>1 DEF TypeOK
    <3> HIDE DEF code
    <3>. QED
      BY <1>0, <1>3, <2>0, <2>1, <2>2, <2>4, <3>1, ReturnOK DEF code
  <2>. QED
    BY <1>8, <2>3, <2>4 DEF ReadCache, CacheKey
<1>9. ASSUME NEW request \in Operations, Call(c, request) PROVE IInv'
  <2>1. /\ operation' = [operation EXCEPT ![c] = request]
        /\ UNCHANGED <<initialized, policy_cache, reply, service>>
    BY <1>9 DEF Call
  <2>2. rpc[c] = "unsent" \/ pc[c] # "new"
    BY <1>1 DEF CallOK, PlaceOK
  <2>3. operation' \in [Calls -> Operations \cup {NoOperation}] /\ operation'[c] = request
    BY <1>1, <2>1 DEF TypeOK
  <2>4. CASE Goto(c, "new", "rpc") /\ rpc' = [rpc EXCEPT ![c] = "sent"] /\ UNCHANGED results
    <3>1. TypeOK'
      BY <1>1, <2>1, <2>3, <2>4 DEF TypeOK, Goto, results, service
    <3>2. pc[c] = "new" /\ pc'[c] = "rpc" /\ rpc'[c] = "sent" /\ data'[c] = data[c]
          /\ error_code'[c] = error_code[c] /\ rpc_status'[c] = rpc_status[c]
      BY <1>1, <2>4 DEF TypeOK, Goto, results
    <3>3. CallOK(c)'
      BY <1>1, <2>3, <3>2 DEF CallOK, PlaceOK, ReplyOK, ResultOK
    <3>4. \A d \in Calls \ {c} : Same(d)
      BY <1>1, <2>1, <2>4 DEF TypeOK, Goto, results, Same
    <3>. QED
      BY <2>1, <2>2, <3>1, <3>2, <3>3, <3>4, MoveOK
  <2>5. CASE /\ request.op = "GetAccountRiskPolicy" /\ Goto(c, "new", "cache")
             /\ UNCHANGED <<rpc, results>>
    <3>1. TypeOK'
      BY <1>1, <2>1, <2>3, <2>5 DEF TypeOK, Goto, results, service
    <3>2. pc[c] = "new" /\ pc'[c] = "cache" /\ rpc'[c] = rpc[c] /\ data'[c] = data[c]
          /\ error_code'[c] = error_code[c] /\ rpc_status'[c] = rpc_status[c]
      BY <1>1, <2>5 DEF TypeOK, Goto, results
    <3>3. CallOK(c)'
      BY <1>1, <2>2, <2>3, <2>5, <3>2 DEF CallOK, PlaceOK, ReplyOK, ResultOK, IsPolicy
    <3>4. \A d \in Calls \ {c} : Same(d)
      BY <1>1, <2>1, <2>5 DEF TypeOK, Goto, results, Same
    <3>. QED
      BY <2>1, <2>2, <3>1, <3>2, <3>3, <3>4, MoveOK
  <2>6. CASE Return(c, "new", "kNotInitialized", NoData) /\ UNCHANGED <<rpc, rpc_status>>
    <3>1. /\ pc' = [pc EXCEPT ![c] = "done"] /\ data' = [data EXCEPT ![c] = NoData]
          /\ error_code' = [error_code EXCEPT ![c] = "kNotInitialized"] /\ pc[c] = "new"
      BY <2>6 DEF Return, Goto
    <3>2. TypeOK'
      BY <1>0, <1>1, <2>1, <2>3, <2>6, <3>1 DEF TypeOK, service
    <3>3. /\ pc'[c] = "done" /\ rpc'[c] = rpc[c] /\ rpc[c] = "unsent"
          /\ error_code'[c] = "kNotInitialized"
      BY <1>1, <2>2, <2>6, <3>1 DEF TypeOK
    <3>4. CallOK(c)'
      BY <2>3, <3>3 DEF CallOK, PlaceOK, ReplyOK, ResultOK
    <3>5. \A d \in Calls \ {c} : Same(d)
      BY <1>1, <2>1, <2>6, <3>1 DEF TypeOK, Same
    <3>. QED
      BY <2>1, <3>2, <3>3, <3>4, <3>5, MoveOK
  <2>. QED
    BY <1>9, <2>4, <2>5, <2>6 DEF Call
<1>. QED
  BY <1>4, <1>5, <1>6, <1>7, <1>8, <1>9 DEF Step

\* Every step keeps the invariant.
LEMMA StepOK == IInv /\ [Next]_vars => IInv'
<1> SUFFICES ASSUME IInv, [Next]_vars PROVE IInv'
  OBVIOUS
<1>1. CASE UNCHANGED vars
  <2>1. UNCHANGED <<pc, operation, results, rpc, reply>> /\ UNCHANGED service
    BY <1>1 DEF vars
  <2>2. TypeOK'
    BY <1>1 DEF IInv, TypeOK, vars, results, service
  <2>3. ServiceKeepsWord /\ PoliciesOK'
    BY <2>1, RiskAssumption DEF IInv, TypeOK, ServiceKeepsWord, PoliciesOK, service
  <2>4. \A o \in Orders : reservations'[o] = "reserved" => reservations[o] = "reserved"
    BY <2>1 DEF service
  <2>. QED
    BY <2>1, <2>2, <2>3, <2>4, NoCallMoves
<1>. QED
  BY <1>1, AloneOK, ServeOK, CallStepOK DEF Next, Service

\* IInv is an invariant.
LEMMA Invariant == Spec => []IInv
<1>. QED
  BY InitOK, StepOK, PTL DEF Spec

\* TypeOK holds whatever the calls ask for and however the service answers.
THEOREM RiskTypeCorrect == Spec => []TypeOK
<1>1. IInv => TypeOK
  BY DEF IInv
<1>. QED
  BY <1>1, Invariant, PTL

\* An order the engine believes to be reserved has been reserved by the service.
THEOREM ReservedIsTrue == Spec => []ReservedWasReserved
<1>1. IInv => ReservedWasReserved
  <2> SUFFICES ASSUME IInv, NEW c \in Succeeded("Reserve"), data[c].state = "kReserved"
               PROVE  reservations[operation[c].order] \notin {"none", "rejected"}
    BY DEF ReservedWasReserved
  <2>1. c \in Calls /\ rpc[c] = "served" /\ data[c] = ReserveData(c) /\ Op(c) = "Reserve"
    BY DEF Succeeded, IInv, CallOK, ResultOK, Op
  <2>2. ReserveReply(c)
    BY <2>1 DEF IInv, CallOK, ReplyOK
  <2>3. ToReservationState(reply[c].decision) = "kReserved"
    BY <2>1 DEF ReserveData
  <2>4. reply[c].decision = "APPROVED"
    BY <2>2, <2>3 DEF ReserveReply, ToReservationState
  <2>. QED
    BY <2>2, <2>4 DEF ReserveReply
<1>. QED
  BY <1>1, Invariant, PTL

\* An order reported as released or settled has become, and stays, just that.
THEOREM ReleasedIsTrue == Spec => []ReleasedStaysReleased
<1>1. IInv => ReleasedStaysReleased
  <2> SUFFICES ASSUME IInv, NEW c \in Succeeded("Release")
               PROVE  /\ data[c].state = "kReleased" =>
                           reservations[operation[c].order] = "released"
                      /\ data[c].state = "kSettled"  =>
                           reservations[operation[c].order] = "settled"
    BY DEF ReleasedStaysReleased
  <2>1. c \in Calls /\ rpc[c] = "served" /\ data[c] = ReleaseData(c) /\ Op(c) = "Release"
    BY DEF Succeeded, IInv, CallOK, ResultOK, Op
  <2>2. PICK released \in BOOLEAN :
          /\ reply[c] = [released |-> released]
          /\ released => reservations[operation[c].order] =
                           IF operation[c].reason = "kSettled" THEN "settled" ELSE "released"
    BY <2>1, Zenon DEF IInv, CallOK, ReplyOK, ReleaseReply
  <2>3. data[c].state = ReleaseState(released, operation[c].reason)
    BY <2>1, <2>2 DEF ReleaseData
  <2>. QED
    BY <2>2, <2>3 DEF ReleaseState
<1>. QED
  BY <1>1, Invariant, PTL

\* The service holds no reservation that no call of the engine can account for.
THEOREM NoneIsSilent == Spec => []NoSilentReservation
<1>1. IInv => NoSilentReservation
  <2> SUFFICES ASSUME IInv, NEW o \in Orders, reservations[o] = "reserved"
               PROVE  \E c \in Calls : /\ operation[c] = [op |-> "Reserve", order |-> o]
                                       /\ ~ SurelyNot(c)
    BY DEF NoSilentReservation
  <2>1. PICK c \in Calls : Granted(c, o)
    BY DEF IInv, HeldOK
  <2>2. Op(c) = "Reserve" /\ rpc[c] = "served" /\ reply[c] = [decision |-> "APPROVED"]
    BY <2>1 DEF Granted, Op
  <2>3. ASSUME pc[c] = "done" PROVE error_code[c] # "kNotInitialized"
    BY <2>2, <2>3 DEF IInv, CallOK, ResultOK, Op, IsPolicy
  <2>4. ASSUME pc[c] = "done", error_code[c] = "kSuccess" PROVE data[c].state = "kReserved"
    <3>1. data[c] = ReserveData(c)
      BY <2>2, <2>4 DEF IInv, CallOK, ResultOK
    <3>. QED
      BY <2>2, <3>1 DEF ReserveData, ToReservationState
  <2>5. ~ SurelyNot(c)
    BY <2>3, <2>4 DEF SurelyNot
  <2>. QED
    BY <2>1, <2>5 DEF Granted
<1>. QED
  BY <1>1, Invariant, PTL
=============================================================================
