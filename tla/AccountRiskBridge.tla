-------------------------- MODULE AccountRiskBridge --------------------------
(***************************************************************************)
(* GrpcAccountRiskBridge (src/bridge) and its AccountRiskClient            *)
(* (src/client): how the engine reads an account's risk policy and         *)
(* reserves, releases and queries the risk budget of its orders.           *)
(*                                                                         *)
(* A call sends one RPC with a deadline of a few milliseconds.  The        *)
(* request may reach account-risk-service in time, late (after the caller  *)
(* has given up) or never, and the reply may be lost.  A policy the        *)
(* service gave is kept in policy_cache_ and answers later calls whose RPC *)
(* fails; nothing else is cached or tried again.                           *)
(*                                                                         *)
(* account-risk-service is not part of the repository: the operators of    *)
(* its section say what the bridge may rely on.  Amounts, expiry times and *)
(* messages are left out.                                                  *)
(*                                                                         *)
(* The operators named Slip... are not the code: each is a plausible       *)
(* mistake in the definition that follows it, which a property must catch. *)
(***************************************************************************)
EXTENDS Naturals, FiniteSets

CONSTANTS
  Calls,         \* the calls of a run, each made once
  Accounts, Orders,
  OrderAccount,  \* the account an order is for
  Operations,    \* what the calls ask for
  MaxThreads,    \* bound on the calls under way at once
  MaxVersion,    \* bound on the policy versions the service publishes
  NoOperation, NoReply, NoData

Queries  == [op : {"GetAccountRiskPolicy", "ListActiveReservations"}, account : Accounts]
Reserves == [op : {"Reserve", "QueryReservation"}, order : Orders]
Releases == [op : {"Release"}, order : Orders, reason : {"kCanceled", "kSettled"}]

Policy == [account : Accounts, version : 1 .. MaxVersion]

ASSUME RiskAssumption ==
  /\ Operations \subseteq Queries \cup Reserves \cup Releases
  /\ NoOperation \notin Operations /\ NoOperation \notin Accounts
  /\ NoData \notin Policy
  /\ OrderAccount \in [Orders -> Accounts]
  /\ MaxThreads \in Nat /\ MaxVersion \in Nat

VARIABLES
  initialized,   \* whether the client has a stub
  policy_cache,  \* policy_cache_
  pc,            \* the place each call has reached
  operation,     \* what each call asks for
  rpc_status,    \* the grpc::Status its RPC ended with; "none": it has not ended
  error_code,    \* error_code of each call's Result
  data,          \* data of each call's Result
  rpc,           \* the RPC of each call: "unsent", "sent" or "served"
  reply,         \* the reply of the service to it
  policies,      \* in the service: the account's policy version, 0 for none
  published,     \* in the service: the last version published
  reservations   \* in the service: the state of the order's reservation

results == <<rpc_status, error_code, data>>
service == <<policies, published, reservations>>
vars == <<initialized, policy_cache, pc, operation, results, rpc, reply, service>>

-----------------------------------------------------------------------------
(* Data *)

States == {"none", "reserved", "rejected", "released", "settled", "expired"}
ReservationStates == {"kUnspecified", "kReserved", "kRejected", "kReleased", "kSettled",
                      "kExpired"}
RpcStatuses == {"none", "failed", "not_found", "ok"}
ErrorCodes == {"kSuccess", "kNotFound", "kTimeout", "kNotInitialized"}

Decisions == [decision : {"APPROVED", "REJECTED", "UNSPECIFIED"}]
Replies == {NoReply, [not_found |-> TRUE]} \cup [policy : Policy] \cup Decisions
             \cup [released : BOOLEAN] \cup [status : States \ {"none"}]
             \cup [orders : SUBSET Orders]

\* What a Result may have as data: every kind of result has its own form.
Values == {NoData} \cup Policy \cup [state : ReservationStates] \cup [orders : SUBSET Orders]

ASSUME NoReplyAssumption == NoReply \notin [code : ErrorCodes, data : Values]

Found(answer) == answer # [not_found |-> TRUE]

\* The key of an account in policy_cache_.
CacheKey(account) == account

SlipApprovedUnlessRejected(decision) ==
  IF decision = "REJECTED" THEN "kRejected" ELSE "kReserved"

\* What a Reserve decision becomes.
ToReservationState(decision) ==
  CASE decision = "APPROVED" -> "kReserved"
    [] decision = "REJECTED" -> "kRejected"
    [] OTHER -> "kUnspecified"

SlipStatusPassed(status) == status

\* What the status of a reservation becomes.
ToState(status) ==
  CASE status = "reserved" -> "kReserved"
    [] status = "rejected" -> "kRejected"
    [] status = "released" -> "kReleased"
    [] status = "settled"  -> "kSettled"
    [] status = "expired"  -> "kExpired"
    [] OTHER -> "kUnspecified"

\* The state Release reports: one the service did not release has none.
ReleaseState(released, reason) ==
  CASE released /\ reason = "kSettled" -> "kSettled"
    [] released /\ reason # "kSettled" -> "kReleased"
    [] OTHER -> "kUnspecified"

SlipReasonDropped(reason) == "CANCELED"

\* The reason a request carries.
ToProtoReleaseReason(reason) ==
  CASE reason = "kSendFailed"      -> "EMS_ENQUEUE_FAILED"
    [] reason = "kRejectedByVenue" -> "REJECTED_BY_VENUE"
    [] reason = "kCanceled"        -> "CANCELED"
    [] reason = "kSettled"         -> "SETTLED"
    [] reason = "kExpired"         -> "EXPIRED"
    [] OTHER -> "REASON_UNSPECIFIED"

\* The data of a call that is answered.
ReserveData(c) == [state |-> ToReservationState(reply[c].decision)]
ReleaseData(c) == [state |-> ReleaseState(reply[c].released, operation[c].reason)]
QueryData(c)   == [state |-> ToState(reply[c].status)]
ListData(c)    == [orders |-> reply[c].orders]

-----------------------------------------------------------------------------
(* account-risk-service, as the bridge sees it *)

PublishPolicy(account) ==
  /\ published[account] < MaxVersion
  /\ published' = [published EXCEPT ![account] = @ + 1]
  /\ policies' = [policies EXCEPT ![account] = published[account] + 1]
  /\ UNCHANGED <<initialized, policy_cache, pc, operation, results, rpc, reply, reservations>>

WithdrawPolicy(account) ==
  /\ policies[account] # 0
  /\ policies' = [policies EXCEPT ![account] = 0]
  /\ UNCHANGED <<initialized, policy_cache, pc, operation, results, rpc, reply, published,
                 reservations>>

Expire(order) ==
  /\ reservations[order] = "reserved"
  /\ reservations' = [reservations EXCEPT ![order] = "expired"]
  /\ UNCHANGED <<initialized, policy_cache, pc, operation, results, rpc, reply, policies,
                 published>>

\* The request of call c reaches the service and changes nothing there.
Look(c, answer) == /\ reply' = [reply EXCEPT ![c] = answer]
                   /\ UNCHANGED reservations

Answer(c, order, state, answer) ==
  /\ reservations' = [reservations EXCEPT ![order] = state]
  /\ reply' = [reply EXCEPT ![c] = answer]

ServePolicy(c) ==
  LET account == operation[c].account
  IN Look(c, IF policies[account] = 0 THEN [not_found |-> TRUE]
             ELSE [policy |-> [account |-> account, version |-> policies[account]]])

\* An order is reserved at most once; the service may leave the decision out.
ServeReserve(c) ==
  LET order == operation[c].order
  IN \/ reservations[order] = "none" /\ Answer(c, order, "reserved", [decision |-> "APPROVED"])
     \/ reservations[order] = "none" /\ Answer(c, order, "rejected", [decision |-> "REJECTED"])
     \/ reservations[order] = "reserved" /\ Look(c, [decision |-> "APPROVED"])
     \/ reservations[order] # "reserved" /\ Look(c, [decision |-> "UNSPECIFIED"])

ServeRelease(c) ==
  LET order == operation[c].order
  IN \/ /\ reservations[order] = "reserved"
        /\ Answer(c, order, IF ToProtoReleaseReason(operation[c].reason) = "SETTLED"
                            THEN "settled" ELSE "released", [released |-> TRUE])
     \/ reservations[order] # "reserved" /\ Look(c, [released |-> FALSE])

ServeQuery(c) ==
  LET state == reservations[operation[c].order]
  IN Look(c, IF state = "none" THEN [not_found |-> TRUE] ELSE [status |-> state])

ServeList(c) ==
  Look(c, [orders |-> {o \in Orders : /\ OrderAccount[o] = operation[c].account
                                      /\ reservations[o] = "reserved"}])

\* A request is served at any time after it was sent, the caller waiting or not.
Serve(c) ==
  /\ rpc[c] = "sent"
  /\ rpc' = [rpc EXCEPT ![c] = "served"]
  /\ \/ operation[c].op = "GetAccountRiskPolicy" /\ ServePolicy(c)
     \/ operation[c].op = "Reserve" /\ ServeReserve(c)
     \/ operation[c].op = "Release" /\ ServeRelease(c)
     \/ operation[c].op = "QueryReservation" /\ ServeQuery(c)
     \/ operation[c].op = "ListActiveReservations" /\ ServeList(c)
  /\ UNCHANGED <<initialized, policy_cache, pc, operation, results, policies, published>>

-----------------------------------------------------------------------------
(* The bridge *)

UnderWay == {c \in Calls : pc[c] \notin {"new", "done"}}

\* The client refuses a second Init, and has no other way to fail with a host
\* and a port.  main calls Init before the engine has the bridge.
InitBridge ==
  /\ ~ initialized
  /\ UnderWay = {}
  /\ initialized' = TRUE
  /\ UNCHANGED <<policy_cache, pc, operation, results, rpc, reply, service>>

\* main shuts the bridge down once the engine has stopped; the cache stays.
Shutdown ==
  /\ initialized
  /\ UnderWay = {}
  /\ initialized' = FALSE
  /\ UNCHANGED <<policy_cache, pc, operation, results, rpc, reply, service>>

Goto(c, from, to) == pc[c] = from /\ pc' = [pc EXCEPT ![c] = to]

Return(c, from, code, value) ==
  /\ Goto(c, from, "done")
  /\ error_code' = [error_code EXCEPT ![c] = code]
  /\ data' = [data EXCEPT ![c] = value]

IsPolicy(c) == operation[c].op = "GetAccountRiskPolicy"

\* Without a stub GetAccountRiskPolicy goes to the cache; the other calls fail.
Call(c, request) ==
  /\ Cardinality(UnderWay) < MaxThreads
  /\ operation' = [operation EXCEPT ![c] = request]
  /\ \/ /\ initialized
        /\ Goto(c, "new", "rpc")
        /\ rpc' = [rpc EXCEPT ![c] = "sent"]
        /\ UNCHANGED results
     \/ /\ ~ initialized /\ request.op = "GetAccountRiskPolicy"
        /\ Goto(c, "new", "cache")
        /\ UNCHANGED <<rpc, results>>
     \/ /\ ~ initialized /\ request.op # "GetAccountRiskPolicy"
        /\ Return(c, "new", "kNotInitialized", NoData)
        /\ UNCHANGED <<rpc, rpc_status>>
  /\ UNCHANGED <<initialized, policy_cache, reply, service>>

\* The RPC ends: with a failure at any moment, when the deadline passes or the
\* connection breaks, whatever became of the request, or with the service's reply.
RpcEnds(c, status) ==
  /\ pc[c] = "rpc"
  /\ \/ status = "failed"
     \/ status = "not_found" /\ rpc[c] = "served" /\ ~ Found(reply[c])
     \/ status = "ok" /\ rpc[c] = "served" /\ Found(reply[c])
  /\ rpc_status' = [rpc_status EXCEPT ![c] = status]

\* A policy call whose RPC failed goes to the cache with the error it has met.
FallBack(c) == /\ Goto(c, "rpc", "cache")
               /\ error_code' = [error_code EXCEPT ![c] = "kTimeout"]
               /\ UNCHANGED data

SlipNoDeadline(c) == /\ pc[c] = "never"
                     /\ UNCHANGED vars

SlipFailureRejects(c) ==
  /\ RpcEnds(c, "failed")
  /\ \/ IsPolicy(c) /\ FallBack(c)
     \/ ~ IsPolicy(c) /\ Return(c, "rpc", "kSuccess", [state |-> "kRejected"])
  /\ UNCHANGED <<initialized, policy_cache, operation, rpc, reply, service>>

SlipRetried(c) ==
  \/ /\ pc[c] = "rpc" /\ rpc[c] = "served" /\ ~ IsPolicy(c)
     /\ rpc' = [rpc EXCEPT ![c] = "sent"]
     /\ UNCHANGED <<initialized, policy_cache, pc, operation, results, reply, service>>
  \/ /\ RpcEnds(c, "failed")
     /\ \/ IsPolicy(c) /\ FallBack(c)
        \/ ~ IsPolicy(c) /\ Return(c, "rpc", "kTimeout", NoData)
     /\ UNCHANGED <<initialized, policy_cache, operation, rpc, reply, service>>

\* The other calls return the error.
RpcFails(c) ==
  /\ RpcEnds(c, "failed")
  /\ \/ IsPolicy(c) /\ FallBack(c)
     \/ ~ IsPolicy(c) /\ Return(c, "rpc", "kTimeout", NoData)
  /\ UNCHANGED <<initialized, policy_cache, operation, rpc, reply, service>>

SlipNotFoundIsFailure(c) ==
  /\ RpcEnds(c, "not_found")
  /\ \/ IsPolicy(c) /\ FallBack(c)
     \/ ~ IsPolicy(c) /\ Return(c, "rpc", "kNotFound", NoData)
  /\ UNCHANGED <<initialized, policy_cache, operation, rpc, reply, service>>

\* The client knows NOT_FOUND for policies and reservations; only they can have it.
RpcNotFound(c) ==
  /\ RpcEnds(c, "not_found")
  /\ Return(c, "rpc", "kNotFound", NoData)
  /\ UNCHANGED <<initialized, policy_cache, operation, rpc, reply, service>>

Succeed(c, op, value) ==
  operation[c].op = op /\ Return(c, "rpc", "kSuccess", value)

RpcAnswered(c) ==
  /\ RpcEnds(c, "ok")
  /\ \/ IsPolicy(c) /\ Goto(c, "rpc", "store") /\ UNCHANGED <<error_code, data>>
     \/ Succeed(c, "Reserve", ReserveData(c))
     \/ Succeed(c, "Release", ReleaseData(c))
     \/ Succeed(c, "QueryReservation", QueryData(c))
     \/ Succeed(c, "ListActiveReservations", ListData(c))
  /\ UNCHANGED <<initialized, policy_cache, operation, rpc, reply, service>>

SlipFirstPolicyKept(c) ==
  LET key == CacheKey(operation[c].account)
  IN /\ Return(c, "store", "kSuccess", reply[c].policy)
     /\ policy_cache' = [k \in DOMAIN policy_cache \cup {key} |->
                           IF k \in DOMAIN policy_cache THEN policy_cache[k]
                           ELSE reply[c].policy]
     /\ UNCHANGED <<initialized, operation, rpc, rpc_status, reply, service>>

\* policy_cache_ takes the policy under its mutex, in a step of its own.
StorePolicy(c) ==
  LET key == CacheKey(operation[c].account)
  IN /\ Return(c, "store", "kSuccess", reply[c].policy)
     /\ policy_cache' = [k \in DOMAIN policy_cache \cup {key} |->
                           IF k = key THEN reply[c].policy ELSE policy_cache[k]]
     /\ UNCHANGED <<initialized, operation, rpc, rpc_status, reply, service>>

\* The last policy the bridge had answers a call whose RPC failed or was not sent.
ReadCache(c) ==
  LET key == CacheKey(operation[c].account)
  IN /\ pc[c] = "cache"
     /\ \/ key \in DOMAIN policy_cache /\ Return(c, "cache", "kSuccess", policy_cache[key])
        \/ /\ key \notin DOMAIN policy_cache
           /\ Return(c, "cache", IF error_code[c] = "kSuccess" THEN "kNotInitialized"
                                 ELSE error_code[c], NoData)
     /\ UNCHANGED <<initialized, policy_cache, operation, rpc, rpc_status, reply, service>>

-----------------------------------------------------------------------------
(* Specification *)

Init ==
  /\ initialized = FALSE
  /\ policy_cache = [a \in {} |-> {}]
  /\ pc = [c \in Calls |-> "new"]
  /\ operation = [c \in Calls |-> NoOperation]
  /\ rpc_status = [c \in Calls |-> "none"]
  /\ error_code = [c \in Calls |-> "kSuccess"]
  /\ data = [c \in Calls |-> NoData]
  /\ rpc = [c \in Calls |-> "unsent"]
  /\ reply = [c \in Calls |-> NoReply]
  /\ policies = [a \in Accounts |-> 0]
  /\ published = [a \in Accounts |-> 0]
  /\ reservations = [o \in Orders |-> "none"]

Step(c) == \/ RpcFails(c) \/ RpcNotFound(c) \/ RpcAnswered(c)
           \/ StorePolicy(c) \/ ReadCache(c)

Service == \/ \E a \in Accounts : PublishPolicy(a) \/ WithdrawPolicy(a)
           \/ \E o \in Orders : Expire(o)
           \/ \E c \in Calls : Serve(c)

Next == \/ InitBridge \/ Shutdown
        \/ \E c \in Calls : Step(c) \/ \E request \in Operations : Call(c, request)
        \/ Service

Spec == Init /\ [][Next]_vars

\* Deadlines pass and threads are scheduled; the service need not answer.
FairSpec == Spec /\ \A c \in Calls : WF_vars(Step(c))

-----------------------------------------------------------------------------
(* Properties *)

\* Every variable has its type.
TypeOK ==
  /\ initialized \in BOOLEAN
  /\ DOMAIN policy_cache \subseteq Accounts
  /\ policy_cache \in [DOMAIN policy_cache -> Policy]
  /\ pc \in [Calls -> {"new", "rpc", "store", "cache", "done"}]
  /\ operation \in [Calls -> Operations \cup {NoOperation}]
  /\ rpc_status \in [Calls -> RpcStatuses]
  /\ error_code \in [Calls -> ErrorCodes]
  /\ data \in [Calls -> Values]
  /\ rpc \in [Calls -> {"unsent", "sent", "served"}]
  /\ reply \in [Calls -> Replies]
  /\ policies \in [Accounts -> 0 .. MaxVersion] /\ published \in [Accounts -> 0 .. MaxVersion]
  /\ reservations \in [Orders -> States]

\* The calls of an operation that have returned without an error.
Succeeded(op) ==
  {c \in Calls : pc[c] = "done" /\ operation[c].op = op /\ error_code[c] = "kSuccess"}

PolicyCallsMade == {c \in Calls : pc[c] # "new" /\ IsPolicy(c)}

\* What the bridge has heard of a policy call; the other calls look nothing up.
Heard(c) == IF c \notin PolicyCallsMade THEN "none"
            ELSE IF rpc[c] = "unsent" THEN "closed" ELSE rpc_status[c]

Lookup == INSTANCE CachedLookup WITH
  Callers <- Calls, Keys <- Accounts, NoKey <- NoOperation, NoValue <- NoData,
  open    <- initialized,
  offered <- {entry \in Accounts \X Policy : /\ entry[1] = entry[2].account
                                            /\ entry[2].version <= published[entry[1]]},
  known   <- [a \in Accounts |-> IF a \in DOMAIN policy_cache THEN policy_cache[a] ELSE NoData],
  asked   <- [c \in Calls |-> IF c \in PolicyCallsMade THEN operation[c].account
                              ELSE NoOperation],
  heard   <- [c \in Calls |-> Heard(c)],
  told    <- [c \in Calls |-> IF c \notin PolicyCallsMade THEN "idle"
                              ELSE IF pc[c] = "done" THEN error_code[c] ELSE "asked"],
  answer  <- [c \in Calls |-> IF c \in PolicyCallsMade THEN data[c] ELSE NoData]

\* The policy calls are answered as CachedLookup says, by what their RPCs ended with:
\* with a policy published for that very account, with kNotFound exactly when the
\* service has none, from the cache only when there is no answer, and without either
\* only before the bridge has ever had the account's policy, the caller being told
\* whether the bridge was closed or the service silent.
PoliciesAreLookedUp == Lookup!Spec

\* The calls made about reservations.
OrderCall(c) == pc[c] # "new" /\ ~ IsPolicy(c)

\* What the engine calls the states of the service.
KnownAs == [none |-> "none", reserved |-> "kReserved", rejected |-> "kRejected",
            released |-> "kReleased", settled |-> "kSettled", expired |-> "kExpired"]

\* What the reply to such a call comes to.
Outcome(c) ==
  IF ~ Found(reply[c]) THEN [code |-> "kNotFound", data |-> NoData]
  ELSE [code |-> "kSuccess",
        data |-> CASE operation[c].op = "Reserve" -> ReserveData(c)
                   [] operation[c].op = "Release" -> ReleaseData(c)
                   [] operation[c].op = "QueryReservation" -> QueryData(c)
                   [] operation[c].op = "ListActiveReservations" -> ListData(c)]

Ledger == INSTANCE Reservations WITH
  Callers <- Calls, NoRequest <- NoOperation, NoOutcome <- NoReply,
  Requests <- {r \in Operations : r.op # "GetAccountRiskPolicy"},
  open    <- initialized,
  ledger  <- [o \in Orders |-> KnownAs[reservations[o]]],
  request <- [c \in Calls |-> IF OrderCall(c) THEN operation[c] ELSE NoOperation],
  outcome <- [c \in Calls |-> IF OrderCall(c) /\ rpc[c] = "served" THEN Outcome(c) ELSE NoReply],
  told    <- [c \in Calls |-> IF ~ OrderCall(c) THEN "idle"
                              ELSE IF pc[c] = "done" THEN error_code[c] ELSE "asked"],
  answer  <- [c \in Calls |-> IF OrderCall(c) THEN data[c] ELSE NoData]

\* Each call about a reservation takes effect at the service at most once, at one
\* instant after it was made, and the caller is told, in the engine's own words, what
\* was decided then of this very request, or kTimeout: never an outcome the service did
\* not decide, and kNotInitialized only when it never will.
ReservationsAreDecidedOnce == Ledger!Spec

Returns(c) == pc[c] # "done" /\ pc'[c] = "done"

\* The earlier calls that gave the policy call c asks for.
EarlierAnswers(c) ==
  {d \in Succeeded("GetAccountRiskPolicy") : operation[d].account = operation'[c].account}

\* When one thread asks, an account's policy never goes back to an older version,
\* whichever RPCs fail in between.
PolicyNeverGoesBack ==
  [][\A c \in Calls :
       Returns(c) /\ operation'[c].op = "GetAccountRiskPolicy" /\ error_code'[c] = "kSuccess"
         => \A d \in EarlierAnswers(c) : data[d].version <= data'[c].version]_vars

\* An order the engine believes to be reserved has been reserved by the service.
ReservedWasReserved ==
  \A c \in Succeeded("Reserve") :
    data[c].state = "kReserved" => reservations[operation[c].order] \notin {"none", "rejected"}

\* The calls that leave the caller sure that they did not reserve the order.
SurelyNot(c) == /\ pc[c] = "done"
                /\ \/ error_code[c] = "kNotInitialized"
                   \/ error_code[c] = "kSuccess" /\ data[c].state # "kReserved"

\* The service holds no reservation behind the engine's back: of the Reserve calls
\* for a reserved order one is under way, has succeeded or has ended in kTimeout,
\* after which the engine must ask.
NoSilentReservation ==
  \A o \in Orders : reservations[o] = "reserved" =>
    \E c \in Calls : operation[c] = [op |-> "Reserve", order |-> o] /\ ~ SurelyNot(c)

\* An order reported as released or settled has become just that at the service, and
\* stays it even if its Reserve or another Release is served late.
ReleasedStaysReleased ==
  \A c \in Succeeded("Release") :
    /\ data[c].state = "kReleased" => reservations[operation[c].order] = "released"
    /\ data[c].state = "kSettled"  => reservations[operation[c].order] = "settled"

\* Every call returns by its deadline, though the service may never answer.
EveryCallReturns == \A c \in Calls : pc[c] # "new" ~> pc[c] = "done"
=============================================================================
