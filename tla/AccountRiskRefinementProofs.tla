--------------------- MODULE AccountRiskRefinementProofs ----------------------
(***************************************************************************)
(* The proofs that AccountRiskBridge implements CachedLookup and           *)
(* Reservations: whatever the other calls, the service and main do, a      *)
(* policy call is answered as if it looked the policy up in one step, and  *)
(* a call about a reservation as if the service decided it in one step, if *)
(* at all; and that for one reader the policy never goes back.             *)
(***************************************************************************)
EXTENDS AccountRiskProofs, FiniteSetTheorems

(* The values the refinement mapping gives to the variables of CachedLookup *)

Offered  == {entry \in Accounts \X Policy : /\ entry[1] = entry[2].account
                                            /\ entry[2].version <= published[entry[1]]}
Known    == [a \in Accounts |-> IF a \in DOMAIN policy_cache THEN policy_cache[a] ELSE NoData]
AskedFor == [c \in Calls |-> IF c \in PolicyCallsMade THEN operation[c].account ELSE NoOperation]
HeardOf  == [c \in Calls |-> Heard(c)]
Answers  == [c \in Calls |-> IF c \in PolicyCallsMade THEN data[c] ELSE NoData]

LookupTold(c) == IF c \notin PolicyCallsMade THEN "idle"
                 ELSE IF pc[c] = "done" THEN error_code[c] ELSE "asked"
Replied == [c \in Calls |-> LookupTold(c)]

mapped == <<initialized, Offered, Known, AskedFor, HeardOf, Replied, Answers>>

\* The variables of CachedLookup under the refinement mapping.
LEMMA MappedVars == Lookup!vars = mapped /\ (Lookup!vars)' = mapped'
  BY DEF Lookup!vars, mapped, Offered, Known, AskedFor, HeardOf, Replied, LookupTold, Answers

\* What is on offer changes only with what is published ...
LEMMA SameOffer == UNCHANGED published => UNCHANGED Offered
  BY DEF Offered

\* ... and what is known only with the cache.
LEMMA SameKnown == UNCHANGED policy_cache => UNCHANGED Known
  BY DEF Known

\* A call that keeps what it has is mapped to the same.
LEMMA SameLookup ==
  ASSUME NEW c \in Calls, Same(c)
  PROVE  /\ c \in PolicyCallsMade' <=> c \in PolicyCallsMade
         /\ Heard(c)' = Heard(c) /\ LookupTold(c)' = LookupTold(c)
<1>1. c \in PolicyCallsMade' <=> c \in PolicyCallsMade
  BY DEF Same, PolicyCallsMade, IsPolicy
<1>. QED
  BY <1>1 DEF Same, Heard, LookupTold

\* What a step does to the mapped variables when only the call c moves.
LEMMA Moves ==
  ASSUME NEW c \in Calls, \A d \in Calls \ {c} : Same(d),
         pc'[c] # "new", IsPolicy(c)'
  PROVE  /\ AskedFor' = [AskedFor EXCEPT ![c] = operation'[c].account]
         /\ HeardOf' = [HeardOf EXCEPT ![c] = Heard(c)']
         /\ Replied' = [Replied EXCEPT ![c] = LookupTold(c)']
         /\ Answers' = [Answers EXCEPT ![c] = data'[c]]
<1>1. \A d \in Calls \ {c} : /\ d \in PolicyCallsMade' <=> d \in PolicyCallsMade
                             /\ Heard(d)' = Heard(d) /\ LookupTold(d)' = LookupTold(d)
  BY SameLookup
<1>2. c \in PolicyCallsMade'
  BY DEF PolicyCallsMade
<1>3. AskedFor' = [AskedFor EXCEPT ![c] = operation'[c].account]
  BY <1>1, <1>2 DEF AskedFor, Same
<1>4. HeardOf' = [HeardOf EXCEPT ![c] = Heard(c)']
  BY <1>1 DEF HeardOf
<1>5. Replied' = [Replied EXCEPT ![c] = LookupTold(c)']
  BY <1>1 DEF Replied
<1>6. Answers' = [Answers EXCEPT ![c] = data'[c]]
  BY <1>1, <1>2 DEF Answers, Same
<1>. QED
  BY <1>3, <1>4, <1>5, <1>6

\* A call that does not ask for a policy may do what it likes.
LEMMA OtherCalls ==
  ASSUME NEW c \in Calls, \A d \in Calls \ {c} : Same(d),
         pc[c] = "new" \/ ~ IsPolicy(c), ~ IsPolicy(c)'
  PROVE  UNCHANGED <<AskedFor, HeardOf, Replied, Answers>>
<1>1. \A d \in Calls \ {c} : /\ d \in PolicyCallsMade' <=> d \in PolicyCallsMade
                             /\ Heard(d)' = Heard(d) /\ LookupTold(d)' = LookupTold(d)
  BY SameLookup
<1>2. c \notin PolicyCallsMade /\ c \notin PolicyCallsMade'
  BY DEF PolicyCallsMade
<1>3. Heard(c)' = Heard(c) /\ LookupTold(c)' = LookupTold(c)
  BY <1>2 DEF Heard, LookupTold
<1>. QED
  BY <1>1, <1>2, <1>3 DEF AskedFor, HeardOf, Replied, Answers, Same

\* Nor do calls that do not move change anything; that a request is served is not heard.
LEMMA NoMove ==
  ASSUME UNCHANGED <<pc, operation, results>>,
         \A c \in Calls : rpc'[c] = "unsent" <=> rpc[c] = "unsent"
  PROVE  UNCHANGED <<AskedFor, HeardOf, Replied, Answers>>
<1>1. PolicyCallsMade' = PolicyCallsMade
  BY DEF PolicyCallsMade, IsPolicy
<1>2. \A c \in Calls : Heard(c)' = Heard(c) /\ LookupTold(c)' = LookupTold(c)
  BY <1>1 DEF Heard, LookupTold, results
<1>. QED
  BY <1>1, <1>2 DEF AskedFor, HeardOf, Replied, Answers, results

\* A call that asks for a policy is one of CachedLookup's.
LEMMA AskStep ==
  ASSUME IInv, NEW c \in Calls, NEW request \in Operations, Call(c, request)
  PROVE  Lookup!Next \/ UNCHANGED mapped
<1>1. TypeOK /\ PlaceOK(c)
  BY DEF IInv, CallOK
<1>2. /\ operation' = [operation EXCEPT ![c] = request]
      /\ UNCHANGED <<initialized, policy_cache, reply, service>>
  BY DEF Call
<1>3. operation'[c] = request
  BY <1>1, <1>2 DEF TypeOK
<1>4. UNCHANGED Offered /\ UNCHANGED Known
  BY <1>2, SameOffer, SameKnown DEF service
<1>5. /\ pc[c] = "new" /\ data[c] = NoData /\ rpc[c] = "unsent" /\ rpc_status[c] = "none"
      /\ \A d \in Calls \ {c} : Same(d)
  BY <1>1, <1>2 DEF Call, Goto, Return, PlaceOK, TypeOK, results, Same
<1>6. CASE request.op = "GetAccountRiskPolicy"
  <2>1. /\ IsPolicy(c)' /\ pc'[c] = IF initialized THEN "rpc" ELSE "cache"
        /\ rpc'[c] = (IF initialized THEN "sent" ELSE "unsent")
        /\ data'[c] = NoData /\ rpc_status'[c] = "none"
    BY <1>1, <1>3, <1>5, <1>6 DEF Call, Goto, TypeOK, results, IsPolicy
  <2>2. c \notin PolicyCallsMade /\ c \in PolicyCallsMade' /\ pc'[c] \notin {"new", "done"}
    BY <1>5, <2>1 DEF PolicyCallsMade
  <2>3. request.account \in Accounts
    BY <1>6, RequestParts
  <2>4. Heard(c)' = (IF initialized THEN "none" ELSE "closed") /\ LookupTold(c)' = "asked"
    BY <2>1, <2>2 DEF Heard, LookupTold
  <2>5. /\ AskedFor' = [AskedFor EXCEPT ![c] = request.account]
        /\ HeardOf' = [HeardOf EXCEPT ![c] = IF initialized THEN "none" ELSE "closed"]
        /\ Replied' = [Replied EXCEPT ![c] = "asked"]
        /\ Answers' = [Answers EXCEPT ![c] = NoData]
    BY <1>3, <1>5, <2>1, <2>2, <2>4, Moves
  <2>6. Replied[c] # "asked"
    BY <2>2 DEF Replied, LookupTold
  <2>7. Lookup!Ask(c, request.account)
    BY <1>2, <1>4, <2>5, <2>6
       DEF Lookup!Ask, Offered, Known, AskedFor, HeardOf, Replied, LookupTold, Answers
  <2>. QED
    BY <2>3, <2>7 DEF Lookup!Next
<1>7. CASE request.op # "GetAccountRiskPolicy"
  <2>1. ~ IsPolicy(c)'
    BY <1>3, <1>7 DEF IsPolicy
  <2>2. UNCHANGED <<AskedFor, HeardOf, Replied, Answers>>
    BY <1>5, <2>1, OtherCalls
  <2>. QED
    BY <1>2, <1>4, <2>2 DEF mapped
<1>. QED
  BY <1>6, <1>7

\* The RPC of a policy call ends: the bridge hears an answer or a failure, or is told that
\* there is no policy and says so.
LEMMA RpcStep ==
  ASSUME IInv, NEW c \in Calls, RpcFails(c) \/ RpcNotFound(c) \/ RpcAnswered(c)
  PROVE  Lookup!Next \/ UNCHANGED mapped
<1>1. TypeOK /\ PlaceOK(c)
  BY DEF IInv, CallOK
<1>2. pc[c] = "rpc" /\ UNCHANGED <<initialized, policy_cache, operation, rpc, reply, service>>
  BY DEF RpcFails, RpcNotFound, RpcAnswered, RpcEnds
<1>3. UNCHANGED Offered /\ UNCHANGED Known
  BY <1>2, SameOffer, SameKnown DEF service
<1>4. \A d \in Calls \ {c} : Same(d)
  BY <1>1, <1>2
     DEF RpcFails, RpcNotFound, RpcAnswered, RpcEnds, FallBack, Succeed, Goto, Return, TypeOK,
         Same
<1>5. CASE ~ IsPolicy(c)
  <2>1. ~ IsPolicy(c)'
    BY <1>2, <1>5 DEF IsPolicy
  <2>2. UNCHANGED <<AskedFor, HeardOf, Replied, Answers>>
    BY <1>4, <1>5, <2>1, OtherCalls
  <2>. QED
    BY <1>2, <1>3, <2>2 DEF mapped
<1>6. CASE IsPolicy(c)
  <2>1. IsPolicy(c)' /\ c \in PolicyCallsMade
    BY <1>2, <1>6 DEF IsPolicy, PolicyCallsMade
  <2>2. /\ AskedFor[c] = operation[c].account /\ operation'[c].account = operation[c].account
        /\ HeardOf[c] = "none" /\ Replied[c] = "asked" /\ rpc'[c] # "unsent"
        /\ data[c] = NoData /\ Answers[c] = NoData
    BY <1>1, <1>2, <2>1 DEF PlaceOK, AskedFor, HeardOf, Heard, Replied, LookupTold, Answers
  <2>3. /\ RpcFails(c) => rpc_status'[c] = "failed"
        /\ RpcNotFound(c) => rpc_status'[c] = "not_found"
        /\ RpcAnswered(c) => rpc_status'[c] = "ok"
        /\ RpcNotFound(c) => /\ pc'[c] = "done" /\ error_code'[c] = "kNotFound"
                             /\ data'[c] = NoData
        /\ ~ RpcNotFound(c) => pc'[c] \in {"cache", "store"} /\ data'[c] = data[c]
    BY <1>1, <1>6 DEF RpcFails, RpcNotFound, RpcAnswered, RpcEnds, FallBack, Succeed, Goto,
                      Return, TypeOK, IsPolicy
  <2>4. pc'[c] # "new" /\ c \in PolicyCallsMade'
    BY <2>1, <2>3 DEF PolicyCallsMade
  <2>5. Heard(c)' = rpc_status'[c]
    BY <2>2, <2>4 DEF Heard
  <2>6. UNCHANGED AskedFor
    <3>1. AskedFor' = [AskedFor EXCEPT ![c] = AskedFor[c]]
      BY <1>4, <2>1, <2>2, <2>4, Moves
    <3>. QED
      BY <3>1 DEF AskedFor
  <2>7. CASE RpcNotFound(c)
    <3>1. LookupTold(c)' = "kNotFound" /\ Heard(c)' = "not_found"
      BY <2>3, <2>4, <2>5, <2>7 DEF LookupTold
    <3>2. /\ HeardOf' = [HeardOf EXCEPT ![c] = "not_found"]
          /\ Replied' = [Replied EXCEPT ![c] = "kNotFound"]
          /\ Answers' = [Answers EXCEPT ![c] = NoData]
      BY <1>4, <2>1, <2>3, <2>4, <2>7, <3>1, Moves
    <3>3. Lookup!Refuse(c)
      BY <1>2, <1>3, <2>2, <2>6, <3>2
         DEF Lookup!Refuse, Lookup!Tell, Offered, Known, AskedFor, HeardOf, Replied, LookupTold,
             Answers
    <3>. QED
      BY <3>3 DEF Lookup!Next
  <2>8. CASE ~ RpcNotFound(c)
    <3>1. PICK what \in {"failed", "ok"} : Heard(c)' = what
      BY <2>3, <2>5, <2>8
    <3>2. LookupTold(c)' = "asked"
      BY <2>3, <2>4, <2>8 DEF LookupTold
    <3>3. /\ HeardOf' = [HeardOf EXCEPT ![c] = what]
          /\ Replied' = [Replied EXCEPT ![c] = "asked"]
          /\ Answers' = [Answers EXCEPT ![c] = NoData]
      BY <1>4, <2>1, <2>2, <2>3, <2>4, <2>8, <3>1, <3>2, Moves
    <3>4. Replied' = Replied /\ Answers' = Answers
      BY <2>2, <3>3 DEF Replied, Answers
    <3>5. Lookup!Hear(c, what)
      BY <1>2, <1>3, <2>2, <2>6, <3>3, <3>4
         DEF Lookup!Hear, Offered, Known, AskedFor, HeardOf, Replied, LookupTold, Answers
    <3>. QED
      BY <3>5 DEF Lookup!Next
  <2>. QED
    BY <2>7, <2>8
<1>. QED
  BY <1>5, <1>6

\* A policy call ends with what the service or the cache has.
LEMMA EndStep ==
  ASSUME IInv, NEW c \in Calls, StorePolicy(c) \/ ReadCache(c)
  PROVE  Lookup!Next
<1> DEFINE account == operation[c].account
<1>1. TypeOK /\ PlaceOK(c) /\ ReplyOK(c)
  BY DEF IInv, CallOK
<1>2. /\ pc[c] \in {"store", "cache"}
      /\ UNCHANGED <<initialized, operation, rpc, rpc_status, reply, service>>
  BY DEF StorePolicy, ReadCache, Return, Goto
<1>3. UNCHANGED Offered
  BY <1>2, SameOffer DEF service
<1>4. (\A d \in Calls \ {c} : Same(d)) /\ pc'[c] = "done"
  BY <1>1, <1>2 DEF StorePolicy, ReadCache, Return, Goto, TypeOK, Same
<1>5. IsPolicy(c) /\ IsPolicy(c)' /\ c \in PolicyCallsMade /\ c \in PolicyCallsMade'
  BY <1>1, <1>2, <1>4 DEF PlaceOK, IsPolicy, PolicyCallsMade
<1>6. account \in Accounts
  BY <1>1, <1>2, <1>5, RequestParts DEF PlaceOK, IsPolicy
<1>7. /\ Replied[c] = "asked" /\ AskedFor[c] = account
      /\ HeardOf[c] = Heard(c) /\ Heard(c)' = Heard(c) /\ LookupTold(c)' = error_code'[c]
  BY <1>2, <1>4, <1>5 DEF Replied, LookupTold, AskedFor, HeardOf, Heard
<1>8. UNCHANGED <<AskedFor, HeardOf>>
  <2>1. /\ AskedFor' = [AskedFor EXCEPT ![c] = AskedFor[c]]
        /\ HeardOf' = [HeardOf EXCEPT ![c] = HeardOf[c]]
    BY <1>2, <1>4, <1>5, <1>7, Moves
  <2>. QED
    BY <2>1 DEF AskedFor, HeardOf
<1>9. ASSUME NEW code, NEW value, error_code'[c] = code, data'[c] = value
      PROVE  /\ Replied' = [Replied EXCEPT ![c] = code]
             /\ Answers' = [Answers EXCEPT ![c] = value]
  BY <1>4, <1>5, <1>7, <1>9, Moves
<1>10. CASE StorePolicy(c)
  <2> DEFINE policy == reply[c].policy
  <2>1. /\ pc[c] = "store" /\ error_code'[c] = "kSuccess" /\ data'[c] = policy
        /\ policy_cache' = [k \in DOMAIN policy_cache \cup {account} |->
                              IF k = account THEN policy ELSE policy_cache[k]]
    BY <1>1, <1>10 DEF StorePolicy, CacheKey, Return, Goto, TypeOK, ErrorCodes
  <2>2. PICK given \in Policy : /\ reply[c] = [policy |-> given]
                                /\ given.account = account
                                /\ given.version <= published[given.account]
    BY <1>1, <1>5, <2>1 DEF PlaceOK, ReplyOK, PolicyReply
  <2>3. policy \in Policy /\ <<account, policy>> \in Offered
    BY <1>6, <2>2 DEF Offered
  <2>4. Known' = [Known EXCEPT ![account] = policy]
    BY <1>6, <2>1 DEF Known
  <2>5. HeardOf[c] = "ok"
    BY <1>1, <1>5, <1>7, <2>1 DEF PlaceOK, Heard
  <2>6. /\ Replied' = [Replied EXCEPT ![c] = "kSuccess"]
        /\ Answers' = [Answers EXCEPT ![c] = policy]
    BY <1>9, <2>1
  <2> HIDE DEF policy
  <2>7. Known' = [Known EXCEPT ![AskedFor[c]] = policy] /\ <<AskedFor[c], policy>> \in Offered
    BY <1>7, <2>3, <2>4
  <2>8. Lookup!Learn(c, policy)
    BY <1>2, <1>3, <1>7, <1>8, <2>5, <2>6, <2>7
       DEF Lookup!Learn, Lookup!Tell, Offered, Known, AskedFor, HeardOf, Replied, LookupTold,
           Answers
  <2>9. PICK entry \in Offered : entry[2] = policy
    BY <2>3
  <2>10. Lookup!Learn(c, entry[2])
    BY <2>8, <2>9 DEF Lookup!Learn, Lookup!Tell
  <2>. QED
    BY <2>9, <2>10 DEF Lookup!Next, Offered
<1>11. CASE ReadCache(c)
  <2>1. pc[c] = "cache" /\ UNCHANGED policy_cache /\ UNCHANGED Known
    BY <1>11, SameKnown DEF ReadCache
  <2>2. \/ HeardOf[c] = "closed" /\ error_code[c] = "kSuccess"
        \/ HeardOf[c] = "failed" /\ error_code[c] = "kTimeout"
    BY <1>1, <1>5, <1>7, <2>1 DEF PlaceOK, Heard
  <2>3. CASE account \in DOMAIN policy_cache
    <3> DEFINE policy == policy_cache[account]
    <3>1. policy \in Policy /\ policy # NoData /\ Known[account] = policy
      BY <1>1, <1>6, <2>3, RiskAssumption DEF TypeOK, Known
    <3>2. error_code'[c] = "kSuccess" /\ data'[c] = policy
      BY <1>1, <1>11, <2>3 DEF ReadCache, CacheKey, Return, Goto, TypeOK
    <3>3. /\ Replied' = [Replied EXCEPT ![c] = "kSuccess"]
          /\ Answers' = [Answers EXCEPT ![c] = policy]
      BY <1>9, <3>2
    <3> HIDE DEF policy
    <3>4. Lookup!Recall(c)
      BY <1>2, <1>3, <1>7, <1>8, <2>1, <2>2, <3>1, <3>3
         DEF Lookup!Recall, Lookup!Tell, Offered, Known, AskedFor, HeardOf, Replied, LookupTold,
             Answers
    <3>. QED
      BY <3>4 DEF Lookup!Next
  <2>4. CASE account \notin DOMAIN policy_cache
    <3> DEFINE code == IF HeardOf[c] = "closed" THEN "kNotInitialized" ELSE "kTimeout"
    <3>1. Known[account] = NoData
      BY <1>6, <2>4 DEF Known
    <3>2. error_code'[c] = code /\ data'[c] = NoData
      BY <1>1, <1>11, <2>2, <2>4 DEF ReadCache, CacheKey, Return, Goto, TypeOK
    <3>3. /\ Replied' = [Replied EXCEPT ![c] = code]
          /\ Answers' = [Answers EXCEPT ![c] = NoData]
      BY <1>9, <3>2
    <3>4. Lookup!Miss(c)
      BY <1>2, <1>3, <1>7, <1>8, <2>1, <2>2, <3>1, <3>3
         DEF Lookup!Miss, Lookup!Tell, Offered, Known, AskedFor, HeardOf, Replied, LookupTold,
             Answers
    <3>. QED
      BY <3>4 DEF Lookup!Next
  <2>. QED
    BY <2>3, <2>4
<1>. QED
  BY <1>10, <1>11

\* Every step is one of CachedLookup's, or changes nothing it speaks of.
LEMMA LookupStep == IInv /\ [Next]_vars => [Lookup!Next]_(Lookup!vars)
<1> SUFFICES ASSUME IInv, [Next]_vars PROVE Lookup!Next \/ UNCHANGED mapped
  BY MappedVars
<1>1. CASE InitBridge \/ Shutdown
  <2>1. UNCHANGED <<Offered, Known, AskedFor, HeardOf, Replied, Answers>>
    <3>1. UNCHANGED <<policy_cache, pc, operation, results, rpc, service>>
      BY <1>1 DEF InitBridge, Shutdown
    <3>. QED
      BY <3>1, NoMove, SameOffer, SameKnown DEF service
  <2>2. initialized' = ~ initialized
    BY <1>1, Zenon DEF InitBridge, Shutdown
  <2>3. Lookup!OpenOrClose
    BY <2>1, <2>2
       DEF Lookup!OpenOrClose, Offered, Known, AskedFor, HeardOf, Replied, LookupTold, Answers
  <2>. QED
    BY <2>3 DEF Lookup!Next
<1>2. ASSUME NEW a \in Accounts, PublishPolicy(a) PROVE Lookup!Next
  <2>1. UNCHANGED <<initialized, Known, AskedFor, HeardOf, Replied, Answers>>
    BY <1>2, NoMove, SameKnown DEF PublishPolicy
  <2>2. Offered \subseteq Offered'
    <3>1. \A b \in Accounts : published[b] \in Nat /\ published'[b] \in Nat
                              /\ published[b] <= published'[b]
      BY <1>2, RiskAssumption DEF PublishPolicy, IInv, TypeOK
    <3>2. ASSUME NEW b \in Accounts, NEW policy \in Policy, policy.version <= published[b]
          PROVE  policy.version <= published'[b]
      BY <3>1, <3>2, RiskAssumption DEF Policy
    <3>. QED
      BY <3>2 DEF Offered
  <2>3. Lookup!Offer
    BY <2>1, <2>2 DEF Lookup!Offer, Offered, Known, AskedFor, HeardOf, Replied, LookupTold,
                               Answers
  <2>. QED
    BY <2>3 DEF Lookup!Next
<1>3. CASE \/ \E a \in Accounts : WithdrawPolicy(a)
           \/ \E o \in Orders : Expire(o)
           \/ \E c \in Calls : Serve(c)
           \/ UNCHANGED vars
  <2>1. UNCHANGED <<initialized, policy_cache, pc, operation, results, published>>
    BY <1>3 DEF WithdrawPolicy, Expire, Serve, vars, service
  <2>2. \A c \in Calls : rpc'[c] = "unsent" <=> rpc[c] = "unsent"
    BY <1>3 DEF WithdrawPolicy, Expire, Serve, vars, IInv, TypeOK
  <2>. QED
    BY <2>1, <2>2, NoMove, SameOffer, SameKnown DEF mapped
<1>4. ASSUME NEW c \in Calls, Step(c) PROVE Lookup!Next \/ UNCHANGED mapped
  BY <1>4, RpcStep, EndStep DEF Step
<1>. QED
  BY <1>1, <1>2, <1>3, <1>4, AskStep DEF Next, Service

\* The risk bridge answers every policy call as CachedLookup says.
THEOREM PoliciesLookedUp == Spec => PoliciesAreLookedUp
<1>1. Init => Lookup!Init
  <2> SUFFICES ASSUME Init PROVE Lookup!Init
    OBVIOUS
  <2>1. PolicyCallsMade = {} /\ \A c \in Calls : Heard(c) = "none"
    BY DEF Init, PolicyCallsMade, Heard
  <2>. QED
    BY <2>1 DEF Init, Lookup!Init
<1>. QED
  BY <1>1, InitOK, StepOK, LookupStep, PTL DEF Spec, PoliciesAreLookedUp, Lookup!Spec

-----------------------------------------------------------------------------
(* The calls about reservations: the values the refinement mapping gives to the variables of
   Reservations *)

OutcomeOf(c) == IF OrderCall(c) /\ rpc[c] = "served" THEN Outcome(c) ELSE NoReply
ToldTo(c)    == IF ~ OrderCall(c) THEN "idle" ELSE IF pc[c] = "done" THEN error_code[c] ELSE "asked"

KnownStates == [o \in Orders |-> KnownAs[reservations[o]]]
Requested   == [c \in Calls |-> IF OrderCall(c) THEN operation[c] ELSE NoOperation]
Outcomes    == [c \in Calls |-> OutcomeOf(c)]
Told        == [c \in Calls |-> ToldTo(c)]
ToldData    == [c \in Calls |-> IF OrderCall(c) THEN data[c] ELSE NoData]

ledgerMapped == <<initialized, KnownStates, Requested, Outcomes, Told, ToldData>>

\* The variables of Reservations under the refinement mapping.
LEMMA LedgerVars == Ledger!vars = ledgerMapped /\ (Ledger!vars)' = ledgerMapped'
  BY DEF Ledger!vars, ledgerMapped, KnownStates, Requested, Outcomes, Told, ToldData, OutcomeOf,
         ToldTo

\* The engine's words for the states of the service are different words.
LEMMA Words ==
  /\ KnownAs["none"] = "none" /\ KnownAs["reserved"] = "kReserved"
  /\ KnownAs["rejected"] = "kRejected" /\ KnownAs["released"] = "kReleased"
  /\ KnownAs["settled"] = "kSettled" /\ KnownAs["expired"] = "kExpired"
  /\ \A state \in States : /\ KnownAs[state] = "none" <=> state = "none"
                           /\ KnownAs[state] = "kReserved" <=> state = "reserved"
                           /\ state # "none" => KnownAs[state] = ToState(state)
<1>1. /\ KnownAs["none"] = "none" /\ KnownAs["reserved"] = "kReserved"
      /\ KnownAs["rejected"] = "kRejected" /\ KnownAs["released"] = "kReleased"
      /\ KnownAs["settled"] = "kSettled" /\ KnownAs["expired"] = "kExpired"
  BY DEF KnownAs
<1>2. ASSUME NEW state \in States
      PROVE  /\ KnownAs[state] = "none" <=> state = "none"
             /\ KnownAs[state] = "kReserved" <=> state = "reserved"
             /\ state # "none" => KnownAs[state] = ToState(state)
  BY <1>1 DEF States, ToState
<1>. QED
  BY <1>1, <1>2

\* The ledger changes with the reservations, state by state.
LEMMA LedgerMoves ==
  ASSUME TypeOK, NEW order \in Orders, NEW state \in States,
         reservations' = [reservations EXCEPT ![order] = state]
  PROVE  KnownStates' = [KnownStates EXCEPT ![order] = KnownAs[state]]
  BY DEF TypeOK, KnownStates

\* A call that keeps what it has is mapped to the same.
LEMMA SameMapped ==
  ASSUME NEW c \in Calls, Same(c)
  PROVE  /\ OrderCall(c)' <=> OrderCall(c)
         /\ OutcomeOf(c)' = OutcomeOf(c) /\ ToldTo(c)' = ToldTo(c)
<1>1. OrderCall(c)' <=> OrderCall(c)
  BY DEF Same, OrderCall, IsPolicy
<1>2. Outcome(c)' = Outcome(c)
  BY DEF Same, Outcome, Found, ReserveData, ReleaseData, QueryData, ListData
<1>. QED
  BY <1>1, <1>2 DEF Same, OutcomeOf, ToldTo

\* What a step does to the mapped variables when only the call c moves, an order call.
LEMMA OrderCallMoves ==
  ASSUME NEW c \in Calls, \A d \in Calls \ {c} : Same(d), OrderCall(c)'
  PROVE  /\ Requested' = [Requested EXCEPT ![c] = operation'[c]]
         /\ Outcomes' = [Outcomes EXCEPT ![c] = OutcomeOf(c)']
         /\ Told' = [Told EXCEPT ![c] = ToldTo(c)']
         /\ ToldData' = [ToldData EXCEPT ![c] = data'[c]]
<1>1. \A d \in Calls \ {c} : /\ OrderCall(d)' <=> OrderCall(d)
                             /\ OutcomeOf(d)' = OutcomeOf(d) /\ ToldTo(d)' = ToldTo(d)
                             /\ operation'[d] = operation[d] /\ data'[d] = data[d]
  BY SameMapped DEF Same
<1>. QED
  BY <1>1 DEF Requested, Outcomes, Told, ToldData

\* The policy calls are none of the ledger's.
LEMMA PolicyCallMoves ==
  ASSUME NEW c \in Calls, \A d \in Calls \ {c} : Same(d), ~ OrderCall(c), ~ OrderCall(c)'
  PROVE  UNCHANGED <<Requested, Outcomes, Told, ToldData>>
<1>1. \A d \in Calls \ {c} : /\ OrderCall(d)' <=> OrderCall(d)
                             /\ OutcomeOf(d)' = OutcomeOf(d) /\ ToldTo(d)' = ToldTo(d)
                             /\ operation'[d] = operation[d] /\ data'[d] = data[d]
  BY SameMapped DEF Same
<1>2. OutcomeOf(c)' = OutcomeOf(c) /\ ToldTo(c)' = ToldTo(c)
  BY DEF OutcomeOf, ToldTo
<1>. QED
  BY <1>1, <1>2 DEF Requested, Outcomes, Told, ToldData

\* The values of the mapped variables for an order call.
LEMMA OrderCallValues ==
  ASSUME NEW c \in Calls, OrderCall(c)
  PROVE  /\ Requested[c] = operation[c] /\ ToldData[c] = data[c]
         /\ Outcomes[c] = IF rpc[c] = "served" THEN Outcome(c) ELSE NoReply
         /\ Told[c] = IF pc[c] = "done" THEN error_code[c] ELSE "asked"
  BY DEF Requested, ToldData, Outcomes, Told, OutcomeOf, ToldTo

\* A call about a reservation is one of the ledger's.
LEMMA LedgerAsk ==
  ASSUME IInv, NEW c \in Calls, NEW request \in Operations, Call(c, request)
  PROVE  Ledger!Next \/ UNCHANGED ledgerMapped
<1>1. TypeOK /\ PlaceOK(c)
  BY DEF IInv, CallOK
<1>2. /\ operation' = [operation EXCEPT ![c] = request]
      /\ UNCHANGED <<initialized, policy_cache, reply, service>>
  BY DEF Call
<1>3. operation'[c] = request
  BY <1>1, <1>2 DEF TypeOK
<1>4. /\ pc[c] = "new" /\ data[c] = NoData /\ rpc[c] = "unsent" /\ error_code[c] = "kSuccess"
      /\ \A d \in Calls \ {c} : Same(d)
  BY <1>1, <1>2 DEF Call, Goto, Return, PlaceOK, TypeOK, results, Same
<1>5. ~ OrderCall(c) /\ UNCHANGED KnownStates
  BY <1>2, <1>4 DEF OrderCall, KnownStates, service
<1>6. CASE request.op = "GetAccountRiskPolicy"
  <2>1. ~ OrderCall(c)'
    BY <1>3, <1>6 DEF OrderCall, IsPolicy
  <2>. QED
    BY <1>2, <1>4, <1>5, <2>1, PolicyCallMoves DEF ledgerMapped
<1>7. CASE request.op # "GetAccountRiskPolicy"
  <2>1. /\ pc'[c] = IF initialized THEN "rpc" ELSE "done"
        /\ rpc'[c] = IF initialized THEN "sent" ELSE "unsent"
        /\ ~ initialized => error_code'[c] = "kNotInitialized"
        /\ data'[c] = NoData
    BY <1>1, <1>4, <1>7 DEF Call, Goto, Return, TypeOK, results
  <2>2. OrderCall(c)'
    BY <1>3, <1>7, <2>1 DEF OrderCall, IsPolicy
  <2>3. OutcomeOf(c)' = NoReply /\ ToldTo(c)' = IF initialized THEN "asked" ELSE "kNotInitialized"
    BY <2>1, <2>2 DEF OutcomeOf, ToldTo
  <2>4. Outcomes[c] = NoReply /\ Told[c] = "idle" /\ ToldData[c] = NoData
    BY <1>5 DEF Outcomes, Told, ToldData, OutcomeOf, ToldTo
  <2>5. /\ Requested' = [Requested EXCEPT ![c] = request]
        /\ Outcomes' = [Outcomes EXCEPT ![c] = Outcomes[c]]
        /\ Told' = [Told EXCEPT ![c] = IF initialized THEN "asked" ELSE "kNotInitialized"]
        /\ ToldData' = [ToldData EXCEPT ![c] = ToldData[c]]
    BY <1>3, <1>4, <2>1, <2>2, <2>3, <2>4, OrderCallMoves
  <2>6. UNCHANGED <<Outcomes, ToldData>>
    BY <2>5 DEF Outcomes, ToldData
  <2>7. Ledger!Ask(c, request)
    BY <1>2, <1>5, <2>4, <2>5, <2>6
       DEF Ledger!Ask, KnownStates, Requested, Outcomes, Told, ToldData, OutcomeOf, ToldTo
  <2>. QED
    BY <1>7, <2>7 DEF Ledger!Next
<1>. QED
  BY <1>6, <1>7

\* The answers about reservations are found, all but that of a query for none.
LEMMA RepliesFound ==
  /\ \A decision : Found([decision |-> decision])
  /\ \A released : Found([released |-> released])
  /\ \A status : Found([status |-> status])
  /\ \A orders : Found([orders |-> orders])
  /\ ~ Found([not_found |-> TRUE])
<1>1. ASSUME NEW x PROVE Found([decision |-> x])
  BY DEF Found
<1>2. ASSUME NEW x PROVE Found([released |-> x])
  BY DEF Found
<1>3. ASSUME NEW x PROVE Found([status |-> x])
  BY DEF Found
<1>4. ASSUME NEW x PROVE Found([orders |-> x])
  BY DEF Found
<1>5. ~ Found([not_found |-> TRUE])
  BY DEF Found
<1>. QED
  BY <1>1, <1>2, <1>3, <1>4, <1>5

\* A request about a reservation is served: its outcome is decided, here and now.
LEMMA LedgerDecides ==
  ASSUME IInv, NEW c \in Calls, Serve(c), ~ IsPolicy(c),
         NEW op \in {"Reserve", "Release", "QueryReservation", "ListActiveReservations"},
         operation[c].op = op, NEW code, NEW value,
         Outcome(c)' = [code |-> code, data |-> value]
  PROVE  Ledger!Decide(c, op, code, value) /\ Requested[c] = operation[c]
<1>1. TypeOK /\ PlaceOK(c) /\ ResultOK(c)
  BY DEF IInv, CallOK
<1>2. /\ UNCHANGED <<initialized, policy_cache, pc, operation, results, policies, published>>
      /\ rpc[c] = "sent" /\ rpc' = [rpc EXCEPT ![c] = "served"]
  BY DEF Serve
<1>3. OrderCall(c) /\ OrderCall(c)'
  BY <1>1, <1>2 DEF PlaceOK, OrderCall, IsPolicy
<1>4. \A d \in Calls \ {c} : Same(d)
  <2>1. \E answer \in Replies : reply' = [reply EXCEPT ![c] = answer]
    BY <1>1, ServeFacts DEF IInv
  <2>. QED
    BY <1>1, <1>2, <2>1 DEF TypeOK, Same, results
<1>5. /\ Requested[c] = operation[c] /\ Outcomes[c] = NoReply
      /\ Told[c] = IF pc[c] = "done" THEN error_code[c] ELSE "asked"
  BY <1>2, <1>3, OrderCallValues
<1>6. Told[c] \notin {"idle", "kNotInitialized"}
  BY <1>1, <1>2, <1>5 DEF TypeOK, ErrorCodes, ResultOK
<1>7. UNCHANGED <<Requested, Told, ToldData>>
  <2>1. \A d \in Calls : (OrderCall(d)' <=> OrderCall(d)) /\ ToldTo(d)' = ToldTo(d)
    BY <1>2 DEF OrderCall, IsPolicy, ToldTo, results
  <2>. QED
    BY <1>2, <2>1 DEF Requested, Told, ToldData, results
<1>8. OutcomeOf(c)' = [code |-> code, data |-> value]
  BY <1>1, <1>2, <1>3 DEF OutcomeOf, TypeOK
<1>9. Outcomes' = [Outcomes EXCEPT ![c] = [code |-> code, data |-> value]]
  BY <1>3, <1>4, <1>8, OrderCallMoves
<1>10. Ledger!Decide(c, op, code, value)
  BY <1>2, <1>5, <1>6, <1>7, <1>9
     DEF Ledger!Decide, Requested, Outcomes, Told, ToldData, OutcomeOf, ToldTo
<1>. QED
  BY <1>5, <1>10

\* A Reserve is decided.
LEMMA LedgerReserve ==
  ASSUME IInv, NEW c \in Calls, Serve(c), operation[c].op = "Reserve"
  PROVE  \E state \in {"kReserved", "kRejected", "kUnspecified"} : Ledger!Reserve(c, state)
<1> DEFINE order == operation[c].order
<1>1. TypeOK /\ PlaceOK(c) /\ UNCHANGED operation /\ ~ IsPolicy(c) /\ ServeReserve(c)
  BY DEF IInv, CallOK, Serve, IsPolicy
<1>2. order \in Orders /\ reservations[order] \in States
  <2>1. operation[c] \in Operations
    BY ServeFacts, <1>1 DEF IInv
  <2>. QED
    BY <1>1, <2>1, RequestParts DEF TypeOK
<1>3. KnownStates[order] = KnownAs[reservations[order]]
  BY <1>2 DEF KnownStates
<1>4. ASSUME NEW decision \in {"APPROVED", "REJECTED", "UNSPECIFIED"},
             reply' = [reply EXCEPT ![c] = [decision |-> decision]]
      PROVE  Outcome(c)' = [code |-> "kSuccess", data |-> [state |-> ToReservationState(decision)]]
  <2>1. reply'[c] = [decision |-> decision]
    BY <1>1, <1>4, AnswerTypes DEF TypeOK
  <2>. QED
    BY <1>1, <2>1, RepliesFound DEF Outcome, ReserveData
<1>5. /\ ToReservationState("APPROVED") = "kReserved"
      /\ ToReservationState("REJECTED") = "kRejected"
      /\ ToReservationState("UNSPECIFIED") = "kUnspecified"
  BY DEF ToReservationState
<1>6. CASE reservations[order] = "none" /\ Answer(c, order, "reserved", [decision |-> "APPROVED"])
  <2>1. KnownStates' = [KnownStates EXCEPT ![order] = "kReserved"] /\ KnownStates[order] = "none"
    BY <1>1, <1>2, <1>3, <1>6, LedgerMoves, Words DEF Answer, States
  <2>2. Ledger!Decide(c, "Reserve", "kSuccess", [state |-> "kReserved"]) /\ Requested[c] = operation[c]
    BY <1>1, <1>4, <1>5, <1>6, LedgerDecides DEF Answer
  <2>. QED
    BY <2>1, <2>2 DEF Ledger!Reserve, KnownStates, Requested
<1>7. CASE reservations[order] = "none" /\ Answer(c, order, "rejected", [decision |-> "REJECTED"])
  <2>1. KnownStates' = [KnownStates EXCEPT ![order] = "kRejected"] /\ KnownStates[order] = "none"
    BY <1>1, <1>2, <1>3, <1>7, LedgerMoves, Words DEF Answer, States
  <2>2. Ledger!Decide(c, "Reserve", "kSuccess", [state |-> "kRejected"]) /\ Requested[c] = operation[c]
    BY <1>1, <1>4, <1>5, <1>7, LedgerDecides DEF Answer
  <2>. QED
    BY <2>1, <2>2 DEF Ledger!Reserve, KnownStates, Requested
<1>8. CASE reservations[order] = "reserved" /\ Look(c, [decision |-> "APPROVED"])
  <2>1. UNCHANGED KnownStates /\ KnownStates[order] = "kReserved"
    BY <1>3, <1>8, Words DEF Look, KnownStates
  <2>2. Ledger!Decide(c, "Reserve", "kSuccess", [state |-> "kReserved"]) /\ Requested[c] = operation[c]
    BY <1>1, <1>4, <1>5, <1>8, LedgerDecides DEF Look
  <2>. QED
    BY <2>1, <2>2 DEF Ledger!Reserve, KnownStates, Requested
<1>9. CASE reservations[order] # "reserved" /\ Look(c, [decision |-> "UNSPECIFIED"])
  <2>1. UNCHANGED KnownStates /\ KnownStates[order] # "kReserved"
    BY <1>2, <1>3, <1>9, Words DEF Look, KnownStates
  <2>2. Ledger!Decide(c, "Reserve", "kSuccess", [state |-> "kUnspecified"]) /\ Requested[c] = operation[c]
    BY <1>1, <1>4, <1>5, <1>9, LedgerDecides DEF Look
  <2>. QED
    BY <2>1, <2>2 DEF Ledger!Reserve, KnownStates, Requested
<1>. QED
  BY <1>1, <1>6, <1>7, <1>8, <1>9 DEF ServeReserve

\* A Release is decided.
LEMMA LedgerRelease ==
  ASSUME IInv, NEW c \in Calls, Serve(c), operation[c].op = "Release"
  PROVE  \E state \in {"kReleased", "kSettled", "kUnspecified"} : Ledger!Release(c, state)
<1> DEFINE order == operation[c].order
           state == IF operation[c].reason = "kSettled" THEN "settled" ELSE "released"
<1>1. TypeOK /\ PlaceOK(c) /\ UNCHANGED operation /\ ~ IsPolicy(c) /\ ServeRelease(c)
  BY DEF IInv, CallOK, Serve, IsPolicy
<1>2. /\ order \in Orders /\ reservations[order] \in States
      /\ operation[c].reason \in {"kCanceled", "kSettled"}
  <2>1. operation[c] \in Operations
    BY ServeFacts, <1>1 DEF IInv
  <2>. QED
    BY <1>1, <2>1, RequestParts DEF TypeOK
<1>3. KnownStates[order] = KnownAs[reservations[order]]
  BY <1>2 DEF KnownStates
<1>4. ASSUME NEW released \in BOOLEAN, reply' = [reply EXCEPT ![c] = [released |-> released]]
      PROVE  Outcome(c)' = [code |-> "kSuccess",
                            data |-> [state |-> ReleaseState(released, operation[c].reason)]]
  <2>1. reply'[c] = [released |-> released]
    BY <1>1, <1>4, AnswerTypes DEF TypeOK
  <2>. QED
    BY <1>1, <2>1, RepliesFound DEF Outcome, ReleaseData
<1>5. /\ ReleaseState(TRUE, operation[c].reason) = KnownAs[state]
      /\ ReleaseState(FALSE, operation[c].reason) = "kUnspecified"
      /\ state = IF ToProtoReleaseReason(operation[c].reason) = "SETTLED" THEN "settled"
                 ELSE "released"
      /\ KnownAs[state] = IF operation[c].reason = "kSettled" THEN "kSettled" ELSE "kReleased"
  BY <1>2, Words DEF ReleaseState, ToProtoReleaseReason
<1>6. CASE reservations[order] = "reserved" /\ Answer(c, order, state, [released |-> TRUE])
  <2>1. KnownStates' = [KnownStates EXCEPT ![order] = KnownAs[state]] /\ KnownStates[order] = "kReserved"
    BY <1>1, <1>2, <1>3, <1>6, LedgerMoves, Words DEF Answer, States
  <2>2. Outcome(c)' = [code |-> "kSuccess", data |-> [state |-> KnownAs[state]]]
    BY <1>4, <1>5, <1>6 DEF Answer
  <2>3. PICK word : word = KnownAs[state]
    OBVIOUS
  <2>4. /\ KnownStates' = [KnownStates EXCEPT ![order] = word]
        /\ word = IF operation[c].reason = "kSettled" THEN "kSettled" ELSE "kReleased"
    BY <1>5, <2>1, <2>3
  <2>5. Outcome(c)' = [code |-> "kSuccess", data |-> [state |-> word]]
    BY <2>2, <2>3
  <2> HIDE DEF state
  <2>6. Ledger!Decide(c, "Release", "kSuccess", [state |-> word]) /\ Requested[c] = operation[c]
    BY <1>1, <2>5, LedgerDecides
  <2>7. Ledger!Release(c, word)
    BY <2>1, <2>4, <2>6 DEF Ledger!Release, KnownStates, Requested
  <2>8. word \in {"kReleased", "kSettled", "kUnspecified"}
    BY <2>4
  <2>. QED
    BY <2>7, <2>8
<1>7. CASE reservations[order] # "reserved" /\ Look(c, [released |-> FALSE])
  <2>1. UNCHANGED KnownStates /\ KnownStates[order] # "kReserved"
    BY <1>2, <1>3, <1>7, Words DEF Look, KnownStates
  <2>2. Ledger!Decide(c, "Release", "kSuccess", [state |-> "kUnspecified"]) /\ Requested[c] = operation[c]
    BY <1>1, <1>4, <1>5, <1>7, LedgerDecides DEF Look
  <2>. QED
    BY <2>1, <2>2 DEF Ledger!Release, KnownStates, Requested
<1>. QED
  BY <1>1, <1>5, <1>6, <1>7 DEF ServeRelease

\* A query is decided.
LEMMA LedgerQuery ==
  ASSUME IInv, NEW c \in Calls, Serve(c), operation[c].op = "QueryReservation"
  PROVE  Ledger!Query(c)
<1> DEFINE order == operation[c].order
           state == reservations[order]
<1>1. TypeOK /\ PlaceOK(c) /\ UNCHANGED operation /\ ~ IsPolicy(c) /\ ServeQuery(c)
  BY DEF IInv, CallOK, Serve, IsPolicy
<1>2. order \in Orders /\ state \in States
  <2>1. operation[c] \in Operations
    BY ServeFacts, <1>1 DEF IInv
  <2>. QED
    BY <1>1, <2>1, RequestParts DEF TypeOK
<1>3. KnownStates[order] = KnownAs[state] /\ UNCHANGED KnownStates
  BY <1>1, <1>2 DEF KnownStates, ServeQuery, Look
<1>4. CASE state = "none"
  <2>1. reply'[c] = [not_found |-> TRUE]
    BY <1>1, <1>4 DEF ServeQuery, Look, TypeOK
  <2>2. Outcome(c)' = [code |-> "kNotFound", data |-> NoData]
    BY <2>1, RepliesFound DEF Outcome
  <2>3. /\ Ledger!Decide(c, "QueryReservation", "kNotFound", NoData)
        /\ Requested[c] = operation[c]
    BY <1>1, <2>2, LedgerDecides
  <2>4. KnownStates[order] = "none"
    BY <1>3, <1>4, Words
  <2>. QED
    BY <1>3, <2>3, <2>4 DEF Ledger!Query, KnownStates, Requested
<1>5. CASE state # "none"
  <2>1. reply'[c] = [status |-> state]
    BY <1>1, <1>5 DEF ServeQuery, Look, TypeOK
  <2>2. Found(reply[c])' /\ reply'[c].status = state
    BY <2>1, RepliesFound
  <2>3. Outcome(c)' = [code |-> "kSuccess", data |-> [state |-> ToState(state)]]
    BY <1>1, <2>2 DEF Outcome, QueryData
  <2>4. PICK word : word = KnownStates[order]
    OBVIOUS
  <2>5. ToState(state) = word /\ word # "none"
    BY <1>2, <1>3, <1>5, <2>4, Words
  <2>6. /\ Ledger!Decide(c, "QueryReservation", "kSuccess", [state |-> word])
        /\ Requested[c] = operation[c]
    BY <1>1, <2>3, <2>5, LedgerDecides
  <2>. QED
    BY <1>3, <2>4, <2>5, <2>6 DEF Ledger!Query, Ledger!Decide, KnownStates, Requested
<1>. QED
  BY <1>4, <1>5

\* A list is decided.
LEMMA LedgerList ==
  ASSUME IInv, NEW c \in Calls, Serve(c), operation[c].op = "ListActiveReservations"
  PROVE  Ledger!List(c)
<1> DEFINE active == {o \in Orders : /\ OrderAccount[o] = operation[c].account
                                     /\ reservations[o] = "reserved"}
<1>1. TypeOK /\ PlaceOK(c) /\ UNCHANGED operation /\ ~ IsPolicy(c) /\ ServeList(c)
  BY DEF IInv, CallOK, Serve, IsPolicy
<1>2. UNCHANGED KnownStates
  BY <1>1 DEF KnownStates, ServeList, Look
<1>3. reply'[c] = [orders |-> active]
  BY <1>1 DEF ServeList, Look, TypeOK
<1>4. PICK held : held = {o \in Orders : /\ OrderAccount[o] = operation[c].account
                                        /\ KnownStates[o] = "kReserved"}
  OBVIOUS
<1>8. held = active
  BY <1>1, <1>4, Words DEF KnownStates, TypeOK
<1> HIDE DEF active
<1>5. Outcome(c)' = [code |-> "kSuccess", data |-> [orders |-> held]]
  BY <1>1, <1>3, <1>8, RepliesFound DEF Outcome, ListData
<1>6. /\ Ledger!Decide(c, "ListActiveReservations", "kSuccess", [orders |-> held])
      /\ Requested[c] = operation[c]
  BY <1>1, <1>5, LedgerDecides
<1>7. held = {o \in Orders : /\ OrderAccount[o] = Requested[c].account
                             /\ KnownStates[o] = "kReserved"}
  BY <1>4, <1>6
<1>. QED
  BY <1>2, <1>6, <1>7 DEF Ledger!List, Ledger!Decide, KnownStates, Requested

\* What a served request comes to is an outcome.
LEMMA OutcomeForm ==
  ASSUME IInv, NEW c \in Calls, OrderCall(c), rpc[c] = "served"
  PROVE  Outcome(c) # NoReply
<1>1. TypeOK /\ CallOK(c) /\ operation[c] \in Operations
  BY DEF IInv, CallOK, PlaceOK, OrderCall
<1>2. CASE ~ Found(reply[c])
  <2>1. NoData \in Values /\ "kNotFound" \in ErrorCodes
    BY DEF Values, ErrorCodes
  <2>. QED
    BY <1>2, <2>1, NoReplyAssumption DEF Outcome
<1>3. ASSUME Found(reply[c]), NEW value \in Values, Outcome(c) = [code |-> "kSuccess", data |-> value]
      PROVE  Outcome(c) # NoReply
  <2>1. "kSuccess" \in ErrorCodes
    BY DEF ErrorCodes
  <2>. QED
    BY <1>3, <2>1, NoReplyAssumption
<1>4. CASE Found(reply[c])
  <2>1. Op(c) \in {"Reserve", "Release", "QueryReservation", "ListActiveReservations"}
    BY <1>1, RequestParts DEF Op, OrderCall, IsPolicy
  <2>2. CASE Op(c) = "Reserve"
    BY <1>1, <1>3, <1>4, <2>2, AnswersHaveForm DEF Outcome, Op
  <2>3. CASE Op(c) = "Release"
    BY <1>1, <1>3, <1>4, <2>3, AnswersHaveForm DEF Outcome, Op
  <2>4. CASE Op(c) = "QueryReservation"
    BY <1>1, <1>3, <1>4, <2>4, AnswersHaveForm DEF Outcome, Op
  <2>5. CASE Op(c) = "ListActiveReservations"
    BY <1>1, <1>3, <1>4, <2>5, AnswersHaveForm DEF Outcome, Op
  <2>. QED
    BY <2>1, <2>2, <2>3, <2>4, <2>5
<1>. QED
  BY <1>2, <1>4

\* A call about a reservation returns what was decided of it, or kTimeout.
LEMMA LedgerTell ==
  ASSUME IInv, NEW c \in Calls, ~ IsPolicy(c), RpcFails(c) \/ RpcNotFound(c) \/ RpcAnswered(c)
  PROVE  Ledger!Tell(c) \/ Ledger!GiveUp(c)
<1>1. TypeOK /\ PlaceOK(c)
  BY DEF IInv, CallOK
<1>2. /\ pc[c] = "rpc" /\ pc' = [pc EXCEPT ![c] = "done"]
      /\ UNCHANGED <<initialized, operation, rpc, reply, service>>
      /\ \A d \in Calls \ {c} : rpc_status'[d] = rpc_status[d]
  BY <1>1 DEF TypeOK, RpcEnds, RpcFails, RpcNotFound, RpcAnswered, Succeed, Return, Goto
<1>3. PICK code, value :
        /\ error_code' = [error_code EXCEPT ![c] = code]
        /\ data' = [data EXCEPT ![c] = value]
        /\ \/ code = "kTimeout" /\ value = NoData
           \/ rpc[c] = "served" /\ Outcome(c) = [code |-> code, data |-> value]
  <2>1. CASE RpcFails(c)
    BY <2>1 DEF RpcFails, Return
  <2>2. CASE RpcNotFound(c)
    BY <2>2 DEF RpcNotFound, RpcEnds, Return, Outcome
  <2>3. CASE RpcAnswered(c)
    <3>1. Found(reply[c]) /\ rpc[c] = "served"
      BY <2>3 DEF RpcAnswered, RpcEnds
    <3>2. CASE Succeed(c, "Reserve", ReserveData(c))
      BY <3>1, <3>2 DEF Succeed, Return, Outcome
    <3>3. CASE Succeed(c, "Release", ReleaseData(c))
      BY <3>1, <3>3 DEF Succeed, Return, Outcome
    <3>4. CASE Succeed(c, "QueryReservation", QueryData(c))
      BY <3>1, <3>4 DEF Succeed, Return, Outcome
    <3>5. CASE Succeed(c, "ListActiveReservations", ListData(c))
      BY <3>1, <3>5 DEF Succeed, Return, Outcome
    <3>. QED
      BY <2>3, <3>2, <3>3, <3>4, <3>5 DEF RpcAnswered
  <2>. QED
    BY <2>1, <2>2, <2>3
<1>4. \A d \in Calls \ {c} : Same(d)
  BY <1>1, <1>2, <1>3 DEF TypeOK, Same
<1>5. pc'[c] = "done" /\ error_code'[c] = code /\ data'[c] = value
  BY <1>1, <1>2, <1>3 DEF TypeOK
<1>6. OrderCall(c) /\ OrderCall(c)'
  BY <1>2, <1>5 DEF OrderCall, IsPolicy
<1>7. /\ Told[c] = "asked" /\ ToldData[c] = NoData /\ Requested[c] = operation[c]
      /\ Outcomes[c] = IF rpc[c] = "served" THEN Outcome(c) ELSE NoReply
  BY <1>1, <1>2, <1>6, OrderCallValues DEF PlaceOK
<1>8. OutcomeOf(c)' = OutcomeOf(c) /\ ToldTo(c)' = code
  <2>1. Outcome(c)' = Outcome(c)
    BY <1>2 DEF Outcome, Found, ReserveData, ReleaseData, QueryData, ListData
  <2>. QED
    BY <1>2, <1>5, <1>6, <2>1 DEF OutcomeOf, ToldTo
<1>9. /\ Requested' = [Requested EXCEPT ![c] = Requested[c]]
      /\ Outcomes' = [Outcomes EXCEPT ![c] = Outcomes[c]]
      /\ Told' = [Told EXCEPT ![c] = code]
      /\ ToldData' = [ToldData EXCEPT ![c] = value]
  <2>1. Outcomes[c] = OutcomeOf(c) /\ Requested[c] = operation'[c]
    BY <1>2, <1>7 DEF Outcomes
  <2>. QED
    BY <1>4, <1>5, <1>6, <1>8, <2>1, OrderCallMoves
<1>10. UNCHANGED <<initialized, KnownStates, Requested, Outcomes>>
  BY <1>2, <1>9 DEF service, KnownStates, Requested, Outcomes
<1>11. CASE code = "kTimeout" /\ value = NoData
  <2>1. UNCHANGED ToldData
    BY <1>7, <1>9, <1>11 DEF ToldData
  <2>2. Ledger!GiveUp(c)
    BY <1>7, <1>9, <1>10, <1>11, <2>1
       DEF Ledger!GiveUp, KnownStates, Requested, Outcomes, Told, ToldData, OutcomeOf, ToldTo
  <2>. QED
    BY <2>2
<1>12. CASE rpc[c] = "served" /\ Outcome(c) = [code |-> code, data |-> value]
  <2>1. Outcomes[c] # NoReply /\ Outcomes[c] = [code |-> code, data |-> value]
    BY <1>6, <1>7, <1>12, OutcomeForm
  <2>2. Outcomes[c].code = code /\ Outcomes[c].data = value
    BY <2>1
  <2>3. /\ Told' = [Told EXCEPT ![c] = Outcomes[c].code]
        /\ ToldData' = [ToldData EXCEPT ![c] = Outcomes[c].data]
    BY <1>9, <2>2
  <2>4. Ledger!Tell(c)
    BY <1>7, <1>10, <2>1, <2>3
       DEF Ledger!Tell, KnownStates, Requested, Outcomes, Told, ToldData, OutcomeOf, ToldTo
  <2>. QED
    BY <2>4
<1>. QED
  BY <1>3, <1>11, <1>12

\* A step of a policy call is none of the ledger's.
LEMMA LedgerPolicyStep ==
  ASSUME IInv, NEW c \in Calls, IsPolicy(c), Step(c) \/ Serve(c)
  PROVE  UNCHANGED ledgerMapped
<1>1. TypeOK
  BY DEF IInv
<1>2. UNCHANGED <<initialized, operation, reservations>>
  BY DEF Step, RpcFails, RpcNotFound, RpcAnswered, Succeed, StorePolicy, ReadCache, Serve,
         ServePolicy, Look, IsPolicy, service
<1>3. \A d \in Calls \ {c} : Same(d)
  <2>1. CASE Step(c)
    BY <1>1, <2>1 DEF Step, RpcFails, RpcNotFound, RpcAnswered, RpcEnds, FallBack, Succeed,
                      StorePolicy, ReadCache, Return, Goto, TypeOK, Same
  <2>2. CASE Serve(c)
    BY <1>1, <2>2 DEF Serve, ServePolicy, Look, IsPolicy, TypeOK, Same, results
  <2>. QED
    BY <2>1, <2>2
<1>4. ~ OrderCall(c) /\ ~ OrderCall(c)'
  BY <1>2 DEF OrderCall, IsPolicy
<1>. QED
  BY <1>2, <1>3, <1>4, PolicyCallMoves DEF ledgerMapped, KnownStates

\* When no call moves, what the calls are mapped to stays.
LEMMA CallsStayMapped ==
  ASSUME UNCHANGED <<pc, operation, results, rpc, reply>>
  PROVE  UNCHANGED <<Requested, Outcomes, Told, ToldData>>
<1>1. \A c \in Calls : Same(c)
  BY DEF Same, results
<1>2. \A c \in Calls : /\ OrderCall(c)' <=> OrderCall(c)
                       /\ OutcomeOf(c)' = OutcomeOf(c) /\ ToldTo(c)' = ToldTo(c)
  BY <1>1, SameMapped
<1>. QED
  BY <1>2 DEF Requested, Outcomes, Told, ToldData, results

\* Every step of the bridge is one of the ledger, or is none of its business.
LEMMA LedgerStep == IInv /\ [Next]_vars => [Ledger!Next]_(Ledger!vars)
<1> SUFFICES ASSUME IInv, [Next]_vars PROVE Ledger!Next \/ UNCHANGED ledgerMapped
  BY LedgerVars
<1>0. TypeOK
  BY DEF IInv
<1>1. CASE InitBridge \/ Shutdown
  <2>1. UNCHANGED <<KnownStates, Requested, Outcomes, Told, ToldData>>
    <3>1. UNCHANGED <<pc, operation, results, rpc, reply, service>>
      BY <1>1 DEF InitBridge, Shutdown
    <3>. QED
      BY <3>1, CallsStayMapped DEF KnownStates, service
  <2>2. initialized' = ~ initialized
    BY <1>1, Zenon DEF InitBridge, Shutdown
  <2>3. \A c \in Calls : Told[c] # "asked"
    <3>1. \A c \in Calls : pc[c] \in {"new", "done"} /\ error_code[c] # "asked"
      BY <1>0, <1>1 DEF InitBridge, Shutdown, UnderWay, TypeOK, ErrorCodes
    <3>. QED
      BY <3>1 DEF Told, ToldTo, OrderCall
  <2>4. Ledger!OpenOrClose
    BY <2>1, <2>2, <2>3
       DEF Ledger!OpenOrClose, KnownStates, Requested, Outcomes, Told, ToldData, OutcomeOf, ToldTo
  <2>. QED
    BY <2>4 DEF Ledger!Next
<1>2. ASSUME NEW o \in Orders, Expire(o) PROVE Ledger!Next
  <2>1. UNCHANGED <<initialized, Requested, Outcomes, Told, ToldData>>
    BY <1>2, CallsStayMapped DEF Expire
  <2>2. KnownStates[o] = "kReserved" /\ KnownStates' = [KnownStates EXCEPT ![o] = "kExpired"]
    <3>1. reservations[o] = "reserved" /\ reservations' = [reservations EXCEPT ![o] = "expired"]
      BY <1>2 DEF Expire
    <3>2. "expired" \in States
      BY DEF States
    <3>3. KnownStates[o] = "kReserved"
      BY <3>1, Words DEF KnownStates
    <3>. QED
      BY <1>0, <3>1, <3>2, <3>3, LedgerMoves, Words
  <2>3. Ledger!Lapse(o)
    BY <2>1, <2>2
       DEF Ledger!Lapse, KnownStates, Requested, Outcomes, Told, ToldData, OutcomeOf, ToldTo
  <2>. QED
    BY <2>3 DEF Ledger!Next
<1>3. CASE \/ \E a \in Accounts : PublishPolicy(a) \/ WithdrawPolicy(a)
           \/ UNCHANGED vars
  <2>1. UNCHANGED <<initialized, pc, operation, results, rpc, reply, reservations>>
    BY <1>3 DEF PublishPolicy, WithdrawPolicy, vars, service
  <2>. QED
    BY <2>1, CallsStayMapped DEF ledgerMapped, KnownStates
<1>4. ASSUME NEW c \in Calls, Serve(c) PROVE Ledger!Next \/ UNCHANGED ledgerMapped
  <2>1. CASE IsPolicy(c)
    BY <1>4, <2>1, LedgerPolicyStep
  <2>2. CASE operation[c].op = "Reserve"
    BY <1>4, <2>2, LedgerReserve DEF Ledger!Next
  <2>3. CASE operation[c].op = "Release"
    BY <1>4, <2>3, LedgerRelease DEF Ledger!Next
  <2>4. CASE operation[c].op = "QueryReservation"
    BY <1>4, <2>4, LedgerQuery DEF Ledger!Next
  <2>5. CASE operation[c].op = "ListActiveReservations"
    BY <1>4, <2>5, LedgerList DEF Ledger!Next
  <2>. QED
    BY <1>4, <2>1, <2>2, <2>3, <2>4, <2>5 DEF Serve, IsPolicy
<1>5. ASSUME NEW c \in Calls, Step(c) PROVE Ledger!Next \/ UNCHANGED ledgerMapped
  <2>1. CASE IsPolicy(c)
    BY <1>5, <2>1, LedgerPolicyStep
  <2>2. CASE ~ IsPolicy(c) /\ (RpcFails(c) \/ RpcNotFound(c) \/ RpcAnswered(c))
    BY <2>2, LedgerTell DEF Ledger!Next
  <2>3. CASE StorePolicy(c) \/ ReadCache(c)
    <3>1. IsPolicy(c)
      BY <2>3 DEF IInv, CallOK, PlaceOK, StorePolicy, ReadCache, Return, Goto
    <3>. QED
      BY <2>1, <3>1
  <2>. QED
    BY <1>5, <2>1, <2>2, <2>3 DEF Step
<1>. QED
  BY <1>1, <1>2, <1>3, <1>4, <1>5, LedgerAsk DEF Next, Service

\* Whatever the network loses or delays, each request about a reservation is decided
\* at one instant, once at most, and its caller is told that decision or none.
THEOREM ReservationsDecidedOnce == Spec => ReservationsAreDecidedOnce
<1>1. Init => Ledger!Init
  <2> SUFFICES ASSUME Init PROVE Ledger!Init
    OBVIOUS
  <2>1. \A c \in Calls : ~ OrderCall(c)
    BY DEF Init, OrderCall
  <2>2. KnownAs["none"] = "none"
    BY Words
  <2>. QED
    BY <2>1, <2>2 DEF Init, Ledger!Init
<1>. QED
  BY <1>1, InitOK, StepOK, LedgerStep, PTL DEF Spec, ReservationsAreDecidedOnce, Ledger!Spec

-----------------------------------------------------------------------------
(* One reader *)

OneReader == MaxThreads = 1

OneUnderWay == \A c, d \in UnderWay : c = d

\* A policy the service has is the last it has published.
PublishedOK == \A a \in Accounts : policies[a] \in {0, published[a]}

\* The cache has the newest policy that was given, ...
CacheOK == \A a \in DOMAIN policy_cache : policy_cache[a].version <= published[a]

GivenOK ==
  \A c \in Succeeded("GetAccountRiskPolicy") :
    /\ data[c] \in Policy
    /\ operation[c].account \in DOMAIN policy_cache
    /\ data[c].version <= policy_cache[operation[c].account].version

\* ... and what the call under way has been answered is at least as new.
NewestOK ==
  \A c \in UnderWay :
    /\ pc[c] # "cache" /\ IsPolicy(c) /\ rpc[c] = "served" /\ Found(reply[c])
    /\ operation[c].account \in DOMAIN policy_cache
    => policy_cache[operation[c].account].version <= reply[c].policy.version

ReaderInv == OneUnderWay /\ PublishedOK /\ CacheOK /\ GivenOK /\ NewestOK

\* What the service does by itself.
LEMMA ReaderAlone ==
  ASSUME TypeOK, TypeOK', ReaderInv, UNCHANGED <<policy_cache, pc, operation, results, rpc, reply>>,
         PublishedOK', \A a \in Accounts : published[a] <= published'[a]
  PROVE  ReaderInv'
<1>1. UnderWay' = UnderWay /\ OneUnderWay'
  BY DEF UnderWay, OneUnderWay, ReaderInv
<1>2. CacheOK'
  <2> SUFFICES ASSUME NEW a \in DOMAIN policy_cache
               PROVE  policy_cache[a].version <= published'[a]
    BY DEF CacheOK
  <2>1. policy_cache[a].version \in Nat /\ published[a] \in Nat /\ published'[a] \in Nat
        /\ a \in Accounts
    BY RiskAssumption DEF TypeOK, Policy
  <2>2. policy_cache[a].version <= published[a]
    BY DEF ReaderInv, CacheOK
  <2>. QED
    BY <2>1, <2>2
<1>3. GivenOK'
  BY DEF ReaderInv, GivenOK, Succeeded, results
<1>4. NewestOK'
  BY <1>1 DEF ReaderInv, NewestOK, IsPolicy
<1>. QED
  BY <1>1, <1>2, <1>3, <1>4 DEF ReaderInv

\* The service answers a policy call with the last policy it has published.
LEMMA ReaderServe ==
  ASSUME IInv, ReaderInv, NEW c \in Calls, Serve(c)
  PROVE  ReaderInv'
<1>1. UNCHANGED <<initialized, policy_cache, pc, operation, results, policies, published>>
  BY DEF Serve
<1>2. UnderWay' = UnderWay
  BY <1>1 DEF UnderWay
<1>3. OneUnderWay' /\ PublishedOK' /\ CacheOK' /\ GivenOK'
  BY <1>1, <1>2 DEF ReaderInv, OneUnderWay, PublishedOK, CacheOK, GivenOK, Succeeded, results
<1>4. ASSUME NEW d \in UnderWay, d # c PROVE rpc'[d] = rpc[d] /\ reply'[d] = reply[d]
  BY <1>4 DEF Serve, ServePolicy, ServeReserve, ServeRelease, ServeQuery, ServeList, Look,
              Answer, IInv, TypeOK, UnderWay
<1>5. ASSUME IsPolicy(c), Found(reply'[c]), operation[c].account \in DOMAIN policy_cache
      PROVE  policy_cache[operation[c].account].version <= reply'[c].policy.version
  <2> DEFINE a == operation[c].account
  <2>1. ServePolicy(c)
    BY <1>5 DEF Serve, IsPolicy
  <2>2. policies[a] # 0 /\ reply'[c] = [policy |-> [account |-> a, version |-> policies[a]]]
    <3>1. reply'[c] = IF policies[a] = 0 THEN [not_found |-> TRUE]
                      ELSE [policy |-> [account |-> a, version |-> policies[a]]]
      BY <2>1 DEF ServePolicy, Look, IInv, TypeOK
    <3>. QED
      BY <1>5, <3>1 DEF Found
  <2>3. policies[a] = published[a]
    BY <1>5, <2>2 DEF ReaderInv, PublishedOK, IInv, TypeOK
  <2>. QED
    BY <1>5, <2>2, <2>3 DEF ReaderInv, CacheOK
<1>6. NewestOK'
  <2> SUFFICES ASSUME NEW d \in UnderWay, pc[d] # "cache", IsPolicy(d), rpc'[d] = "served",
                      Found(reply'[d]), operation[d].account \in DOMAIN policy_cache
               PROVE  policy_cache[operation[d].account].version <= reply'[d].policy.version
    BY <1>1, <1>2 DEF NewestOK, IsPolicy, Found
  <2>1. CASE d = c
    BY <1>5, <2>1
  <2>2. CASE d # c
    BY <1>4, <2>2 DEF ReaderInv, NewestOK
  <2>. QED
    BY <2>1, <2>2
<1>. QED
  BY <1>3, <1>6 DEF ReaderInv

\* A call begins when none is under way.
LEMMA ReaderCalls ==
  ASSUME OneReader, IInv, ReaderInv, NEW c \in Calls, NEW request \in Operations, Call(c, request)
  PROVE  ReaderInv'
<1>1. UnderWay = {}
  <2>1. ASSUME NEW d \in UnderWay PROVE FALSE
    <3>1. UnderWay = {d}
      BY <2>1 DEF ReaderInv, OneUnderWay
    <3>2. Cardinality(UnderWay) = 1
      BY <3>1, FS_Singleton
    <3>. QED
      BY <3>2 DEF Call, OneReader
  <2>. QED
    BY <2>1
<1>2. /\ UNCHANGED <<policy_cache, reply, service>>
      /\ pc[c] = "new" /\ PlaceOK(c) /\ operation' = [operation EXCEPT ![c] = request]
  BY DEF Call, Goto, Return, IInv, CallOK
<1>3. /\ \A d \in Calls \ {c} : pc'[d] = pc[d] /\ data'[d] = data[d] /\ error_code'[d] = error_code[d]
      /\ pc'[c] \in {"rpc", "cache", "done"}
      /\ pc'[c] = "done" => error_code'[c] = "kNotInitialized"
      /\ pc'[c] = "rpc" => rpc'[c] = "sent"
  BY <1>2 DEF Call, Goto, Return, IInv, TypeOK, results
<1>4. \A d \in UnderWay' : d = c
  BY <1>1, <1>3 DEF UnderWay
<1>5. OneUnderWay'
  BY <1>4 DEF OneUnderWay
<1>6. PublishedOK' /\ CacheOK'
  BY <1>2 DEF ReaderInv, PublishedOK, CacheOK, service
<1>7. GivenOK'
  <2>1. \A d \in Succeeded("GetAccountRiskPolicy")' :
          /\ d \in Succeeded("GetAccountRiskPolicy") /\ data'[d] = data[d]
          /\ operation'[d] = operation[d]
    BY <1>2, <1>3 DEF Succeeded, IInv, TypeOK
  <2>. QED
    BY <1>2, <2>1 DEF ReaderInv, GivenOK
<1>8. NewestOK'
  <2>1. \A d \in UnderWay' : pc'[d] = "cache" \/ rpc'[d] = "sent"
    BY <1>3, <1>4 DEF UnderWay
  <2>. QED
    BY <2>1 DEF NewestOK
<1>. QED
  BY <1>5, <1>6, <1>7, <1>8 DEF ReaderInv

\* An RPC that ends gives no policy yet.
LEMMA ReaderRpc ==
  ASSUME IInv, ReaderInv, NEW c \in Calls, RpcFails(c) \/ RpcNotFound(c) \/ RpcAnswered(c)
  PROVE  ReaderInv'
<1>1. UNCHANGED <<initialized, policy_cache, operation, rpc, reply, service>> /\ pc[c] = "rpc"
  BY DEF RpcFails, RpcNotFound, RpcAnswered, RpcEnds
<1>2. /\ \A d \in Calls \ {c} : pc'[d] = pc[d] /\ data'[d] = data[d] /\ error_code'[d] = error_code[d]
      /\ IsPolicy(c) /\ pc'[c] = "done" => error_code'[c] = "kNotFound"
      /\ pc'[c] # "rpc"
  BY <1>1 DEF RpcFails, RpcNotFound, RpcAnswered, RpcEnds, FallBack, Succeed, Goto, Return,
              IInv, TypeOK, IsPolicy
<1>3. UnderWay' \subseteq UnderWay /\ c \in UnderWay
  BY <1>1, <1>2 DEF UnderWay
<1>4. OneUnderWay' /\ PublishedOK' /\ CacheOK'
  BY <1>1, <1>3 DEF ReaderInv, OneUnderWay, PublishedOK, CacheOK, service
<1>5. GivenOK'
  <2>1. \A d \in Succeeded("GetAccountRiskPolicy")' :
          d \in Succeeded("GetAccountRiskPolicy") /\ data'[d] = data[d]
    BY <1>1, <1>2 DEF Succeeded, IsPolicy
  <2>. QED
    BY <1>1, <2>1 DEF ReaderInv, GivenOK
<1>6. NewestOK'
  <2>1. \A d \in UnderWay' : d = c /\ pc[d] # "cache"
    BY <1>1, <1>3 DEF ReaderInv, OneUnderWay
  <2>. QED
    BY <1>1, <1>3, <2>1 DEF ReaderInv, NewestOK, IsPolicy, Found
<1>. QED
  BY <1>4, <1>5, <1>6 DEF ReaderInv

\* What the end of a policy call gives is as new as all that was given for its account.
LEMMA ReaderEnd ==
  ASSUME IInv, ReaderInv, NEW c \in Calls, StorePolicy(c) \/ ReadCache(c)
  PROVE  /\ ReaderInv'
         /\ error_code'[c] = "kSuccess" =>
              \A d \in Succeeded("GetAccountRiskPolicy") :
                operation[d].account = operation[c].account => data[d].version <= data'[c].version
<1> DEFINE a == operation[c].account
<1>1. TypeOK /\ PlaceOK(c) /\ ReplyOK(c)
  BY DEF IInv, CallOK
<1>2. pc[c] \in {"store", "cache"} /\ UNCHANGED <<initialized, operation, rpc, reply, service>>
  BY DEF StorePolicy, ReadCache, Return, Goto
<1>3. /\ \A d \in Calls \ {c} : pc'[d] = pc[d] /\ data'[d] = data[d] /\ error_code'[d] = error_code[d]
      /\ pc'[c] = "done"
  BY <1>1, <1>2 DEF StorePolicy, ReadCache, Goto, Return, TypeOK
<1>4. a \in Accounts /\ IsPolicy(c)
  BY <1>1, <1>2, RequestParts DEF PlaceOK, IsPolicy
<1>5. UnderWay' = {} /\ c \in UnderWay
  <2>1. UnderWay = {c}
    BY <1>2 DEF ReaderInv, OneUnderWay, UnderWay
  <2>. QED
    BY <1>3, <2>1 DEF UnderWay
<1>6. OneUnderWay' /\ PublishedOK' /\ NewestOK'
  BY <1>2, <1>5 DEF ReaderInv, OneUnderWay, PublishedOK, NewestOK, service
<1>7. /\ \A d \in Succeeded("GetAccountRiskPolicy")' : d # c =>
           d \in Succeeded("GetAccountRiskPolicy") /\ data'[d] = data[d]
      /\ \A d \in Succeeded("GetAccountRiskPolicy") : d # c
  BY <1>2, <1>3 DEF Succeeded
<1>8. \A b \in DOMAIN policy_cache : policy_cache[b].version \in Nat
  BY <1>1 DEF TypeOK, Policy
<1>9. \A d \in Succeeded("GetAccountRiskPolicy") : data[d].version \in Nat
  BY DEF ReaderInv, GivenOK, Policy
<1>10. CASE StorePolicy(c)
  <2> DEFINE policy == reply[c].policy
  <2>1. /\ pc[c] = "store" /\ error_code'[c] = "kSuccess" /\ data'[c] = policy
        /\ policy_cache' = [k \in DOMAIN policy_cache \cup {a} |->
                              IF k = a THEN policy ELSE policy_cache[k]]
    BY <1>1, <1>10 DEF StorePolicy, CacheKey, Return, Goto, TypeOK, ErrorCodes
  <2>2. PICK given \in Policy : /\ reply[c] = [policy |-> given]
                                /\ given.account = a
                                /\ given.version <= published[given.account]
    BY <1>1, <1>4, <2>1 DEF PlaceOK, ReplyOK, PolicyReply
  <2>3. policy \in Policy /\ policy.version <= published[a] /\ policy.version \in Nat
    BY <2>2 DEF Policy
  <2>4. a \in DOMAIN policy_cache => policy_cache[a].version <= policy.version
    BY <1>1, <1>4, <1>5, <2>1 DEF ReaderInv, NewestOK, PlaceOK
  <2> HIDE DEF policy
  <2>5. \A d \in Succeeded("GetAccountRiskPolicy") :
          operation[d].account = a => data[d].version <= policy.version
    BY <1>8, <1>9, <2>3, <2>4 DEF ReaderInv, GivenOK
  <2>6. CacheOK'
    BY <1>2, <2>1, <2>3 DEF ReaderInv, CacheOK, service
  <2>7. GivenOK'
    <3> SUFFICES ASSUME NEW d \in Succeeded("GetAccountRiskPolicy")'
                 PROVE  /\ data'[d] \in Policy
                        /\ operation[d].account \in DOMAIN policy_cache'
                        /\ data'[d].version <= policy_cache'[operation[d].account].version
      BY <1>2 DEF GivenOK
    <3>1. CASE d = c
      BY <2>1, <2>3, <3>1
    <3>2. CASE d # c
      <4>1. d \in Succeeded("GetAccountRiskPolicy") /\ data'[d] = data[d]
        BY <1>7, <3>2
      <4>. QED
        BY <2>1, <2>5, <4>1 DEF ReaderInv, GivenOK
    <3>. QED
      BY <3>1, <3>2
  <2>. QED
    BY <1>6, <2>1, <2>5, <2>6, <2>7 DEF ReaderInv
<1>11. CASE ReadCache(c)
  <2>1. /\ policy_cache' = policy_cache
        /\ error_code'[c] = "kSuccess" => a \in DOMAIN policy_cache /\ data'[c] = policy_cache[a]
    <3>1. pc[c] = "cache" /\ error_code[c] \in {"kSuccess", "kTimeout"}
      BY <1>1, <1>11 DEF ReadCache, PlaceOK
    <3>. QED
      BY <1>1, <1>11, <3>1 DEF ReadCache, CacheKey, Return, Goto, TypeOK
  <2>2. CacheOK'
    BY <1>2, <2>1 DEF ReaderInv, CacheOK, service
  <2>3. GivenOK'
    <3> SUFFICES ASSUME NEW d \in Succeeded("GetAccountRiskPolicy")'
                 PROVE  /\ data'[d] \in Policy
                        /\ operation[d].account \in DOMAIN policy_cache
                        /\ data'[d].version <= policy_cache[operation[d].account].version
      BY <1>2, <2>1 DEF GivenOK
    <3>1. CASE d = c
      <4>1. error_code'[c] = "kSuccess"
        BY <3>1 DEF Succeeded
      <4>2. policy_cache[a] \in Policy
        BY <1>1, <2>1, <4>1 DEF TypeOK
      <4>. QED
        BY <1>8, <2>1, <3>1, <4>1, <4>2
    <3>2. CASE d # c
      BY <1>7, <3>2 DEF ReaderInv, GivenOK
    <3>. QED
      BY <3>1, <3>2
  <2>. QED
    BY <1>6, <2>1, <2>2, <2>3 DEF ReaderInv, GivenOK
<1>. QED
  BY <1>10, <1>11

\* What is right for one reader stays so.
LEMMA ReaderStep ==
  ASSUME OneReader, IInv, IInv', ReaderInv, [Next]_vars
  PROVE  ReaderInv'
<1>1. CASE InitBridge \/ Shutdown \/ UNCHANGED vars \/ \E o \in Orders : Expire(o)
  <2>1. UNCHANGED <<policy_cache, pc, operation, results, rpc, reply, policies, published>>
    BY <1>1 DEF InitBridge, Shutdown, Expire, vars, service
  <2>2. PublishedOK' /\ \A a \in Accounts : published[a] <= published'[a]
    BY <2>1, RiskAssumption DEF ReaderInv, PublishedOK, IInv, TypeOK
  <2>. QED
    BY <2>1, <2>2, ReaderAlone DEF IInv
<1>2. ASSUME NEW a \in Accounts, PublishPolicy(a) \/ WithdrawPolicy(a) PROVE ReaderInv'
  <2>1. UNCHANGED <<policy_cache, pc, operation, results, rpc, reply>>
    BY <1>2 DEF PublishPolicy, WithdrawPolicy
  <2>2. PublishedOK' /\ \A b \in Accounts : published[b] <= published'[b]
    BY <1>2, RiskAssumption DEF PublishPolicy, WithdrawPolicy, ReaderInv, PublishedOK, IInv, TypeOK
  <2>. QED
    BY <2>1, <2>2, ReaderAlone DEF IInv
<1>. QED
  BY <1>1, <1>2, ReaderServe, ReaderCalls, ReaderRpc, ReaderEnd DEF Next, Service, Step

\* With one reader at a time no policy is followed by an older one of its account,
\* however many RPCs fail, come late, or find the policy withdrawn.
THEOREM PolicyOnlyAdvances == ASSUME OneReader PROVE Spec => PolicyNeverGoesBack
<1> DEFINE Forward == \A c \in Calls :
              Returns(c) /\ operation'[c].op = "GetAccountRiskPolicy" /\ error_code'[c] = "kSuccess"
                => \A d \in EarlierAnswers(c) : data[d].version <= data'[c].version
<1>1. Init => ReaderInv
  BY DEF Init, ReaderInv, OneUnderWay, UnderWay, PublishedOK, CacheOK, GivenOK, Succeeded, NewestOK
<1>2. IInv /\ IInv' /\ ReaderInv /\ [Next]_vars => ReaderInv'
  BY ReaderStep
<1>3. IInv /\ ReaderInv /\ [Next]_vars => [Forward]_vars
  <2> SUFFICES ASSUME IInv, ReaderInv, Next, NEW c \in Calls, Returns(c),
                      operation'[c].op = "GetAccountRiskPolicy", error_code'[c] = "kSuccess",
                      NEW d \in EarlierAnswers(c)
               PROVE  data[d].version <= data'[c].version
    OBVIOUS
  <2>1. CASE StorePolicy(c) \/ ReadCache(c)
    <3>1. operation' = operation
      BY <2>1 DEF StorePolicy, ReadCache
    <3>. QED
      BY <2>1, <3>1, ReaderEnd DEF EarlierAnswers
  <2>2. ASSUME ~ (StorePolicy(c) \/ ReadCache(c)) PROVE FALSE
    <3>1. TypeOK
      BY DEF IInv
    <3>2. ASSUME NEW e \in Calls, NEW request \in Operations, Call(e, request) PROVE FALSE
      BY <3>1, <3>2 DEF Call, Goto, Return, Returns, TypeOK, results
    <3>3. ASSUME NEW e \in Calls, RpcFails(e) \/ RpcNotFound(e) \/ RpcAnswered(e) PROVE FALSE
      BY <3>1, <3>3 DEF RpcFails, RpcNotFound, RpcAnswered, RpcEnds, FallBack, Succeed, Goto,
                        Return, Returns, TypeOK, IsPolicy
    <3>4. ASSUME NEW e \in Calls, e # c, StorePolicy(e) \/ ReadCache(e) PROVE FALSE
      BY <3>1, <3>4 DEF StorePolicy, ReadCache, Return, Goto, Returns, TypeOK
    <3>5. CASE InitBridge \/ Shutdown \/ Service
      BY <3>5 DEF InitBridge, Shutdown, Service, PublishPolicy, WithdrawPolicy, Expire, Serve,
                  Returns
    <3>. QED
      BY <2>2, <3>2, <3>3, <3>4, <3>5 DEF Next, Step
  <2>. QED
    BY <2>1, <2>2
<1>4. PolicyNeverGoesBack <=> [][Forward]_vars
  BY DEF PolicyNeverGoesBack
<1> HIDE DEF Forward
<1>. QED
  BY <1>1, <1>2, <1>3, <1>4, Invariant, PTL DEF Spec
=============================================================================
