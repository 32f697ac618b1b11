---------------------------- MODULE SupportProofs ----------------------------
(***************************************************************************)
(* Proofs about AccountBridge, ConfigBridge and SupportBridges, for every  *)
(* set of threads, accounts and configurations.                            *)
(*                                                                         *)
(* First the account bridge by itself: its variables have their types, and *)
(* it implements CachedLookup.  Then the two bridges as main and the       *)
(* engine use them: every step of the composition is a step of one bridge, *)
(* so that what each of them keeps is kept; that no call is made on a dead *)
(* stub is a matter of all three.                                          *)
(***************************************************************************)
EXTENDS SupportBridges, TLAPS

-----------------------------------------------------------------------------
(* The account bridge by itself *)

\* A call that is under way has an account; a reply is there only while it is of use,
\* and a credential the service has issued for that account.  A call has nothing of the
\* client's before the RPC ends, and what it has then decides where it goes.
ReplyOK ==
  \A c \in Callers :
    /\ pc[c] # "idle" => account_id[c] \in Accounts
    /\ pc[c] \in {"idle", "done", "test", "cache"} => reply[c] = NoData
    /\ pc[c] = "store" => reply[c] # NoData
    /\ reply[c] # NoData => reply[c] <= credentials[account_id[c]]
    /\ pc[c] \in {"test", "rpc"} => rc[c] = "none"
    /\ pc[c] = "store" => rc[c] = "ok"
    /\ pc[c] = "cache" => \/ rc[c] = "closed" /\ error_code[c] = "kSuccess"
                          \/ rc[c] = "failed" /\ error_code[c] = "kTimeout"

IInv == TypeOK /\ ReplyOK

\* The invariant holds in the beginning.
LEMMA InitOK == Init => IInv
<1> SUFFICES ASSUME Init PROVE IInv
  OBVIOUS
<1> USE AccountAssumption
<1>1. TypeOK
  <2>1. initialized \in BOOLEAN /\ stub \in BOOLEAN
    BY Zenon DEF Init
  <2>2. NoAccount \in Accounts \cup {NoAccount} /\ NoData \in Versions \cup {NoData}
    OBVIOUS
  <2>3. 0 \in Versions
    BY DEF Versions
  <2>. QED
    BY <2>1, <2>2, <2>3 DEF Init, TypeOK
<1>2. ReplyOK
  BY DEF Init, ReplyOK
<1>. QED
  BY <1>1, <1>2 DEF IInv

\* Every step keeps it.
LEMMA StepOK == IInv /\ [Next]_vars => IInv'
<1> SUFFICES ASSUME IInv, [Next]_vars PROVE IInv'
  OBVIOUS
<1> USE AccountAssumption DEF IInv, TypeOK, ReplyOK, Versions, client, result
<1>1. CASE Client
  <2>1. initialized' \in BOOLEAN /\ stub' \in BOOLEAN
    BY <1>1, Zenon DEF Client, Open, ResetStub, EndShutdown
  <2>2. UNCHANGED <<cache, pc, account_id, result, reply, credentials>>
    BY <1>1 DEF Client, Open, ResetStub, EndShutdown
  <2>. QED
    BY <2>1, <2>2
<1>2. ASSUME NEW a \in Accounts, Issue(a) PROVE IInv'
  <2>1. credentials' \in [Accounts -> Versions]
    BY <1>2 DEF Issue
  <2>2. \A b \in Accounts : credentials[b] <= credentials'[b]
    BY <1>2 DEF Issue
  <2>3. \A c \in Callers : reply[c] # NoData => account_id[c] \in Accounts
    OBVIOUS
  <2>. QED
    BY <1>2, <2>1, <2>2, <2>3 DEF Issue
<1>3. ASSUME NEW c \in Callers, Serve(c) PROVE IInv'
  BY <1>3 DEF Serve
<1>4. ASSUME NEW c \in Callers, NEW a \in Accounts, GetCredential(c, a) PROVE IInv'
  BY <1>4 DEF GetCredential
<1>5. ASSUME NEW c \in Callers, TestClient(c) PROVE IInv'
  BY <1>5 DEF TestClient, Fails, Goto
<1>6. ASSUME NEW c \in Callers, RpcFails(c) PROVE IInv'
  BY <1>6 DEF RpcFails, Fails, Goto
<1>7. ASSUME NEW c \in Callers, RpcAnswered(c) PROVE IInv'
  BY <1>7 DEF RpcAnswered, Goto
<1>8. ASSUME NEW c \in Callers, StoreCredential(c) PROVE IInv'
  BY <1>8 DEF StoreCredential, Return, Goto, CacheKey
<1>9. ASSUME NEW c \in Callers, ReadCache(c) PROVE IInv'
  BY <1>9 DEF ReadCache, Return, Goto, CacheKey
<1>10. CASE UNCHANGED vars
  BY <1>10 DEF vars
<1>. QED
  BY <1>1, <1>2, <1>3, <1>4, <1>5, <1>6, <1>7, <1>8, <1>9, <1>10
     DEF Next, Service, Asking, Step

\* TypeOK holds of the account bridge, whatever main and the threads do.
THEOREM AccountTypeCorrect == Spec => []TypeOK
<1>. QED
  BY InitOK, StepOK, PTL DEF Spec, IInv

-----------------------------------------------------------------------------
(* The refinement.  What a call that does not move was told stays.         *)

ToldOf(c) == CASE pc[c] = "idle" -> "idle"
               [] pc[c] = "done" -> error_code[c]
               [] OTHER -> "asked"
Told    == [c \in Callers |-> ToldOf(c)]
Offered == {entry \in Accounts \X Versions : entry[2] <= credentials[entry[1]]}

\* What CachedLookup speaks of.
mapped == <<initialized, Offered, cache, account_id, rc, Told, data>>

LEMMA MappedVars == Lookup!vars = mapped /\ (Lookup!vars)' = mapped'
  BY DEF Lookup!vars, mapped, Offered, Told, ToldOf

\* What a step does to what the calls were told when only the call of c moves.
LEMMA Moves ==
  ASSUME TypeOK, TypeOK', NEW c \in Callers,
         NEW to, pc' = [pc EXCEPT ![c] = to],
         \A d \in Callers \ {c} : error_code'[d] = error_code[d]
  PROVE  Told' = [Told EXCEPT ![c] = ToldOf(c)']
<1>1. \A d \in Callers \ {c} : pc'[d] = pc[d] /\ error_code'[d] = error_code[d]
  BY DEF TypeOK
<1>2. \A d \in Callers \ {c} : ToldOf(d)' = ToldOf(d)
  BY <1>1 DEF ToldOf
<1>. QED
  BY <1>2 DEF Told

\* A call that moves but does not return is told nothing.
LEMMA StaysAsked ==
  ASSUME TypeOK, TypeOK', NEW c \in Callers,
         NEW to \in {"rpc", "store", "cache"}, pc' = [pc EXCEPT ![c] = to],
         pc[c] \in {"test", "rpc"},
         \A d \in Callers \ {c} : error_code'[d] = error_code[d]
  PROVE  Told' = Told /\ Told[c] = "asked"
<1>1. pc'[c] = to
  BY DEF TypeOK
<1>2. ToldOf(c) = "asked" /\ ToldOf(c)' = "asked"
  BY <1>1 DEF ToldOf
<1>3. Told' = [Told EXCEPT ![c] = "asked"]
  BY <1>2, Moves
<1>. QED
  BY <1>2, <1>3 DEF Told

\* A step that leaves what the service offers, or what the calls were told, alone.
LEMMA SameOffer == UNCHANGED credentials => UNCHANGED Offered
  BY DEF Offered

LEMMA SameTold == UNCHANGED <<pc, error_code>> => UNCHANGED Told
  BY DEF Told, ToldOf

\* Every step is one of CachedLookup's, or changes nothing it speaks of.
LEMMA LookupStep == IInv /\ IInv' /\ [Next]_vars => [Lookup!Next]_(Lookup!vars)
<1> SUFFICES ASSUME IInv, IInv', [Next]_vars PROVE Lookup!Next \/ UNCHANGED mapped
  BY MappedVars
<1> USE DEF IInv
<1>1. CASE Open \/ EndShutdown
  <2>1. UNCHANGED <<Offered, cache, account_id, rc, Told, data>>
    BY <1>1, SameOffer, SameTold DEF Open, EndShutdown, result
  <2>2. initialized' = ~ initialized
    BY <1>1, Zenon DEF Open, EndShutdown
  <2>3. Lookup!OpenOrClose
    BY <2>1, <2>2 DEF Lookup!OpenOrClose, Offered, Told, ToldOf
  <2>. QED
    BY <2>3 DEF Lookup!Next
<1>2. ASSUME ResetStub \/ \E c \in Callers : Serve(c) PROVE UNCHANGED mapped
  <2>1. UNCHANGED <<initialized, cache, pc, account_id, result, credentials>>
    BY <1>2 DEF ResetStub, Serve, client
  <2>. QED
    BY <2>1, SameOffer, SameTold DEF mapped, result
<1>3. ASSUME NEW a \in Accounts, Issue(a) PROVE Lookup!Next
  <2>1. UNCHANGED <<initialized, cache, account_id, rc, Told, data>>
    BY <1>3, SameTold DEF Issue, client, result
  <2>2. \A b \in Accounts : credentials[b] <= credentials'[b]
    BY <1>3 DEF Issue, TypeOK, Versions
  <2>3. Offered \subseteq Offered'
    <3>1. ASSUME NEW b \in Accounts, NEW v \in Versions, v <= credentials[b]
          PROVE  v <= credentials'[b]
      BY <3>1, <2>2, AccountAssumption DEF TypeOK, Versions
    <3>. QED
      BY <3>1 DEF Offered
  <2>4. Lookup!Offer
    BY <2>1, <2>3 DEF Lookup!Offer, Offered, Told, ToldOf
  <2>. QED
    BY <2>4 DEF Lookup!Next
<1>4. ASSUME NEW c \in Callers, NEW a \in Accounts, GetCredential(c, a) PROVE Lookup!Next
  <2>1. ToldOf(c) # "asked" /\ ToldOf(c)' = "asked"
    BY <1>4 DEF GetCredential, ToldOf, TypeOK
  <2>2. Told' = [Told EXCEPT ![c] = "asked"]
    BY <1>4, <2>1, Moves DEF GetCredential, TypeOK
  <2>3. Told[c] # "asked"
    BY <2>1 DEF Told
  <2>4. UNCHANGED <<initialized, Offered, cache>>
    BY <1>4, SameOffer DEF GetCredential, client
  <2>5. Lookup!Ask(c, a)
    BY <1>4, <2>2, <2>3, <2>4 DEF GetCredential, Lookup!Ask, Offered, Told, ToldOf
  <2>. QED
    BY <2>5 DEF Lookup!Next
<1>5. ASSUME NEW c \in Callers, Fails(c, "test") \/ Fails(c, "rpc") \/ RpcAnswered(c)
      PROVE  Lookup!Next
  <2>1. PICK what \in {"failed", "ok"} : rc' = [rc EXCEPT ![c] = what]
    BY <1>5 DEF Fails, RpcAnswered
  <2>2. /\ pc[c] \in {"test", "rpc"}
        /\ \E to \in {"store", "cache"} : pc' = [pc EXCEPT ![c] = to]
        /\ \A d \in Callers \ {c} : error_code'[d] = error_code[d]
    BY <1>5 DEF Fails, RpcAnswered, Goto, TypeOK
  <2>3. Told' = Told /\ Told[c] = "asked"
    BY <2>2, StaysAsked
  <2>4. UNCHANGED <<initialized, Offered, cache, account_id, data>>
    BY <1>5, SameOffer DEF Fails, RpcAnswered, client
  <2>5. rc[c] = "none"
    BY <2>2 DEF ReplyOK
  <2>6. Lookup!Hear(c, what)
    BY <2>1, <2>3, <2>4, <2>5 DEF Lookup!Hear, Offered, Told, ToldOf
  <2>. QED
    BY <2>6 DEF Lookup!Next
<1>6. ASSUME NEW c \in Callers, Goto(c, "test", "rpc"),
             UNCHANGED <<client, cache, account_id, result, reply, credentials>>
      PROVE  UNCHANGED mapped
  <2>1. Told' = Told
    BY <1>6, StaysAsked DEF Goto, result
  <2>. QED
    BY <1>6, <2>1, SameOffer DEF mapped, client, result
<1>7. ASSUME NEW c \in Callers, StoreCredential(c) PROVE Lookup!Next
  <2>1. Return(c, "store", "kSuccess", reply[c]) /\ rc[c] = "ok"
    BY <1>7 DEF StoreCredential, Return, Goto, ReplyOK
  <2>2. ToldOf(c) = "asked" /\ ToldOf(c)' = "kSuccess"
    BY <2>1 DEF Return, Goto, ToldOf, TypeOK
  <2>3. Told' = [Told EXCEPT ![c] = "kSuccess"] /\ Told[c] = "asked"
    <3>1. Told' = [Told EXCEPT ![c] = "kSuccess"]
      BY <2>1, <2>2, Moves DEF Return, Goto, TypeOK
    <3>. QED
      BY <2>2, <3>1 DEF Told
  <2>4. /\ account_id[c] \in Accounts /\ reply[c] \in Versions
        /\ reply[c] <= credentials[account_id[c]]
    BY <2>1 DEF Return, Goto, ReplyOK, TypeOK
  <2>5. <<account_id[c], reply[c]>> \in Offered
    BY <2>4 DEF Offered
  <2>6. UNCHANGED <<initialized, Offered, account_id, rc>>
    BY <1>7, <2>1, SameOffer DEF StoreCredential, Return, client
  <2>7. /\ cache' = [cache EXCEPT ![account_id[c]] = reply[c]]
        /\ data' = [data EXCEPT ![c] = reply[c]]
    BY <1>7, <2>1 DEF StoreCredential, Return, CacheKey
  <2>8. Lookup!Learn(c, reply[c])
    BY <2>1, <2>3, <2>5, <2>6, <2>7 DEF Lookup!Learn, Lookup!Tell, Offered, Told, ToldOf
  <2>9. \E entry \in Offered : Lookup!Learn(c, entry[2])
    BY <2>5, <2>8
  <2>. QED
    BY <2>9 DEF Lookup!Next, Offered
<1>8. ASSUME NEW c \in Callers, ReadCache(c) PROVE Lookup!Next
  <2> DEFINE entry == cache[account_id[c]]
  <2>1. /\ pc[c] = "cache"
        /\ \/ rc[c] = "closed" /\ error_code[c] = "kSuccess"
           \/ rc[c] = "failed" /\ error_code[c] = "kTimeout"
    BY <1>8 DEF ReadCache, ReplyOK
  <2>2. UNCHANGED <<initialized, Offered, cache, account_id, rc>>
    BY <1>8, SameOffer DEF ReadCache, Return, client
  <2>3. Told[c] = "asked"
    BY <2>1 DEF Told, ToldOf
  <2>4. CASE entry # NoData
    <3>1. Return(c, "cache", "kSuccess", entry)
      BY <1>8, <2>4 DEF ReadCache, CacheKey
    <3>2. ToldOf(c)' = "kSuccess"
      BY <3>1 DEF Return, Goto, ToldOf, TypeOK
    <3>3. Told' = [Told EXCEPT ![c] = "kSuccess"]
      BY <3>1, <3>2, Moves DEF Return, Goto, TypeOK
    <3>4. Lookup!Recall(c)
      BY <2>1, <2>2, <2>3, <2>4, <3>1, <3>3
         DEF Return, Lookup!Recall, Lookup!Tell, Offered, Told, ToldOf
    <3>. QED
      BY <3>4 DEF Lookup!Next
  <2>5. CASE entry = NoData
    <3> DEFINE code == IF rc[c] = "closed" THEN "kNotInitialized" ELSE "kTimeout"
    <3>1. Return(c, "cache", code, NoData)
      BY <1>8, <2>1, <2>5 DEF ReadCache, CacheKey
    <3> HIDE DEF code
    <3>2. ToldOf(c)' = code
      BY <3>1 DEF Return, Goto, ToldOf, TypeOK
    <3>3. Told' = [Told EXCEPT ![c] = code]
      BY <3>1, <3>2, Moves DEF Return, Goto, TypeOK
    <3>4. Lookup!Miss(c)
      BY <2>1, <2>2, <2>3, <2>5, <3>1, <3>3
         DEF code, Return, Lookup!Miss, Lookup!Tell, Offered, Told, ToldOf
    <3>. QED
      BY <3>4 DEF Lookup!Next
  <2>. QED
    BY <2>4, <2>5
<1>9. CASE UNCHANGED vars
  <2>1. UNCHANGED <<initialized, cache, pc, account_id, result, credentials>>
    BY <1>9 DEF vars, client
  <2>. QED
    BY <2>1, SameOffer, SameTold DEF mapped, result
<1>. QED
  BY <1>1, <1>2, <1>3, <1>4, <1>5, <1>6, <1>7, <1>8, <1>9
     DEF Next, Client, Service, Asking, Step, TestClient, RpcFails

\* The account bridge answers every call as CachedLookup says.
THEOREM CredentialsLookedUp == Spec => CredentialsAreLookedUp
<1>1. Init => Lookup!Init
  BY DEF Init, Lookup!Init
<1>. QED
  BY <1>1, InitOK, StepOK, LookupStep, PTL DEF Spec, CredentialsAreLookedUp, Lookup!Spec

-----------------------------------------------------------------------------
(* The steps of the composition *)

\* A step of the composition is one of the account bridge or leaves it alone, and the
\* same of the config bridge.
LEMMA StepIsOfTheBridges ==
  [SupportNext]_support_vars => [Next]_vars /\ [ConfigNext]_config_vars
<1> SUFFICES ASSUME [SupportNext]_support_vars PROVE [Next]_vars /\ [ConfigNext]_config_vars
  OBVIOUS
<1> USE MainAssumption
<1>1. CASE OpenAccountBridge \/ ShutdownAccountBridge
  BY <1>1 DEF OpenAccountBridge, ShutdownAccountBridge, Next, Client
<1>2. CASE MainAsks
  BY <1>2 DEF MainAsks, Next, Asking
<1>3. ASSUME NEW c \in Callers, EngineAsks(c) \/ CallStep(c)
      PROVE  [Next]_vars /\ [ConfigNext]_config_vars
  BY <1>3 DEF EngineAsks, CallStep, Next
<1>4. CASE AccountService
  BY <1>4 DEF AccountService, Next
<1>5. CASE UseConfigBridge \/ StartEngine \/ CallStop \/ StopReturns
  BY <1>5 DEF UseConfigBridge, StartEngine, CallStop, StopReturns
<1>6. CASE UNCHANGED support_vars
  BY <1>6 DEF support_vars
<1>. QED
  BY <1>1, <1>2, <1>3, <1>4, <1>5, <1>6 DEF SupportNext

-----------------------------------------------------------------------------
(* The config bridge *)

\* What Init works on is an answer of the service.
ConfigInv ==
  /\ ConfigTypeOK /\ ReadsAreOneAnswer
  /\ config_place = "answered" => response \in Messages

\* A configuration that is converted has a limit and arguments, defaults or not.
LEMMA ConvertedOK ==
  ASSUME NEW message \in Messages
  PROVE  /\ ToEngineConfig(message).quote_max_stale_ms \in Nat \ {0}
         /\ \A i \in DOMAIN ToStrategyConfigs(message) :
              ToStrategyConfigs(message)[i].window_size \in Int
<1>1. ToEngineConfig(message).quote_max_stale_ms \in Nat \ {0}
  <2>1. DefaultStaleMs \in Nat \ {0} /\ message.quote_max_stale_ms \in Int
    BY ConfigAssumption
  <2>2. ToEngineConfig(message).quote_max_stale_ms =
          IF message.quote_max_stale_ms > 0 THEN message.quote_max_stale_ms ELSE DefaultStaleMs
    BY DEF ToEngineConfig
  <2>. QED
    BY <2>1, <2>2
<1>2. ASSUME NEW i \in DOMAIN message.strategies
      PROVE  ParseStrategyConfig(message.strategies[i]).window_size \in Int
  <2> DEFINE Strategies == [window_size : Int \cup {Unset}]
  <2>1. message.strategies \in Seq(Strategies)
    BY ConfigAssumption
  <2> HIDE DEF Strategies
  <2>2. message.strategies[i] \in Strategies
    BY <1>2, <2>1
  <2>. QED
    BY <2>2, ConfigAssumption DEF ParseStrategyConfig, Strategies
<1>. QED
  BY <1>1, <1>2 DEF ToStrategyConfigs

\* The invariant holds in the beginning.
LEMMA ConfigInitOK == ConfigInit => ConfigInv
<1> SUFFICES ASSUME ConfigInit PROVE ConfigInv
  OBVIOUS
<1>1. config_open \in BOOLEAN /\ has_config \in BOOLEAN
  BY Zenon DEF ConfigInit
<1>. QED
  BY <1>1 DEF ConfigInit, ConfigInv, ConfigTypeOK, ReadsAreOneAnswer, GetEngineConfig

\* Every step keeps it.
LEMMA ConfigStepOK == ConfigInv /\ [ConfigNext]_config_vars => ConfigInv'
<1> SUFFICES ASSUME ConfigInv, [ConfigNext]_config_vars PROVE ConfigInv'
  OBVIOUS
<1> USE DEF ConfigInv
<1>1. CASE InitConfig \/ ShutdownConfig \/ ConfigRpcFails \/ UNCHANGED config_vars
  <2>1. UNCHANGED <<response, cached>>
    BY <1>1 DEF InitConfig, ShutdownConfig, ConfigRpcFails, config_vars
  <2>2. config_open' \in BOOLEAN
    BY <1>1, Zenon DEF InitConfig, ShutdownConfig, ConfigRpcFails, config_vars, ConfigTypeOK
  <2>3. /\ config_place' \in {"idle", "rpc", config_place}
        /\ config_place' = "answered" => config_place = "answered"
        /\ config_result' \in {config_result, "kSystemError", "kTimeout"}
    BY <1>1 DEF InitConfig, ShutdownConfig, ConfigRpcFails, ConfigReturn, config_vars
  <2>4. ReadsAreOneAnswer'
    BY <2>1 DEF cached, ReadsAreOneAnswer, GetEngineConfig, GetStrategies,
                GetAdapterLaunchParams
  <2>. QED
    BY <2>1, <2>2, <2>3, <2>4 DEF cached, ConfigTypeOK
<1>2. ASSUME NEW message \in Messages, ConfigAnswered(message) PROVE ConfigInv'
  <2>1. ReadsAreOneAnswer'
    BY <1>2 DEF ConfigAnswered, cached, ReadsAreOneAnswer, GetEngineConfig, GetStrategies,
                GetAdapterLaunchParams
  <2>. QED
    BY <1>2, <2>1 DEF ConfigAnswered, cached, ConfigTypeOK
<1>3. CASE RefuseConfig
  <2>1. ReadsAreOneAnswer'
    BY <1>3 DEF RefuseConfig, cached, ReadsAreOneAnswer, GetEngineConfig, GetStrategies,
                GetAdapterLaunchParams
  <2>. QED
    BY <1>3, <2>1 DEF RefuseConfig, ConfigReturn, cached, ConfigTypeOK
<1>4. CASE StoreConfig
  <2>1. response \in Messages /\ Valid(ToEngineConfig(response))
    BY <1>4 DEF StoreConfig
  <2>2. /\ has_config' = TRUE /\ engine_config' = ToEngineConfig(response)
        /\ strategies' = ToStrategyConfigs(response)
        /\ adapter_params' = response.adapter_params
    BY <1>4 DEF StoreConfig
  <2>3. /\ engine_config'.quote_max_stale_ms \in Nat \ {0}
        /\ \A i \in DOMAIN strategies' : strategies'[i].window_size \in Int
    BY <2>1, <2>2, ConvertedOK
  <2>4. ReadsAreOneAnswer'
    <3>1. <<engine_config', strategies', adapter_params'>> = Parts(response)
      BY <2>2 DEF Parts
    <3>2. Valid(engine_config')
      BY <2>1, <2>2
    <3>3. engine_config'.quote_max_stale_ms > 0
      BY <2>3
    <3>. QED
      BY <2>1, <2>2, <3>1, <3>2, <3>3
         DEF ReadsAreOneAnswer, GetEngineConfig, GetStrategies, GetAdapterLaunchParams, Valid
  <2>5. config_open' \in BOOLEAN /\ has_config' \in BOOLEAN
    BY <1>4, Zenon DEF StoreConfig, ConfigTypeOK
  <2>6. /\ config_place' = "idle" /\ config_result' = "kSuccess" /\ response' = Unset
        /\ adapter_params' \in {message.adapter_params : message \in Messages}
    BY <1>4, <2>1, <2>2 DEF StoreConfig, ConfigReturn
  <2>. QED
    BY <2>3, <2>4, <2>5, <2>6 DEF ConfigTypeOK
<1>. QED
  BY <1>1, <1>2, <1>3, <1>4 DEF ConfigNext, ConfigStep

\* What main reads of the configuration is one answer of the service, and valid.
THEOREM ConfigIsOneAnswer == SupportSpec => []ReadsAreOneAnswer
<1>1. SupportInit => ConfigInv
  BY ConfigInitOK DEF SupportInit
<1>2. ConfigInv /\ [SupportNext]_support_vars => ConfigInv'
  BY ConfigStepOK, StepIsOfTheBridges
<1>3. ConfigInv => ReadsAreOneAnswer
  BY DEF ConfigInv
<1>. QED
  BY <1>1, <1>2, <1>3, PTL DEF SupportSpec

\* Only an Init that succeeds changes what is cached, and nothing removes it.
THEOREM ConfigStays == SupportSpec => ConfigStaysReadable
<1> DEFINE Stays == /\ has_config => has_config'
                    /\ cached' # cached => config_result' = "kSuccess"
<1>1. [ConfigNext]_config_vars => [Stays]_config_vars
  <2> SUFFICES ASSUME ConfigNext PROVE Stays
    OBVIOUS
  <2>1. CASE StoreConfig
    BY <2>1 DEF StoreConfig, ConfigReturn
  <2>2. CASE ~ StoreConfig
    <3>1. UNCHANGED cached
      BY <2>2 DEF ConfigNext, ConfigStep, InitConfig, ShutdownConfig, ConfigRpcFails,
                  RefuseConfig, ConfigAnswered
    <3>2. has_config' = has_config
      BY <3>1 DEF cached
    <3>. QED
      BY <3>1, <3>2
  <2>. QED
    BY <2>1, <2>2
<1>2. [SupportNext]_support_vars => [Stays]_config_vars
  BY <1>1, StepIsOfTheBridges
<1>. QED
  BY <1>2, PTL DEF SupportSpec, ConfigStaysReadable

-----------------------------------------------------------------------------
(* The account bridge in the composition *)

\* The account bridge answers as CachedLookup says also as main and the engine use it.
THEOREM CredentialsLookedUpForMain == SupportSpec => CredentialsAreLookedUp
<1>1. SupportInit => Init
  BY DEF SupportInit
<1>2. [SupportNext]_support_vars => [Next]_vars
  BY StepIsOfTheBridges
<1>3. Spec => CredentialsAreLookedUp
  BY CredentialsLookedUp
<1>4. SupportSpec => Spec
  BY <1>1, <1>2, PTL DEF SupportSpec, Spec
<1>. QED
  BY <1>3, <1>4, PTL

-----------------------------------------------------------------------------
(* The composition *)

EngineOK == engine \in {"created", "started", "stopping", "stopped"}

\* Who is in the account bridge when, and what is open then.
UseOK == EngineOK /\ EngineHasClient /\ CallsAreEngines /\ MainCallOnOpen

\* A call that moves stays with its thread, and finds the client as it was.
LEMMA CallMoves ==
  ASSUME TypeOK, UseOK, NEW c \in Callers, Step(c), UNCHANGED engine
  PROVE  UseOK'
<1>1. ~ Returned(c) /\ UNCHANGED client
  BY DEF Step, TestClient, RpcFails, Fails, RpcAnswered, StoreCredential, ReadCache, Return,
         Goto, Returned
<1>2. pc'[c] # "test" /\ (pc'[c] = "rpc" => pc[c] = "test")
  BY DEF Step, TestClient, RpcFails, Fails, RpcAnswered, StoreCredential, ReadCache, Return,
         Goto, TypeOK
<1>3. \A d \in Callers \ {c} : pc'[d] = pc[d]
  BY DEF Step, TestClient, RpcFails, Fails, RpcAnswered, StoreCredential, ReadCache, Return,
         Goto, TypeOK
<1>. QED
  BY <1>1, <1>2, <1>3, MainAssumption
     DEF UseOK, EngineOK, EngineHasClient, CallsAreEngines, MainCallOnOpen, Returned, client

\* Every step of the composition keeps it.
LEMMA UseStep == TypeOK /\ UseOK /\ [SupportNext]_support_vars => UseOK'
<1> SUFFICES ASSUME TypeOK, UseOK, [SupportNext]_support_vars PROVE UseOK'
  OBVIOUS
<1> USE MainAssumption
<1> USE DEF UseOK, EngineOK, EngineHasClient, CallsAreEngines, MainCallOnOpen
<1>1. CASE OpenAccountBridge
  <2>1. UNCHANGED <<pc, engine>> /\ engine = "created" /\ initialized' /\ stub'
    BY <1>1 DEF OpenAccountBridge, Open, config_vars
  <2>. QED
    BY <2>1 DEF Returned
<1>2. CASE ShutdownAccountBridge
  <2>1. /\ UNCHANGED <<pc, engine>> /\ engine \in {"created", "stopped"}
        /\ pc[Main] \in {"idle", "done"}
    BY <1>2 DEF ShutdownAccountBridge, ResetStub, EndShutdown, MainIsFree, Returned
  <2>. QED
    BY <2>1 DEF Returned
<1>3. CASE MainAsks
  <2>1. /\ UNCHANGED <<client, engine>> /\ engine = "created"
        /\ \A c \in Callers \ {Main} : pc'[c] = pc[c]
        /\ pc'[Main] \in {"test", "rpc"} => initialized /\ stub
    <3>1. pc' = [pc EXCEPT ![Main] = IF initialized THEN "test" ELSE "cache"]
      BY <1>3 DEF MainAsks, GetCredential
    <3>2. stub = initialized
      BY <1>3 DEF MainAsks
    <3>. QED
      BY <1>3, <3>1, <3>2 DEF MainAsks, GetCredential, TypeOK
  <2>. QED
    BY <2>1 DEF Returned, client
<1>4. ASSUME NEW c \in Callers, EngineAsks(c) PROVE UseOK'
  <2>1. /\ UNCHANGED <<client, engine>> /\ engine = "started" /\ c # Main
        /\ \A d \in Callers \ {c} : pc'[d] = pc[d]
    BY <1>4 DEF EngineAsks, Asking, GetCredential, TypeOK
  <2>. QED
    BY <2>1 DEF Returned, client
<1>5. ASSUME NEW c \in Callers, CallStep(c) PROVE UseOK'
  BY <1>5, CallMoves DEF CallStep
<1>6. CASE AccountService \/ UNCHANGED support_vars
  <2>1. UNCHANGED <<client, pc, engine>>
    BY <1>6 DEF AccountService, Service, Issue, Serve, support_vars, vars
  <2>. QED
    BY <2>1 DEF Returned, client
<1>7. CASE UseConfigBridge
  <2>1. UNCHANGED <<client, pc, engine>>
    BY <1>7 DEF UseConfigBridge, vars
  <2>. QED
    BY <2>1 DEF Returned, client
<1>8. CASE StartEngine
  <2>1. UNCHANGED <<client, pc>> /\ initialized /\ stub /\ engine' = "started"
    BY <1>8 DEF StartEngine, vars
  <2>. QED
    BY <2>1 DEF Returned, client
<1>9. CASE CallStop
  <2>1. UNCHANGED <<client, pc>> /\ engine = "started" /\ engine' = "stopping"
    BY <1>9 DEF CallStop, vars
  <2>. QED
    BY <2>1 DEF Returned, client
<1>10. CASE StopReturns
  <2>1. /\ UNCHANGED <<client, pc>> /\ engine = "stopping" /\ engine' = "stopped"
        /\ \A c \in Callers : Returned(c)
    BY <1>10 DEF StopReturns, vars
  <2>. QED
    BY <2>1 DEF Returned, client
<1>. QED
  BY <1>1, <1>2, <1>3, <1>4, <1>5, <1>6, <1>7, <1>8, <1>9, <1>10 DEF SupportNext

\* All that is invariant.
SupportInv == IInv /\ ConfigInv /\ UseOK

\* It holds in the beginning and every step keeps it.
LEMMA SupportInvariant == SupportSpec => []SupportInv
<1>1. SupportInit => SupportInv
  <2> SUFFICES ASSUME SupportInit PROVE SupportInv
    OBVIOUS
  <2>1. IInv /\ ConfigInv
    BY InitOK, ConfigInitOK DEF SupportInit
  <2>2. UseOK
    BY MainAssumption
       DEF SupportInit, Init, UseOK, EngineOK, EngineHasClient, CallsAreEngines,
           MainCallOnOpen, Returned
  <2>. QED
    BY <2>1, <2>2 DEF SupportInv
<1>2. SupportInv /\ [SupportNext]_support_vars => SupportInv'
  <2> SUFFICES ASSUME SupportInv, [SupportNext]_support_vars PROVE SupportInv'
    OBVIOUS
  <2>1. IInv' /\ ConfigInv'
    BY StepOK, ConfigStepOK, StepIsOfTheBridges DEF SupportInv
  <2>2. UseOK'
    BY UseStep DEF SupportInv, IInv
  <2>. QED
    BY <2>1, <2>2 DEF SupportInv
<1>. QED
  BY <1>1, <1>2, PTL DEF SupportSpec

\* Every variable has its type, as main and the engine use the bridges.
THEOREM SupportTypeCorrect == SupportSpec => []SupportTypeOK
<1>1. SupportInv => SupportTypeOK
  BY DEF SupportInv, IInv, ConfigInv, UseOK, EngineOK, SupportTypeOK
<1>. QED
  BY <1>1, SupportInvariant, PTL

\* No call, of main or of the engine's threads, uses a stub that was reset under it.
THEOREM StubOutlivesCalls == SupportSpec => []NoCallOnDeadStub
<1>1. SupportInv => NoCallOnDeadStub
  <2> SUFFICES ASSUME SupportInv, NEW c \in Callers, pc[c] = "rpc" PROVE stub
    BY DEF NoCallOnDeadStub
  <2>1. c = Main \/ engine \in {"started", "stopping"}
    BY DEF SupportInv, UseOK, CallsAreEngines, Returned
  <2>. QED
    BY <2>1 DEF SupportInv, UseOK, MainCallOnOpen, EngineHasClient
<1>. QED
  BY <1>1, SupportInvariant, PTL
=============================================================================
