----------------------------- MODULE ConfigBridge -----------------------------
(***************************************************************************)
(* GrpcConfigBridge (src/bridge) and its ConfigClient (src/client): one    *)
(* GetEngineConfig of config-service, whose answer is converted, tested    *)
(* and kept in three parts, the engine's configuration, the strategies and *)
(* the adapters' parameters, for main to read whenever it likes.           *)
(*                                                                         *)
(* The bridge is not given to the engine, so one thread uses it: Init and  *)
(* Shutdown may come again and again, never two at once.                   *)
(*                                                                         *)
(* Names, volumes and the limits of the risk settings are left out.        *)
(*                                                                         *)
(* The operators named Slip... are not the code: each is a plausible       *)
(* mistake in the definition that follows it, which a property must catch. *)
(***************************************************************************)
EXTENDS Integers, Sequences

CONSTANTS
  Messages,   \* the engine configurations the service may answer with
  DefaultStaleMs, DefaultArgument,
  Unset       \* an optional field that is not set, or nothing read yet

ASSUME ConfigAssumption ==
  /\ DefaultStaleMs \in Nat \ {0} /\ DefaultArgument \in Int
  /\ \A message \in Messages :
       /\ message.engine_id \in BOOLEAN /\ message.account_id \in BOOLEAN  \* given or not
       /\ message.quote_max_stale_ms \in Int
       /\ message.strategies \in Seq([window_size : Int \cup {Unset}])

VARIABLES
  config_open,    \* the client's initialized: it has a stub
  config_place,   \* "idle", or the place Init has reached
  config_result,  \* the error code of the last Init
  response,       \* the answer Init works on
  has_config,     \* has_config_
  engine_config, strategies, adapter_params  \* cache_, strategies_, adapter_params_

cached == <<has_config, engine_config, strategies, adapter_params>>
config_vars == <<config_open, config_place, config_result, response, cached>>

-----------------------------------------------------------------------------
(* Conversions *)

\* A limit that is missing (0 in proto3) or negative leaves the default.
ToEngineConfig(message) ==
  [engine_id |-> message.engine_id, account_id |-> message.account_id,
   quote_max_stale_ms |-> IF message.quote_max_stale_ms > 0 THEN message.quote_max_stale_ms
                          ELSE DefaultStaleMs]

SlipUnsetTaken(strategy) == strategy

\* An optional argument is taken when it is set, be it 0; window_size stands for the four.
ParseStrategyConfig(strategy) ==
  [strategy EXCEPT !.window_size = IF @ = Unset THEN DefaultArgument ELSE @]

ToStrategyConfigs(message) ==
  [i \in DOMAIN message.strategies |-> ParseStrategyConfig(message.strategies[i])]

-----------------------------------------------------------------------------
(* Init, Shutdown and what is read *)

ConfigReturn(from, code) == /\ config_place = from /\ config_place' = "idle"
                            /\ config_result' = code

\* The client that is open already refuses to open again, and Init with it.
InitConfig ==
  /\ config_place = "idle"
  /\ \/ ~ config_open /\ config_open' = TRUE
        /\ config_place' = "rpc" /\ UNCHANGED config_result
     \/ config_open /\ ConfigReturn("idle", "kSystemError") /\ UNCHANGED config_open
  /\ UNCHANGED <<response, cached>>

ConfigAnswered(message) ==
  /\ config_place = "rpc" /\ config_place' = "answered"
  /\ response' = message
  /\ UNCHANGED <<config_open, config_result, cached>>

\* The deadline passes or the connection fails.  The client stays open.
ConfigRpcFails ==
  /\ ConfigReturn("rpc", "kTimeout")
  /\ UNCHANGED <<config_open, response, cached>>

Valid(config) == config.engine_id /\ config.account_id

RefuseConfig ==
  /\ config_place = "answered" /\ ~ Valid(ToEngineConfig(response))
  /\ ConfigReturn("answered", "kInvalidArgument")
  /\ response' = Unset
  /\ UNCHANGED <<config_open, cached>>

SlipPartlyStored ==
  /\ config_place = "answered" /\ Valid(ToEngineConfig(response))
  /\ ConfigReturn("answered", "kSuccess")
  /\ has_config' = TRUE
  /\ engine_config' = IF has_config THEN engine_config ELSE ToEngineConfig(response)
  /\ strategies' = ToStrategyConfigs(response)
  /\ adapter_params' = response.adapter_params
  /\ response' = Unset
  /\ UNCHANGED config_open

\* The three parts change together, under the mutex.
StoreConfig ==
  /\ config_place = "answered" /\ Valid(ToEngineConfig(response))
  /\ ConfigReturn("answered", "kSuccess")
  /\ has_config' = TRUE
  /\ engine_config' = ToEngineConfig(response)
  /\ strategies' = ToStrategyConfigs(response)
  /\ adapter_params' = response.adapter_params
  /\ response' = Unset
  /\ UNCHANGED config_open

SlipShutdownForgets ==
  /\ config_place = "idle"
  /\ config_open' = FALSE
  /\ has_config' = FALSE
  /\ UNCHANGED <<config_place, config_result, response, engine_config, strategies,
                 adapter_params>>

\* What is cached stays readable.
ShutdownConfig ==
  /\ config_place = "idle"
  /\ config_open' = FALSE
  /\ UNCHANGED <<config_place, config_result, response, cached>>

\* GetEngineConfig, GetStrategies and GetAdapterLaunchParams.
GetEngineConfig ==
  IF has_config THEN [error_code |-> "kSuccess", data |-> engine_config]
  ELSE [error_code |-> "kNotInitialized", data |-> Unset]

GetStrategies == strategies
GetAdapterLaunchParams == adapter_params

-----------------------------------------------------------------------------
(* Specification *)

ConfigInit ==
  /\ config_open = FALSE
  /\ config_place = "idle" /\ config_result = "none"
  /\ response = Unset
  /\ has_config = FALSE
  /\ engine_config = Unset /\ strategies = <<>> /\ adapter_params = Unset

ConfigStep == ConfigRpcFails \/ RefuseConfig \/ StoreConfig

ConfigNext == \/ InitConfig \/ ShutdownConfig \/ ConfigStep
              \/ \E message \in Messages : ConfigAnswered(message)

ConfigSpec == ConfigInit /\ [][ConfigNext]_config_vars

-----------------------------------------------------------------------------
(* Properties *)

Parts(message) == <<ToEngineConfig(message), ToStrategyConfigs(message), message.adapter_params>>

\* Every variable has its type.
ConfigTypeOK ==
  /\ config_open \in BOOLEAN /\ has_config \in BOOLEAN
  /\ config_place \in {"idle", "rpc", "answered"}
  /\ config_result \in {"none", "kSuccess", "kSystemError", "kTimeout", "kInvalidArgument"}
  /\ response \in Messages \cup {Unset}
  /\ engine_config # Unset => engine_config.quote_max_stale_ms \in Nat \ {0}
  /\ \A i \in DOMAIN strategies : strategies[i].window_size \in Int
  /\ adapter_params \in {message.adapter_params : message \in Messages} \cup {Unset}

\* What main reads in three calls is one answer of the service, which names the engine
\* and the account, and no engine is told to take quotes for stale at once.
ReadsAreOneAnswer ==
  GetEngineConfig.error_code = "kSuccess" =>
    /\ \E message \in Messages :
         <<GetEngineConfig.data, GetStrategies, GetAdapterLaunchParams>> = Parts(message)
    /\ Valid(GetEngineConfig.data)
    /\ GetEngineConfig.data.quote_max_stale_ms > 0

\* Once there is a configuration it stays readable, and whole: only an Init that
\* succeeds replaces it, none that is refused, not answered or answered with rubbish.
ConfigStaysReadable ==
  [][/\ has_config => has_config'
     /\ cached' # cached => config_result' = "kSuccess"]_config_vars
=============================================================================
