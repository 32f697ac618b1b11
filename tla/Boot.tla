-------------------------------- MODULE Boot --------------------------------
(***************************************************************************)
(* main (src/main.cpp) from the configuration file to the exit: it makes   *)
(* the bridges of the services that are enabled, takes the remote          *)
(* configuration, builds and connects a pair of adapters, hands all of it  *)
(* to the engine, starts it, waits for a signal, and takes it down again.  *)
(* Any step may fail; main then leaves at once and the destructors run in  *)
(* the reverse order of the declarations: adapters, risk bridge, account   *)
(* bridge, config bridge, and last the engine.                             *)
(*                                                                         *)
(* The engine and the services are not part of the repository: a call of   *)
(* either succeeds or fails.  Ids and connection strings are kept only as  *)
(* far as main and the factories tell them apart.                          *)
(*                                                                         *)
(* The operators named Slip... are not the code: each is a plausible       *)
(* mistake in the definition that follows it, which a property must catch. *)
(***************************************************************************)
EXTENDS BootstrapConfig

CONSTANTS
  Files,        \* the configuration files the client may be started with
  Configs,      \* the engine configurations config-service may send
  Credentials,  \* the credentials account-service may send
  None          \* no configuration, no credential

ASSUME BootAssumption ==
  /\ \A f \in Files : IsFile(f)
  /\ None \notin Configs \cup Credentials
  /\ \A config \in Configs :
       /\ config.identity \in {"own", "other", "empty"}
       /\ config.execution_adapter \in {"", "mock", "emt", "other"}
       /\ config.quote_connection_string \in {"empty", "given"}
       /\ config.strategies \in Nat
  /\ \A credential \in Credentials :
       /\ credential.account_id \in {"own", "other"}
       /\ credential.complete \in BOOLEAN

VARIABLES
  place,       \* the place main has reached
  file,        \* the configuration file
  enabled,     \* the support services that are enabled
  bridges,     \* the bridges there are
  open,        \* those whose client is initialised
  config,      \* what the config bridge has cached, or None
  credential,  \* the credential the adapters were built with, or None
  adapter,     \* the kind of the two adapters: "none", "mock" or "emt"
  connected,   \* which of "quote" and "trader" is connected
  owner,       \* who has the adapters: "none", "main" or "engine"
  engine,      \* how far the engine is
  injected,    \* the bridges the engine has a pointer to
  strategies,  \* number of strategies the engine has
  ready,       \* whether readiness has been notified
  exit         \* EXIT_SUCCESS, EXIT_FAILURE, "aborted" or none so far

launch   == <<file, enabled, config>>
links    == <<bridges, open, injected>>
adapters == <<credential, adapter, connected, owner>>
outcome  == <<ready, exit>>
vars == <<place, launch, links, adapters, engine, strategies, outcome>>

Goto(from, to) == place = from /\ place' = to

\* return EXIT_FAILURE
Fail(from) == /\ Goto(from, "~adapters")
              /\ exit' = "failure"
              /\ UNCHANGED <<launch, links, adapters, engine, strategies, ready>>

Skip(from, to) == /\ Goto(from, to)
                  /\ UNCHANGED <<launch, links, adapters, engine, strategies, outcome>>

-----------------------------------------------------------------------------
(* Configuration *)

\* The options, the file, what it says or the log is wrong.
BootstrapFails ==
  /\ Goto("start", "gone")
  /\ exit' = "failure"
  /\ UNCHANGED <<launch, links, adapters, engine, strategies, ready>>

\* The parser throws.
BootstrapAborts ==
  /\ Parse(file) = "aborted"
  /\ Goto("start", "gone")
  /\ exit' = "aborted"
  /\ UNCHANGED <<launch, links, adapters, engine, strategies, ready>>

LoadBootstrapConfig ==
  /\ Parse(file) = "passed"
  /\ Goto("start", "engine")
  /\ enabled' = EnabledServices(file)
  /\ UNCHANGED <<file, config, links, adapters, engine, strategies, outcome>>

CreateEngine == /\ Goto("engine", "config_bridge")
                /\ engine' = "created"
                /\ UNCHANGED <<launch, links, adapters, strategies, outcome>>

\* GrpcConfigBridge::Init: the client, one GetEngineConfig, and a cache that is
\* filled only with a configuration that names engine and account.
InitConfigBridge ==
  /\ "config_service" \in enabled
  /\ Goto("config_bridge", "identity")
  /\ \E sent \in Configs :
       /\ sent.identity # "empty"
       /\ config' = sent
  /\ bridges' = bridges \cup {"config_service"}
  /\ open' = open \cup {"config_service"}
  /\ UNCHANGED <<file, enabled, injected, adapters, engine, strategies, outcome>>

\* The endpoint is refused, the RPC fails or the configuration names nobody; the
\* client stays open unless it was the endpoint.
ConfigBridgeFails ==
  /\ "config_service" \in enabled
  /\ Goto("config_bridge", "~adapters")
  /\ bridges' = bridges \cup {"config_service"}
  /\ \/ open' = open \cup {"config_service"}
     \/ UNCHANGED open
  /\ exit' = "failure"
  /\ UNCHANGED <<launch, injected, adapters, engine, strategies, ready>>

WithoutConfigBridge == /\ "config_service" \notin enabled
                       /\ Skip("config_bridge", "account_bridge")

\* GetEngineConfig returns the cache; a configuration for another engine is refused.
CheckIdentity ==
  /\ place = "identity"
  /\ \/ config.identity = "own" /\ Skip("identity", "account_bridge")
     \/ config.identity # "own" /\ Fail("identity")

-----------------------------------------------------------------------------
(* Account and risk bridges *)

\* The bridge of the service is made, initialised and given to the engine.
InitBridge(service, from, to) ==
  /\ service \in enabled
  /\ Goto(from, to)
  /\ bridges' = bridges \cup {service}
  /\ open' = open \cup {service}
  /\ injected' = injected \cup {service}
  /\ UNCHANGED <<launch, adapters, engine, strategies, outcome>>

BridgeFails(service, from) ==
  /\ service \in enabled
  /\ Goto(from, "~adapters")
  /\ bridges' = bridges \cup {service}
  /\ exit' = "failure"
  /\ UNCHANGED <<launch, open, injected, adapters, engine, strategies, ready>>

WithoutBridge(service, from, to) == service \notin enabled /\ Skip(from, to)

SlipConfigInjected ==
  /\ "account_service" \in enabled
  /\ Goto("account_bridge", "risk_bridge")
  /\ bridges' = bridges \cup {"account_service"}
  /\ open' = open \cup {"account_service"}
  /\ injected' = injected \cup {"config_service"}
  /\ UNCHANGED <<launch, adapters, engine, strategies, outcome>>

InitAccountBridge == InitBridge("account_service", "account_bridge", "risk_bridge")

AccountBridge == \/ InitAccountBridge
                 \/ BridgeFails("account_service", "account_bridge")
                 \/ WithoutBridge("account_service", "account_bridge", "risk_bridge")

InitRiskBridge == InitBridge("account_risk_service", "risk_bridge", "adapters")

RiskBridge == \/ InitRiskBridge
              \/ BridgeFails("account_risk_service", "risk_bridge")
              \/ WithoutBridge("account_risk_service", "risk_bridge", "adapters")

-----------------------------------------------------------------------------
(* Adapters *)

\* The kind the configuration asks for: mock without one.
ExecutionAdapter == IF config = None THEN "mock" ELSE config.execution_adapter

Launchable == config # None => /\ config.execution_adapter # ""
                               /\ config.quote_connection_string # "empty"

Create(kind, material) ==
  /\ Goto("adapters", "connect_quote")
  /\ credential' = material
  /\ adapter' = kind
  /\ owner' = "main"
  /\ UNCHANGED <<launch, links, connected, engine, strategies, outcome>>

CreateMockAdapters == Launchable /\ ExecutionAdapter = "mock" /\ Create("mock", None)

\* What the account bridge may answer: at this first call its cache is empty, so
\* only an open client can give a credential.
GetCredential == IF "account_service" \in open THEN Credentials ELSE {}

CreateEmtAdapters ==
  /\ Launchable /\ ExecutionAdapter = "emt"
  /\ \E material \in GetCredential :
       /\ material.account_id = "own" /\ material.complete
       /\ Create("emt", material)

\* No adapter of that kind, no string to connect to, no bridge to ask for the
\* credential, or no answer or a useless one.
AdaptersFail ==
  /\ ~ Launchable \/ ExecutionAdapter # "mock"
  /\ Fail("adapters")

\* MockQuoteApi connects; EmtQuoteApi says it does not support that, although it
\* notes that it is connected, and main gives up.
ConnectQuote ==
  \/ /\ adapter = "mock"
     /\ Goto("connect_quote", "connect_trader")
     /\ connected' = connected \cup {"quote"}
     /\ UNCHANGED <<launch, links, credential, adapter, owner, engine, strategies, outcome>>
  \/ /\ adapter = "emt"
     /\ Goto("connect_quote", "~adapters")
     /\ connected' = connected \cup {"quote"}
     /\ exit' = "failure"
     /\ UNCHANGED <<launch, links, credential, adapter, owner, engine, strategies, ready>>

\* MockTraderApi always connects, and no EMT pair comes this far.
ConnectTrader ==
  /\ Goto("connect_trader", "set_apis")
  /\ connected' = connected \cup {"trader"}
  /\ UNCHANGED <<launch, links, credential, adapter, owner, engine, strategies, outcome>>

SetApis ==
  /\ Goto("set_apis", "init")
  /\ owner' = "engine"
  /\ UNCHANGED <<launch, links, credential, adapter, connected, engine, strategies, outcome>>

-----------------------------------------------------------------------------
(* The engine *)

InitEngine ==
  \/ Fail("init")
  \/ /\ Goto("init", "load")
     /\ engine' = "initialized"
     /\ UNCHANGED <<launch, links, adapters, strategies, outcome>>

Planned == IF config = None THEN 0 ELSE config.strategies

SlipFailedStrategySkipped ==
  /\ strategies < Planned
  /\ \/ /\ Goto("load", "load")
        /\ strategies' = strategies + 1
        /\ UNCHANGED <<launch, links, adapters, engine, outcome>>
     \/ Skip("load", "start_engine")

\* The first strategy the engine does not take ends the boot.
AddStrategy ==
  /\ strategies < Planned
  /\ \/ /\ Goto("load", "load")
        /\ strategies' = strategies + 1
        /\ UNCHANGED <<launch, links, adapters, engine, outcome>>
     \/ Fail("load")

StrategiesLoaded == strategies = Planned /\ Skip("load", "start_engine")

SlipStartUnchecked ==
  /\ Goto("start_engine", "ready")
  /\ \/ engine' = "started"
     \/ UNCHANGED engine
  /\ UNCHANGED <<launch, links, adapters, strategies, outcome>>

StartEngine ==
  \/ Fail("start_engine")
  \/ /\ Goto("start_engine", "ready")
     /\ engine' = "started"
     /\ UNCHANGED <<launch, links, adapters, strategies, outcome>>

NotifyReady ==
  /\ Goto("ready", "run")
  /\ ready' = TRUE
  /\ UNCHANGED <<launch, links, adapters, engine, strategies, exit>>

SlipNotStopped == Skip("run", "shutdown_risk")

\* RunUntilShutdown: a signal comes and the engine is stopped.
RunUntilShutdown ==
  /\ Goto("run", "shutdown_risk")
  /\ engine' = "stopped"
  /\ UNCHANGED <<launch, links, adapters, strategies, outcome>>

ShutdownBridge(service, from, to) ==
  /\ Goto(from, to)
  /\ open' = open \ {service}
  /\ UNCHANGED <<launch, bridges, injected, adapters, engine, strategies, outcome>>

ShutdownRisk    == ShutdownBridge("account_risk_service", "shutdown_risk", "shutdown_account")
ShutdownAccount == ShutdownBridge("account_service", "shutdown_account", "shutdown_config")
ShutdownConfig  == ShutdownBridge("config_service", "shutdown_config", "return")

ReturnSuccess ==
  /\ Goto("return", "~adapters")
  /\ exit' = "success"
  /\ UNCHANGED <<launch, links, adapters, engine, strategies, ready>>

-----------------------------------------------------------------------------
(* The destructors, in the reverse order of the declarations *)

SlipAdaptersKept == Skip("~adapters", "~risk")

\* Adapters main still has disconnect as they go; those of the engine stay.
DestroyAdapters ==
  /\ Goto("~adapters", "~risk")
  /\ connected' = IF owner = "main" THEN {} ELSE connected
  /\ owner' = IF owner = "main" THEN "none" ELSE owner
  /\ UNCHANGED <<launch, links, credential, adapter, engine, strategies, outcome>>

\* A bridge closes its client as it goes.  The engine keeps its pointer.
DestroyBridge(service, from, to) ==
  /\ Goto(from, to)
  /\ bridges' = bridges \ {service}
  /\ open' = open \ {service}
  /\ UNCHANGED <<launch, injected, adapters, engine, strategies, outcome>>

DestroyRisk    == DestroyBridge("account_risk_service", "~risk", "~account")
DestroyAccount == DestroyBridge("account_service", "~account", "~config")
DestroyConfig  == DestroyBridge("config_service", "~config", "~engine")

DestroyEngine ==
  /\ Goto("~engine", "gone")
  /\ engine' = "destroyed"
  /\ connected' = IF owner = "engine" THEN {} ELSE connected
  /\ owner' = IF owner = "engine" THEN "none" ELSE owner
  /\ UNCHANGED <<launch, links, credential, adapter, strategies, outcome>>

-----------------------------------------------------------------------------
(* Specification *)

Init ==
  /\ place = "start"
  /\ file \in Files /\ enabled = {} /\ config = None
  /\ bridges = {} /\ open = {} /\ injected = {}
  /\ credential = None /\ adapter = "none" /\ connected = {} /\ owner = "none"
  /\ engine = "none" /\ strategies = 0
  /\ ready = FALSE /\ exit = "none"

Prepare == \/ BootstrapFails \/ BootstrapAborts \/ LoadBootstrapConfig \/ CreateEngine
           \/ InitConfigBridge \/ ConfigBridgeFails \/ WithoutConfigBridge \/ CheckIdentity
           \/ AccountBridge \/ RiskBridge

Assemble == \/ CreateMockAdapters \/ CreateEmtAdapters \/ AdaptersFail
            \/ ConnectQuote \/ ConnectTrader \/ SetApis
            \/ InitEngine \/ AddStrategy \/ StrategiesLoaded \/ StartEngine \/ NotifyReady

Shutdown == \/ ShutdownRisk \/ ShutdownAccount \/ ShutdownConfig \/ ReturnSuccess

Unwind == DestroyAdapters \/ DestroyRisk \/ DestroyAccount \/ DestroyConfig \/ DestroyEngine

Gone == place = "gone" /\ UNCHANGED vars

Next == Prepare \/ Assemble \/ RunUntilShutdown \/ Shutdown \/ Unwind \/ Gone

Spec == Init /\ [][Next]_vars

-----------------------------------------------------------------------------
(* Properties *)

Places == {"start", "engine", "config_bridge", "identity", "account_bridge", "risk_bridge",
           "adapters", "connect_quote", "connect_trader", "set_apis", "init", "load",
           "start_engine", "ready", "run", "shutdown_risk", "shutdown_account",
           "shutdown_config", "return", "~adapters", "~risk", "~account", "~config",
           "~engine", "gone"}

\* Every variable has its type.
TypeOK ==
  /\ place \in Places
  /\ file \in Files /\ enabled \subseteq Services /\ bridges \subseteq enabled /\ open \subseteq bridges
  /\ injected \subseteq enabled \ {"config_service"}
  /\ config \in Configs \cup {None} /\ credential \in Credentials \cup {None}
  /\ adapter \in {"none", "mock", "emt"}
  /\ connected \subseteq {"quote", "trader"}
  /\ owner \in {"none", "main", "engine"}
  /\ engine \in {"none", "created", "initialized", "started", "stopped", "destroyed"}
  /\ strategies \in Nat
  /\ ready \in BOOLEAN /\ exit \in {"none", "success", "failure", "aborted"}

\* The file alone decides what the client is: an engine is made only from one that is
\* complete, with the services it enables, the parser takes every complete file of
\* texts, and the process aborts only because of an entry that is not a text.
FileDecides ==
  /\ place = "start" /\ Complete(file) /\ ~ NotAText(file) => Parse(file) = "passed"
  /\ engine # "none" => /\ Complete(file)
                        /\ enabled = {name \in Services :
                                        \E e \in Entries : FirstOf(file, name, e) /\ e.enabled}
  /\ exit = "aborted" => NotAText(file)

\* An engine is started only when all that was configured is there: a bridge for
\* each enabled service, the configuration of this very engine when config-service
\* is enabled, both adapters connected and every strategy added.
StartedIsComplete ==
  engine = "started" =>
    /\ injected = enabled \ {"config_service"}
    /\ "config_service" \in enabled => config # None /\ config.identity = "own"
    /\ owner = "engine" /\ connected = {"quote", "trader"}
    /\ strategies = Planned

\* Readiness is told of an engine that runs, and the exit status tells whether it
\* was: main fails before it is ready or succeeds after the engine has stopped.
ExitTellsReadiness ==
  /\ ready => engine \in {"started", "stopped", "destroyed"}
  /\ exit = "success" => ready
  /\ exit = "failure" => ~ ready /\ engine # "started"

\* Wherever the boot ends, nothing is left connected, open or alive.
NothingIsLeft ==
  place = "gone" =>
    /\ connected = {} /\ owner = "none"
    /\ bridges = {} /\ open = {}
    /\ engine \in {"none", "destroyed"}

\* What the engine sees of the boot.
Contract == INSTANCE EngineContract WITH
  Bridges <- Services \ {"config_service"},
  open <- open \ {"config_service"},
  apis <- owner = "engine" /\ connected = {"quote", "trader"}

\* The boot uses the engine as its interface asks: bridges open before they are
\* injected and until it has stopped, adapters connected before they are set,
\* strategies only once it is initialised.
EngineUsedAsAgreed == Contract!Spec

-----------------------------------------------------------------------------
(* What the documents say *)

\* In production config-service sends the adapter's kind, emt for instance (README.md,
\* "生产/联调柜台时由 config-service 下发适配器类型（如 `emt`）及连接串"): EMT adapters that were
\* built, with the right credential, connect, so that only the engine can still fail.
EmtConnects == adapter = "emt" /\ exit = "failure" => connected = {"quote", "trader"}
=============================================================================
