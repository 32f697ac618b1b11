----------------------------- MODULE BootProofs -----------------------------
(***************************************************************************)
(* Proofs about Boot: the file decides what main makes; whatever file,     *)
(* configuration and credential come, and whichever step fails, main gives *)
(* the engine what it needs before it starts, tells of readiness only what *)
(* is true, takes everything down, and uses the engine as EngineContract   *)
(* asks.                                                                   *)
(***************************************************************************)
EXTENDS Boot, WellFoundedInduction, TLAPS

-----------------------------------------------------------------------------
(* What is true at the places main comes to, in their order *)

Beginning == {"start", "engine"}
Bridging  == {"config_bridge", "identity", "account_bridge", "risk_bridge", "adapters"}
Adapting  == {"connect_quote", "connect_trader", "set_apis"}
Loading   == {"load", "start_engine"}
Running   == {"ready", "run"}
Closing   == {"shutdown_risk", "shutdown_account", "shutdown_config", "return"}
Unwinding == {"~adapters", "~risk", "~account", "~config", "~engine"}

\* How far the engine is.
EngineOK ==
  /\ place \in Beginning => engine = "none"
  /\ place \in Bridging \cup Adapting \cup {"init"} => engine = "created"
  /\ place \in Loading => engine = "initialized"
  /\ place \in Running => engine = "started"
  /\ place \in Closing => engine = "stopped"
  /\ place \in Unwinding => /\ engine \in {"created", "initialized", "stopped"}
                            /\ ready => engine = "stopped"
  /\ place = "gone" => /\ engine \in {"none", "destroyed"}
                       /\ ready => engine = "destroyed"

\* What main has said.
OutcomeOK ==
  /\ place \in Beginning \cup Bridging \cup Adapting \cup Loading \cup {"init", "ready"} => ~ ready
  /\ place \in {"run"} \cup Closing => ready
  /\ place \notin Unwinding \cup {"gone"} => exit = "none"
  /\ exit = "success" => ready
  /\ exit = "failure" => ~ ready

\* Which bridges there are and which the engine has.
BridgesOK ==
  /\ place \in Beginning => bridges = {} /\ open = {}
  /\ place \in {"config_bridge", "identity", "account_bridge"} \cup Beginning => injected = {}
  /\ place = "risk_bridge" => injected = enabled \cap {"account_service"}
  /\ place \in {"adapters", "init"} \cup Adapting \cup Loading \cup Running =>
       injected = enabled \ {"config_service"}
  /\ place \notin Closing \cup Unwinding \cup {"gone"} => injected \subseteq open
  /\ place \in {"~account", "~config", "~engine"} => "account_risk_service" \notin bridges
  /\ place \in {"~config", "~engine"} => "account_service" \notin bridges
  /\ place \in {"~engine", "gone"} => bridges = {}

\* The configuration main has taken is its own.
ConfigOK ==
  /\ place \in Beginning \cup {"config_bridge"} => config = None
  /\ place = "identity" => config # None
  /\ /\ "config_service" \in enabled
     /\ \/ place \in {"account_bridge", "risk_bridge", "adapters", "init"}
        \/ place \in Adapting \cup Loading \cup Running
     => config # None /\ config.identity = "own"

\* Who has the adapters, and which are connected.
AdaptersOK ==
  /\ owner = "none" => connected = {}
  /\ place \in Beginning \cup Bridging => owner = "none"
  /\ place \in Adapting => owner = "main"
  /\ place = "connect_quote" => connected = {}
  /\ place = "connect_trader" => connected = {"quote"}
  /\ place \in {"set_apis", "init"} \cup Loading \cup Running => connected = {"quote", "trader"}
  /\ place \in {"init"} \cup Loading \cup Running => owner = "engine"
  /\ place \in {"~risk", "~account", "~config", "~engine"} => owner \in {"none", "engine"}
  /\ place = "gone" => owner = "none"
  /\ place \in Running \cup {"start_engine"} => strategies = Planned

IInv == TypeOK /\ EngineOK /\ OutcomeOK /\ BridgesOK /\ ConfigOK /\ AdaptersOK

\* The initial states.
LEMMA InitOK == Init => IInv
<1> SUFFICES ASSUME Init PROVE IInv
  OBVIOUS
<1> USE DEF Init, Beginning, Bridging, Adapting, Loading, Running, Closing, Unwinding
<1>1. TypeOK
  <2>1. ready \in BOOLEAN
    BY Zenon
  <2>. QED
    BY <2>1 DEF TypeOK, Places
<1>2. EngineOK /\ OutcomeOK /\ BridgesOK /\ ConfigOK /\ AdaptersOK
  BY DEF EngineOK, OutcomeOK, BridgesOK, ConfigOK, AdaptersOK
<1>. QED
  BY <1>1, <1>2 DEF IInv

\* main leaves: return EXIT_FAILURE before the engine has started.
LEMMA FailOK ==
  ASSUME IInv, NEW from \in {"identity", "adapters", "init", "load", "start_engine"}, Fail(from)
  PROVE  IInv'
<1> USE DEF IInv, Beginning, Bridging, Adapting, Loading, Running, Closing, Unwinding
<1>1. /\ place = from /\ place' = "~adapters" /\ exit' = "failure"
      /\ UNCHANGED <<launch, links, adapters, engine, strategies, ready>>
  BY DEF Fail, Goto
<1>2. TypeOK'
  BY <1>1 DEF TypeOK, Places, launch, links, adapters
<1>3. EngineOK' /\ OutcomeOK'
  BY <1>1 DEF EngineOK, OutcomeOK
<1>4. BridgesOK' /\ ConfigOK' /\ AdaptersOK'
  BY <1>1 DEF BridgesOK, ConfigOK, AdaptersOK, launch, links, adapters
<1>. QED
  BY <1>2, <1>3, <1>4

\* main goes on and does nothing else.
LEMMA SkipOK ==
  ASSUME IInv, NEW from, NEW to, Skip(from, to),
         \/ from = "config_bridge" /\ to = "account_bridge" /\ "config_service" \notin enabled
         \/ from = "identity" /\ to = "account_bridge" /\ config.identity = "own"
         \/ from = "account_bridge" /\ to = "risk_bridge" /\ "account_service" \notin enabled
         \/ from = "risk_bridge" /\ to = "adapters" /\ "account_risk_service" \notin enabled
         \/ from = "load" /\ to = "start_engine" /\ strategies = Planned
  PROVE  IInv'
<1> USE DEF IInv, Beginning, Bridging, Adapting, Loading, Running, Closing, Unwinding
<1>1. /\ place = from /\ place' = to
      /\ UNCHANGED <<launch, links, adapters, engine, strategies, outcome>>
  BY DEF Skip, Goto
<1>2. TypeOK'
  BY <1>1 DEF TypeOK, Places, launch, links, adapters, outcome
<1>3. EngineOK' /\ OutcomeOK'
  BY <1>1 DEF EngineOK, OutcomeOK, outcome
<1>4. BridgesOK'
  BY <1>1 DEF BridgesOK, TypeOK, Services, launch, links
<1>5. ConfigOK'
  BY <1>1 DEF ConfigOK, launch, adapters
<1>6. AdaptersOK'
  BY <1>1 DEF AdaptersOK, launch, adapters, Planned
<1>. QED
  BY <1>2, <1>3, <1>4, <1>5, <1>6

\* From the file to the risk bridge.
LEMMA PrepareOK == ASSUME IInv, Prepare PROVE IInv'
<1> USE DEF IInv, Beginning, Bridging, Adapting, Loading, Running, Closing, Unwinding
<1> USE DEF EngineOK, OutcomeOK, BridgesOK, ConfigOK, AdaptersOK, TypeOK, Goto
<1> USE DEF launch, links, adapters, outcome
<1>1. CASE BootstrapFails \/ BootstrapAborts
  <2>1. CASE BootstrapFails
    BY <2>1 DEF BootstrapFails, Places
  <2>2. CASE BootstrapAborts
    BY <2>2 DEF BootstrapAborts, Places
  <2>. QED
    BY <1>1, <2>1, <2>2
<1>2. CASE LoadBootstrapConfig
  BY <1>2 DEF LoadBootstrapConfig, Places, EnabledServices
<1>3. CASE CreateEngine
  BY <1>3 DEF CreateEngine, Places
<1>4. CASE InitConfigBridge
  BY <1>4, BootAssumption DEF InitConfigBridge, Places
<1>5. CASE ConfigBridgeFails
  BY <1>5 DEF ConfigBridgeFails, Places
<1>6. CASE WithoutConfigBridge
  BY <1>6, SkipOK DEF WithoutConfigBridge
<1>7. CASE CheckIdentity
  BY <1>7, SkipOK, FailOK DEF CheckIdentity
<1>8. CASE InitAccountBridge
  BY <1>8 DEF InitAccountBridge, InitBridge, Places, Services
<1>9. CASE InitRiskBridge
  <2>1. TypeOK' /\ BridgesOK'
    BY <1>9 DEF InitRiskBridge, InitBridge, Places, Services
  <2>2. EngineOK' /\ OutcomeOK' /\ ConfigOK' /\ AdaptersOK'
    BY <1>9 DEF InitRiskBridge, InitBridge
  <2>. QED
    BY <2>1, <2>2
<1>10. CASE \/ BridgeFails("account_service", "account_bridge")
            \/ BridgeFails("account_risk_service", "risk_bridge")
  <2>1. CASE BridgeFails("account_service", "account_bridge")
    BY <2>1 DEF BridgeFails, Places
  <2>2. CASE BridgeFails("account_risk_service", "risk_bridge")
    BY <2>2 DEF BridgeFails, Places
  <2>. QED
    BY <1>10, <2>1, <2>2
<1>11. CASE \/ WithoutBridge("account_service", "account_bridge", "risk_bridge")
            \/ WithoutBridge("account_risk_service", "risk_bridge", "adapters")
  BY <1>11, SkipOK DEF WithoutBridge
<1>. QED
  BY <1>1, <1>2, <1>3, <1>4, <1>5, <1>6, <1>7, <1>8, <1>9, <1>10, <1>11
     DEF Prepare, AccountBridge, RiskBridge

\* From the adapters to readiness.
LEMMA AssembleOK == ASSUME IInv, Assemble PROVE IInv'
<1> USE DEF IInv, Beginning, Bridging, Adapting, Loading, Running, Closing, Unwinding
<1> USE DEF EngineOK, OutcomeOK, BridgesOK, ConfigOK, AdaptersOK, TypeOK, Goto
<1> USE DEF launch, links, adapters, outcome
<1>1. CASE CreateMockAdapters
  BY <1>1 DEF CreateMockAdapters, Create, Places
<1>2. CASE CreateEmtAdapters
  <2>1. PICK material \in GetCredential : Create("emt", material)
    BY <1>2 DEF CreateEmtAdapters
  <2>2. material \in Credentials
    BY <2>1 DEF GetCredential
  <2>. QED
    BY <2>1, <2>2 DEF Create, Places
<1>3. CASE AdaptersFail
  BY <1>3, FailOK DEF AdaptersFail
<1>4. CASE ConnectQuote
  <2>1. TypeOK'
    BY <1>4 DEF ConnectQuote, Places
  <2>2. EngineOK' /\ OutcomeOK'
    BY <1>4 DEF ConnectQuote, Places
  <2>3. BridgesOK'
    BY <1>4 DEF ConnectQuote, Places
  <2>4. ConfigOK'
    BY <1>4 DEF ConnectQuote, Places
  <2>5. AdaptersOK'
    BY <1>4 DEF ConnectQuote, Places
  <2>. QED
    BY <2>1, <2>2, <2>3, <2>4, <2>5
<1>5. CASE ConnectTrader
  BY <1>5 DEF ConnectTrader, Places
<1>6. CASE SetApis
  BY <1>6 DEF SetApis, Places
<1>7. CASE InitEngine
  BY <1>7, FailOK DEF InitEngine, Places
<1>8. CASE AddStrategy
  BY <1>8, FailOK DEF AddStrategy, Places
<1>9. CASE StrategiesLoaded
  BY <1>9, SkipOK DEF StrategiesLoaded
<1>10. CASE StartEngine
  BY <1>10, FailOK DEF StartEngine, Places, Planned
<1>11. CASE NotifyReady
  BY <1>11 DEF NotifyReady, Places, Planned
<1>. QED
  BY <1>1, <1>2, <1>3, <1>4, <1>5, <1>6, <1>7, <1>8, <1>9, <1>10, <1>11 DEF Assemble

\* From the signal to the end.
LEMMA EndOK == ASSUME IInv, RunUntilShutdown \/ Shutdown \/ Unwind \/ Gone PROVE IInv'
<1> USE DEF IInv, Beginning, Bridging, Adapting, Loading, Running, Closing, Unwinding
<1> USE DEF EngineOK, OutcomeOK, BridgesOK, ConfigOK, AdaptersOK, TypeOK, Goto
<1> USE DEF launch, links, adapters, outcome
<1>1. CASE RunUntilShutdown
  BY <1>1 DEF RunUntilShutdown, Places
<1>2. CASE ShutdownRisk \/ ShutdownAccount \/ ShutdownConfig
  BY <1>2 DEF ShutdownRisk, ShutdownAccount, ShutdownConfig, ShutdownBridge, Places
<1>3. CASE ReturnSuccess
  BY <1>3 DEF ReturnSuccess, Places
<1>4. CASE DestroyAdapters
  <2>1. TypeOK'
    BY <1>4 DEF DestroyAdapters, Places
  <2>2. EngineOK' /\ OutcomeOK'
    BY <1>4 DEF DestroyAdapters, Places
  <2>3. BridgesOK'
    BY <1>4 DEF DestroyAdapters, Places
  <2>4. ConfigOK'
    BY <1>4 DEF DestroyAdapters, Places
  <2>5. AdaptersOK'
    BY <1>4 DEF DestroyAdapters, Places
  <2>. QED
    BY <2>1, <2>2, <2>3, <2>4, <2>5
<1>5. CASE DestroyRisk \/ DestroyAccount \/ DestroyConfig
  <2>1. CASE DestroyRisk
    BY <2>1 DEF DestroyRisk, DestroyBridge, Places
  <2>2. CASE DestroyAccount
    BY <2>2 DEF DestroyAccount, DestroyBridge, Places
  <2>3. CASE DestroyConfig
    BY <2>3 DEF DestroyConfig, DestroyBridge, Places, Services
  <2>. QED
    BY <1>5, <2>1, <2>2, <2>3
<1>6. CASE DestroyEngine
  BY <1>6 DEF DestroyEngine, Places
<1>7. CASE Gone
  BY <1>7 DEF Gone, vars, Planned
<1>. QED
  BY <1>1, <1>2, <1>3, <1>4, <1>5, <1>6, <1>7 DEF Shutdown, Unwind

\* Every step keeps the invariant.
LEMMA StepOK == IInv /\ [Next]_vars => IInv'
<1> SUFFICES ASSUME IInv, [Next]_vars PROVE IInv'
  OBVIOUS
<1>1. CASE UNCHANGED vars
  BY <1>1 DEF IInv, TypeOK, EngineOK, OutcomeOK, BridgesOK, ConfigOK, AdaptersOK, Planned,
              vars, launch, links, adapters, outcome
<1>. QED
  BY <1>1, PrepareOK, AssembleOK, EndOK DEF Next

\* IInv is an invariant.
LEMMA Invariant == Spec => []IInv
<1>. QED
  BY InitOK, StepOK, PTL DEF Spec

\* Every variable has its type, whatever fails.
THEOREM BootTypeCorrect == Spec => []TypeOK
<1>1. IInv => TypeOK
  BY DEF IInv
<1>. QED
  BY <1>1, Invariant, PTL

\* An engine is started only when all that was configured is there.
THEOREM StartIsComplete == Spec => []StartedIsComplete
<1>1. IInv => StartedIsComplete
  <2> SUFFICES ASSUME IInv, engine = "started" PROVE StartedIsComplete
    BY DEF StartedIsComplete
  <2>1. place \in Running
    BY DEF IInv, TypeOK, Places, EngineOK, Beginning, Bridging, Adapting, Loading, Running,
           Closing, Unwinding
  <2>. QED
    BY <2>1 DEF IInv, BridgesOK, ConfigOK, AdaptersOK, StartedIsComplete
<1>. QED
  BY <1>1, Invariant, PTL

\* Readiness is told of an engine that runs, and the exit status tells whether it was.
THEOREM ExitIsTrue == Spec => []ExitTellsReadiness
<1>1. IInv => ExitTellsReadiness
  BY DEF IInv, TypeOK, Places, EngineOK, OutcomeOK, Beginning, Bridging, Adapting, Loading,
         Running, Closing, Unwinding, ExitTellsReadiness
<1>. QED
  BY <1>1, Invariant, PTL

\* Wherever the boot ends, nothing is left connected, open or alive.
THEOREM AllIsTakenDown == Spec => []NothingIsLeft
<1>1. IInv => NothingIsLeft
  BY DEF IInv, TypeOK, EngineOK, BridgesOK, AdaptersOK, NothingIsLeft
<1>. QED
  BY <1>1, Invariant, PTL

-----------------------------------------------------------------------------
(* The parser *)

\* A set of numbers has a least one.
LEMMA LeastIndex ==
  ASSUME NEW I \in SUBSET Nat, I # {}
  PROVE  Min(I) \in I /\ \A j \in I : Min(I) <= j
<1>1. \A i, j \in Nat : j < i => <<j, i>> \in OpToRel(<, Nat)
  BY Zenon DEF OpToRel
<1>2. PICK i \in I : \A j \in I : ~ (<<j, i>> \in OpToRel(<, Nat))
  BY NatLessThanWellFounded, WFMin
<1>3. \A j \in I : ~ (j < i)
  BY <1>1, <1>2, Zenon
<1>4. \A j \in I : i <= j
  BY <1>3
<1>. QED
  BY <1>4 DEF Min

\* An entry at which the search for a service ends.
Hit(e, name) == e.object /\ e.name \in {name, "not a text"}

\* Where the search for a service ends.
LEMMA WhereItEnds ==
  ASSUME NEW f, NEW seq \in Seq(Entries), f.services = seq, NEW name,
         NEW i, i = ParseSupportServiceByName(f, name)
  PROVE  \/ i = 0 /\ \A j \in 1 .. Len(seq) : ~ Hit(seq[j], name)
         \/ /\ i \in 1 .. Len(seq) /\ Hit(seq[i], name)
            /\ \A j \in 1 .. i - 1 : ~ Hit(seq[j], name)
<1> DEFINE hits == {j \in 1 .. Len(seq) : Hit(seq[j], name)}
<1>1. i = IF hits # {} THEN Min(hits) ELSE 0
  BY DEF ParseSupportServiceByName, SelectInSeq, Hit
<1>2. Len(seq) \in Nat
  OBVIOUS
<1>3. \A j \in hits : j \in Nat /\ j <= Len(seq)
  BY <1>2
<1>4. CASE hits = {}
  BY <1>1, <1>4
<1>5. CASE hits # {}
  <2>1. i \in hits /\ \A j \in hits : i <= j
    BY <1>1, <1>3, <1>5, LeastIndex
  <2>. QED
    BY <2>1, <1>2
<1>. QED
  BY <1>4, <1>5

\* The tests of the parser, in their order.
Tests(f) ==
        << Section(f, "root"), Section(f, "config"), Section(f, "support_services"),
           Section(f, "identity"), Section(f, "strategy"),
           TextsOf(f, LogTexts, "given"), TextsOf(f, IdentityTexts, "empty"),
           TextsOf(f, {"plugin_dir"}, "empty"), SupportServices(f) >>

\* The parser says what the first test that is not passed says.
LEMMA FirstVerdict ==
  ASSUME NEW f
  PROVE  \/ /\ \A i \in 1 .. 9 : Tests(f)[i] = "passed"
            /\ Parse(f) = RiskTimeout(f)
         \/ \E i \in 1 .. 9 : Tests(f)[i] # "passed" /\ Parse(f) = Tests(f)[i]
<1> DEFINE tests == Tests(f)
           bad == {i \in 1 .. 9 : tests[i] # "passed"}
           first == IF bad # {} THEN Min(bad) ELSE 0
<1>1. Parse(f) = IF first # 0 THEN tests[first] ELSE RiskTimeout(f)
  BY DEF Parse, Tests, SelectInSeq
<1>2. bad # {} => Min(bad) \in bad
  BY LeastIndex
<1>. QED
  BY <1>1, <1>2

\* There is one first entry of a service.
LEMMA OneFirst ==
  ASSUME NEW f, f.services \in Seq(Entries), NEW name, NEW d, NEW e, FirstOf(f, name, d), FirstOf(f, name, e)
  PROVE  d = e
<1>1. PICK seq \in Seq(Entries) : seq = f.services
  OBVIOUS
<1>2. Len(seq) \in Nat /\ DOMAIN seq = 1 .. Len(seq)
  OBVIOUS
<1>3. PICK i \in 1 .. Len(seq) :
        /\ seq[i] = d /\ d.object /\ d.name = name
        /\ \A j \in 1 .. i - 1 : ~ (seq[j].object /\ seq[j].name = name)
  BY <1>1, <1>2 DEF FirstOf
<1>4. PICK k \in 1 .. Len(seq) :
        /\ seq[k] = e /\ e.object /\ e.name = name
        /\ \A j \in 1 .. k - 1 : ~ (seq[j].object /\ seq[j].name = name)
  BY <1>1, <1>2 DEF FirstOf
<1>5. i = k
  BY <1>2, <1>3, <1>4
<1>. QED
  BY <1>3, <1>4, <1>5

\* What the end of the search says of a service.
LEMMA ServiceVerdict ==
  ASSUME NEW f, IsFile(f), NEW name \in Services
  PROVE  /\ Service(f, name) \in {"passed", "refused", "aborted"}
         /\ Service(f, name) = "aborted" => NotAText(f)
         /\ Service(f, name) = "passed" =>
              FirstOf(f, name, Endpoint(f, name)) /\ Endpoint(f, name) \in Entries /\ Endpoint(f, name).usable
         /\ ~ NotAText(f) => \A e \in Entries : FirstOf(f, name, e) /\ e.usable => Service(f, name) = "passed"
<1>1. PICK seq \in Seq(Entries) : seq = f.services
  BY DEF IsFile
<1>2. Len(seq) \in Nat /\ DOMAIN seq = 1 .. Len(seq)
  OBVIOUS
<1>3. name # "not a text"
  BY DEF Services
<1>4. PICK i : i = ParseSupportServiceByName(f, name)
  OBVIOUS
<1>5. CASE i = 0 /\ \A j \in 1 .. Len(seq) : ~ Hit(seq[j], name)
  <2>1. Service(f, name) = "refused"
    BY <1>4, <1>5 DEF Service
  <2>2. \A e \in Entries : ~ FirstOf(f, name, e)
    BY <1>1, <1>2, <1>5 DEF FirstOf, Hit
  <2>. QED
    BY <2>1, <2>2
<1>6. CASE /\ i \in 1 .. Len(seq) /\ Hit(seq[i], name)
           /\ \A j \in 1 .. i - 1 : ~ Hit(seq[j], name)
  <2>1. i # 0 /\ i \in DOMAIN seq
    BY <1>2, <1>6
  <2>2. seq[i] \in Entries
    BY <1>6
  <2>3. Service(f, name) = IF seq[i].name = "not a text" THEN "aborted"
                           ELSE IF seq[i].usable THEN "passed" ELSE "refused"
    <3>1. Service(f, name) = CASE i = 0 -> "refused"
                               [] i # 0 /\ seq[i].name = "not a text" -> "aborted"
                               [] i # 0 /\ seq[i].name = name ->
                                    IF seq[i].usable THEN "passed" ELSE "refused"
      BY <1>1, <1>4 DEF Service
    <3>2. seq[i].name = "not a text" \/ seq[i].name = name
      BY <1>6 DEF Hit
    <3>. QED
      BY <1>3, <2>1, <3>1, <3>2
  <2>4. CASE seq[i].name = "not a text"
    <3>1. NotAText(f)
      BY <1>1, <2>1, <2>4 DEF NotAText
    <3>. QED
      BY <2>3, <2>4, <3>1
  <2>5. CASE seq[i].name # "not a text"
    <3>1. seq[i].object /\ seq[i].name = name
      BY <1>6, <2>5 DEF Hit
    <3>2. FirstOf(f, name, seq[i])
      <4>1. \A j \in 1 .. i - 1 : ~ (seq[j].object /\ seq[j].name = name)
        BY <1>6 DEF Hit
      <4>. QED
        BY <1>1, <2>1, <3>1, <4>1 DEF FirstOf
    <3>3. Endpoint(f, name) = seq[i]
      BY <1>1, <1>4 DEF Endpoint
    <3>4. \A e : FirstOf(f, name, e) => e = seq[i]
      BY <1>1, <3>2, OneFirst
    <3>. QED
      BY <2>2, <2>3, <2>5, <3>2, <3>3, <3>4
  <2>. QED
    BY <2>4, <2>5
<1>. QED
  BY <1>1, <1>4, <1>5, <1>6, WhereItEnds

\* What is said of some of the text entries.
LEMMA TextsVerdict ==
  ASSUME NEW f, IsFile(f), NEW names \in SUBSET Texts, NEW default \in {"given", "empty"}
  PROVE  /\ TextsOf(f, names, default) \in {"passed", "refused", "aborted"}
         /\ TextsOf(f, names, default) = "aborted" => NotAText(f)
         /\ TextsOf(f, names, default) = "passed" <=>
              \A n \in names : f.texts[n] = "given" \/ (f.texts[n] = "missing" /\ default = "given")
<1>1. \A n \in names : f.texts[n] \in {"missing", "given", "empty", "not a text"}
  BY DEF IsFile
<1>. QED
  BY <1>1 DEF TextsOf, Value, NotAText

\* What the parser accepts, and of what it throws.
LEMMA ParseVerdict ==
  ASSUME NEW f, IsFile(f)
  PROVE  /\ Parse(f) = "aborted" => NotAText(f)
         /\ Parse(f) = "passed" =>
              /\ Complete(f)
              /\ EnabledServices(f) = {name \in Services : \E e \in Entries : FirstOf(f, name, e) /\ e.enabled}
         /\ Complete(f) /\ ~ NotAText(f) => Parse(f) = "passed"
<1> DEFINE t == Tests(f)
<1>1. /\ t[1] = Section(f, "root") /\ t[2] = Section(f, "config")
      /\ t[3] = Section(f, "support_services") /\ t[4] = Section(f, "identity")
      /\ t[5] = Section(f, "strategy") /\ t[6] = TextsOf(f, LogTexts, "given")
      /\ t[7] = TextsOf(f, IdentityTexts, "empty") /\ t[8] = TextsOf(f, {"plugin_dir"}, "empty")
      /\ t[9] = SupportServices(f)
  BY DEF Tests
<1>2. 1 .. 9 = {1, 2, 3, 4, 5, 6, 7, 8, 9}
  OBVIOUS
<1>3. \/ (\A i \in 1 .. 9 : t[i] = "passed") /\ Parse(f) = RiskTimeout(f)
      \/ \E i \in 1 .. 9 : t[i] # "passed" /\ Parse(f) = t[i]
  BY FirstVerdict
<1> HIDE DEF t
<1>4. RiskTimeout(f) \in {"passed", "refused"}
  BY DEF RiskTimeout
<1>5. \A s \in Sections : Section(f, s) \in {"passed", "refused"} /\ (Section(f, s) = "passed" <=> f.sections[s] = "right")
  BY DEF Section
<1>6. /\ SupportServices(f) \in {"passed", "refused", "aborted"}
      /\ SupportServices(f) = "aborted" => NotAText(f)
      /\ SupportServices(f) = "passed" <=> \A name \in Services : Service(f, name) = "passed"
  BY ServiceVerdict DEF SupportServices
<1>7. LogTexts \in SUBSET Texts /\ IdentityTexts \in SUBSET Texts /\ {"plugin_dir"} \in SUBSET Texts
  BY DEF Texts, LogTexts, IdentityTexts
<1>8. (\A i \in 1 .. 9 : t[i] = "passed") <=>
        /\ \A s \in Sections : f.sections[s] = "right"
        /\ \A n \in Texts : f.texts[n] = "given" \/ (f.texts[n] = "missing" /\ n \in LogTexts)
        /\ \A name \in Services : Service(f, name) = "passed"
  <2>1. (\A s \in Sections : f.sections[s] = "right") <=>
          t[1] = "passed" /\ t[2] = "passed" /\ t[3] = "passed" /\ t[4] = "passed" /\ t[5] = "passed"
    BY <1>1, <1>5 DEF Sections
  <2>2. (\A n \in Texts : f.texts[n] = "given" \/ (f.texts[n] = "missing" /\ n \in LogTexts)) <=>
          t[6] = "passed" /\ t[7] = "passed" /\ t[8] = "passed"
    <3>1. t[6] = "passed" <=> \A n \in LogTexts : f.texts[n] = "given" \/ f.texts[n] = "missing"
      BY <1>1, <1>7, TextsVerdict
    <3>2. t[7] = "passed" <=> \A n \in IdentityTexts : f.texts[n] = "given"
      BY <1>1, <1>7, TextsVerdict
    <3>3. t[8] = "passed" <=> f.texts["plugin_dir"] = "given"
      BY <1>1, <1>7, TextsVerdict
    <3>. QED
      BY <3>1, <3>2, <3>3 DEF Texts, LogTexts, IdentityTexts
  <2>. QED
    BY <1>1, <1>2, <1>6, <2>1, <2>2
<1>9. Parse(f) = "aborted" => NotAText(f)
  <2>1. \A i \in 1 .. 5 : t[i] # "aborted"
    BY <1>1, <1>5, 1 .. 5 = {1, 2, 3, 4, 5} DEF Sections
  <2>2. t[6] = "aborted" \/ t[7] = "aborted" \/ t[8] = "aborted" => NotAText(f)
    BY <1>1, <1>7, TextsVerdict
  <2>3. t[9] = "aborted" => NotAText(f)
    BY <1>1, <1>6
  <2>. QED
    BY <1>2, <1>3, <1>4, <2>1, <2>2, <2>3
<1>10. ASSUME Parse(f) = "passed"
       PROVE  /\ Complete(f)
              /\ EnabledServices(f) = {name \in Services : \E e \in Entries : FirstOf(f, name, e) /\ e.enabled}
  <2>1. (\A i \in 1 .. 9 : t[i] = "passed") /\ RiskTimeout(f) = "passed"
    BY <1>3, <1>10
  <2>2. \A name \in Services : /\ FirstOf(f, name, Endpoint(f, name)) /\ Endpoint(f, name) \in Entries
                               /\ Endpoint(f, name).usable
    BY <1>8, <2>1, ServiceVerdict
  <2>3. LET risk == Endpoint(f, "account_risk_service") IN risk.enabled => risk.timed
    BY <2>1 DEF RiskTimeout
  <2>4. Complete(f)
    BY <1>8, <2>1, <2>2, <2>3 DEF Complete
  <2>5. \A name \in Services : Endpoint(f, name).enabled <=> \E e \in Entries : FirstOf(f, name, e) /\ e.enabled
    BY <2>2, OneFirst DEF IsFile
  <2>. QED
    BY <2>4, <2>5 DEF EnabledServices
<1>11. ASSUME Complete(f), ~ NotAText(f) PROVE Parse(f) = "passed"
  <2>1. \A name \in Services : \E e \in Entries : FirstOf(f, name, e) /\ e.usable
    BY <1>11 DEF Complete
  <2>2. \A name \in Services : Service(f, name) = "passed"
    BY <1>11, <2>1, ServiceVerdict
  <2>3. \A i \in 1 .. 9 : t[i] = "passed"
    BY <1>8, <1>11, <2>2 DEF Complete
  <2>4. "account_risk_service" \in Services
    BY DEF Services
  <2>5. PICK e \in Entries : FirstOf(f, "account_risk_service", e) /\ (e.enabled => e.timed)
    BY <1>11, <2>4 DEF Complete
  <2>6. Endpoint(f, "account_risk_service") = e
    BY <2>2, <2>4, <2>5, ServiceVerdict, OneFirst DEF IsFile
  <2>. QED
    BY <1>3, <2>3, <2>5, <2>6 DEF RiskTimeout
<1>. QED
  BY <1>9, <1>10, <1>11

-----------------------------------------------------------------------------
(* From the file to the engine *)

\* main is past the parser only with a file that is accepted.
FileOK ==
  /\ place \notin {"start", "gone"} \/ engine # "none" =>
       Parse(file) = "passed" /\ enabled = EnabledServices(file)
  /\ exit = "aborted" => Parse(file) = "aborted"

\* What is left alone does not decide anew.
LEMMA FileStays ==
  ASSUME FileOK, UNCHANGED <<file, enabled>>, place \notin {"start", "gone"},
         exit' = "aborted" => exit = "aborted"
  PROVE  FileOK'
<1>1. Parse(file') = Parse(file) /\ EnabledServices(file') = EnabledServices(file)
  OBVIOUS
<1>. QED
  BY <1>1 DEF FileOK

\* Every step keeps it.
LEMMA FileStep == IInv /\ FileOK /\ [Next]_vars => FileOK'
<1> SUFFICES ASSUME IInv, FileOK, [Next]_vars PROVE FileOK'
  OBVIOUS
<1> USE DEF launch, links, adapters, outcome, Goto, Fail, Skip
<1>1. CASE Prepare
  <2>1. CASE BootstrapFails
    BY <2>1 DEF BootstrapFails, FileOK, IInv, EngineOK, Beginning
  <2>2. CASE BootstrapAborts
    BY <2>2 DEF BootstrapAborts, FileOK, IInv, EngineOK, Beginning
  <2>3. CASE LoadBootstrapConfig
    BY <2>3 DEF LoadBootstrapConfig, FileOK, IInv, OutcomeOK, Unwinding
  <2>4. CASE CreateEngine
    BY <2>4, FileStays DEF CreateEngine
  <2>5. CASE InitConfigBridge
    BY <2>5, FileStays DEF InitConfigBridge
  <2>6. CASE ConfigBridgeFails
    BY <2>6, FileStays DEF ConfigBridgeFails
  <2>7. CASE WithoutConfigBridge
    BY <2>7, FileStays DEF WithoutConfigBridge
  <2>8. CASE CheckIdentity
    BY <2>8, FileStays DEF CheckIdentity
  <2>9. CASE InitAccountBridge
    BY <2>9, FileStays DEF InitAccountBridge, InitBridge
  <2>10. CASE InitRiskBridge
    BY <2>10, FileStays DEF InitRiskBridge, InitBridge
  <2>11. CASE \/ BridgeFails("account_service", "account_bridge")
              \/ BridgeFails("account_risk_service", "risk_bridge")
    BY <2>11, FileStays DEF BridgeFails
  <2>12. CASE \/ WithoutBridge("account_service", "account_bridge", "risk_bridge")
              \/ WithoutBridge("account_risk_service", "risk_bridge", "adapters")
    BY <2>12, FileStays DEF WithoutBridge
  <2>. QED
    BY <1>1, <2>1, <2>2, <2>3, <2>4, <2>5, <2>6, <2>7, <2>8, <2>9, <2>10, <2>11, <2>12
       DEF Prepare, AccountBridge, RiskBridge
<1>2. CASE Assemble
  BY <1>2, FileStays DEF Assemble, CreateMockAdapters, CreateEmtAdapters, Create, AdaptersFail,
     ConnectQuote, ConnectTrader, SetApis, InitEngine, AddStrategy, StrategiesLoaded,
     StartEngine, NotifyReady
<1>3. CASE RunUntilShutdown \/ Shutdown
  BY <1>3, FileStays DEF RunUntilShutdown, Shutdown, ShutdownRisk, ShutdownAccount,
     ShutdownConfig, ShutdownBridge, ReturnSuccess
<1>4. CASE Unwind
  BY <1>4, FileStays DEF Unwind, DestroyAdapters, DestroyRisk, DestroyAccount, DestroyConfig,
     DestroyBridge, DestroyEngine
<1>5. CASE Gone \/ UNCHANGED vars
  BY <1>5 DEF Gone, vars, FileOK
<1>. QED
  BY <1>1, <1>2, <1>3, <1>4, <1>5 DEF Next

\* The file alone decides what the client is: whether there is an engine, with which
\* services, and whether the process aborts.
THEOREM TheFileDecides == Spec => []FileDecides
<1>1. Init => FileOK
  BY DEF Init, FileOK
<1>2. IInv /\ FileOK => FileDecides
  <2> SUFFICES ASSUME IInv, FileOK PROVE FileDecides
    OBVIOUS
  <2>1. IsFile(file)
    BY BootAssumption DEF IInv, TypeOK
  <2>. QED
    BY <2>1, ParseVerdict DEF FileOK, FileDecides
<1>. QED
  BY <1>1, <1>2, FileStep, Invariant, PTL DEF Spec

-----------------------------------------------------------------------------
(* The refinement *)

Apis       == owner = "engine" /\ connected = {"quote", "trader"}
EngineOpen == open \ {"config_service"}
agreed     == <<engine, EngineOpen, injected, Apis, strategies>>

\* main and the config bridge do what they like as far as the engine is concerned.
LEMMA NotOfTheEngine ==
  ASSUME IInv,
         \/ BootstrapFails \/ BootstrapAborts \/ LoadBootstrapConfig \/ InitConfigBridge
         \/ ConfigBridgeFails \/ WithoutConfigBridge \/ CheckIdentity
         \/ BridgeFails("account_service", "account_bridge")
         \/ BridgeFails("account_risk_service", "risk_bridge")
         \/ WithoutBridge("account_service", "account_bridge", "risk_bridge")
         \/ WithoutBridge("account_risk_service", "risk_bridge", "adapters")
         \/ AdaptersFail \/ StrategiesLoaded \/ NotifyReady \/ ShutdownConfig \/ ReturnSuccess
         \/ DestroyConfig \/ Gone
  PROVE  UNCHANGED agreed
<1>1. /\ UNCHANGED <<engine, injected, owner, connected, strategies>>
      /\ open' \in {open, open \cup {"config_service"}, open \ {"config_service"}}
  BY DEF BootstrapFails, BootstrapAborts, LoadBootstrapConfig, InitConfigBridge,
         ConfigBridgeFails, WithoutConfigBridge, CheckIdentity, BridgeFails, WithoutBridge,
         AdaptersFail, StrategiesLoaded, NotifyReady, ShutdownConfig, ReturnSuccess,
         DestroyConfig, ShutdownBridge, DestroyBridge, Gone, Fail, Skip, vars, launch, links,
         adapters, outcome
<1>2. UNCHANGED EngineOpen
  BY <1>1 DEF EngineOpen
<1>3. UNCHANGED Apis
  BY <1>1 DEF Apis
<1>. QED
  BY <1>1, <1>2, <1>3 DEF agreed

\* Nor does the engine see how its adapters are made.
LEMMA AdaptersAreMains ==
  ASSUME IInv, \/ CreateMockAdapters \/ CreateEmtAdapters \/ ConnectQuote \/ ConnectTrader
               \/ DestroyAdapters \/ \E from \in {"init", "load", "start_engine"} : Fail(from)
  PROVE  UNCHANGED agreed
<1>1. UNCHANGED <<engine, injected, open, strategies>>
  BY DEF CreateMockAdapters, CreateEmtAdapters, Create, ConnectQuote, ConnectTrader,
         DestroyAdapters, Fail, launch, links, adapters, outcome
<1>2. UNCHANGED Apis
  <2>1. CASE \E from \in {"init", "load", "start_engine"} : Fail(from)
    BY <2>1 DEF Fail, adapters, Apis
  <2>2. CASE CreateMockAdapters \/ CreateEmtAdapters
    BY <2>2 DEF CreateMockAdapters, CreateEmtAdapters, Create, Goto, Apis, IInv, AdaptersOK,
                Bridging
  <2>3. CASE ConnectQuote \/ ConnectTrader
    BY <2>3 DEF ConnectQuote, ConnectTrader, Goto, Apis, IInv, AdaptersOK, Adapting
  <2>4. CASE DestroyAdapters
    BY <2>4 DEF DestroyAdapters, Apis
  <2>. QED
    BY <2>1, <2>2, <2>3, <2>4
<1>. QED
  BY <1>1, <1>2 DEF agreed, EngineOpen

\* Every step is one the contract allows, or changes nothing the engine sees.
LEMMA ContractStep ==
  IInv /\ [Next]_vars =>
    [Contract!Next]_<<engine, open \ {"config_service"}, injected,
                      owner = "engine" /\ connected = {"quote", "trader"}, strategies>>
<1> SUFFICES ASSUME IInv, [Next]_vars PROVE Contract!Next \/ UNCHANGED agreed
  BY DEF agreed, EngineOpen, Apis
<1> USE DEF IInv, Beginning, Bridging, Adapting, Loading, Running, Closing, Unwinding
<1>1. CASE CreateEngine
  <2>1. engine = "none" /\ engine' = "created" /\ UNCHANGED <<EngineOpen, injected, Apis, strategies>>
    BY <1>1 DEF CreateEngine, Goto, EngineOK, EngineOpen, Apis, links, adapters
  <2>2. Contract!Create
    BY <2>1 DEF Contract!Create, EngineOpen, Apis
  <2>. QED
    BY <2>2 DEF Contract!Next
<1>2. ASSUME NEW service \in {"account_service", "account_risk_service"},
             NEW from \in {"account_bridge", "risk_bridge"}, NEW to, InitBridge(service, from, to)
      PROVE  Contract!Next
  <2>1. /\ engine = "created" /\ injected' = injected \cup {service}
        /\ open' = open \cup {service} /\ UNCHANGED <<engine, Apis, strategies>>
    BY <1>2 DEF InitBridge, Goto, EngineOK, Apis, adapters
  <2>2. EngineOpen' = EngineOpen \cup {service}
    BY <2>1 DEF EngineOpen
  <2>3. Contract!Inject(service)
    BY <2>1, <2>2 DEF Contract!Inject, EngineOpen, Apis
  <2>. QED
    BY <2>3 DEF Contract!Next, Services
<1>3. CASE SetApis
  <2>1. engine = "created" /\ Apis' /\ UNCHANGED <<engine, open, injected, strategies>>
    BY <1>3 DEF SetApis, Goto, EngineOK, AdaptersOK, Apis, links
  <2>2. Contract!SetApis
    BY <2>1 DEF Contract!SetApis, Apis
  <2>. QED
    BY <2>2 DEF Contract!Next
<1>4. CASE InitEngine
  <2>1. CASE Fail("init")
    BY <2>1, AdaptersAreMains
  <2>2. CASE ~ Fail("init")
    <3>1. /\ engine = "created" /\ engine' = "initialized" /\ Apis
          /\ UNCHANGED <<open, injected, owner, connected, strategies>>
      BY <1>4, <2>2 DEF InitEngine, Goto, EngineOK, AdaptersOK, Apis, links, adapters
    <3>2. Contract!InitEngine
      BY <3>1 DEF Contract!InitEngine, Apis
    <3>. QED
      BY <3>2 DEF Contract!Next
  <2>. QED
    BY <2>1, <2>2
<1>5. CASE AddStrategy
  <2>1. CASE Fail("load")
    BY <2>1, AdaptersAreMains
  <2>2. CASE ~ Fail("load")
    <3>1. /\ engine = "initialized" /\ strategies' = strategies + 1
          /\ UNCHANGED <<engine, open, injected, owner, connected>>
      BY <1>5, <2>2 DEF AddStrategy, Goto, EngineOK, links, adapters
    <3>2. Contract!AddStrategy
      BY <3>1 DEF Contract!AddStrategy
    <3>. QED
      BY <3>2 DEF Contract!Next
  <2>. QED
    BY <2>1, <2>2
<1>6. CASE StartEngine
  <2>1. CASE Fail("start_engine")
    BY <2>1, AdaptersAreMains
  <2>2. CASE ~ Fail("start_engine")
    <3>1. /\ engine = "initialized" /\ engine' = "started"
          /\ UNCHANGED <<open, injected, owner, connected, strategies>>
      BY <1>6, <2>2 DEF StartEngine, Goto, EngineOK, links, adapters
    <3>2. injected \subseteq open \ {"config_service"}
      BY <1>6, <2>2 DEF StartEngine, Goto, BridgesOK
    <3>3. Contract!Start
      BY <3>1, <3>2 DEF Contract!Start
    <3>. QED
      BY <3>3 DEF Contract!Next
  <2>. QED
    BY <2>1, <2>2
<1>7. CASE RunUntilShutdown
  <2>1. /\ engine = "started" /\ engine' = "stopped"
        /\ UNCHANGED <<open, injected, owner, connected, strategies>>
    BY <1>7 DEF RunUntilShutdown, Goto, EngineOK, links, adapters
  <2>2. Contract!Stop
    BY <2>1 DEF Contract!Stop
  <2>. QED
    BY <2>2 DEF Contract!Next
<1>8. ASSUME NEW service \in {"account_service", "account_risk_service"},
             place \in Closing \cup Unwinding, open' = open \ {service},
             UNCHANGED <<engine, injected, owner, connected, strategies>>
      PROVE  Contract!Next
  <2>1. EngineOpen' = EngineOpen \ {service}
    BY <1>8 DEF EngineOpen
  <2>2. engine # "started"
    BY <1>8 DEF EngineOK
  <2>3. Contract!Close(service)
    BY <1>8, <2>1, <2>2 DEF Contract!Close, EngineOpen
  <2>. QED
    BY <2>3 DEF Contract!Next, Services
<1>9. CASE ShutdownRisk \/ ShutdownAccount \/ DestroyRisk \/ DestroyAccount
  <2>1. /\ place \in Closing \cup Unwinding
        /\ UNCHANGED <<engine, injected, owner, connected, strategies>>
    BY <1>9 DEF ShutdownRisk, ShutdownAccount, DestroyRisk, DestroyAccount, ShutdownBridge,
                DestroyBridge, Goto, links, adapters
  <2>2. \E service \in {"account_service", "account_risk_service"} : open' = open \ {service}
    BY <1>9 DEF ShutdownRisk, ShutdownAccount, DestroyRisk, DestroyAccount, ShutdownBridge,
                DestroyBridge
  <2>. QED
    BY <1>8, <2>1, <2>2
<1>10. CASE DestroyEngine
  <2>1. /\ engine \notin {"none", "started", "destroyed"} /\ engine' = "destroyed"
        /\ UNCHANGED <<open, injected, strategies>>
    BY <1>10 DEF DestroyEngine, Goto, EngineOK, links
  <2>2. ~ Apis'
    BY <1>10 DEF DestroyEngine, Apis
  <2>3. Contract!Destroy
    BY <2>1, <2>2 DEF Contract!Destroy, Apis
  <2>. QED
    BY <2>3 DEF Contract!Next
<1>11. CASE UNCHANGED vars
  BY <1>11 DEF vars, links, adapters, agreed, EngineOpen, Apis
<1>12. CASE Prepare
  BY <1>1, <1>2, <1>12, NotOfTheEngine
     DEF Prepare, AccountBridge, RiskBridge, InitAccountBridge, InitRiskBridge
<1>13. CASE Assemble
  BY <1>3, <1>4, <1>5, <1>6, <1>13, NotOfTheEngine, AdaptersAreMains DEF Assemble
<1>14. CASE Shutdown \/ Unwind \/ Gone
  BY <1>9, <1>10, <1>14, NotOfTheEngine, AdaptersAreMains DEF Shutdown, Unwind
<1>. QED
  BY <1>7, <1>11, <1>12, <1>13, <1>14 DEF Next

\* main uses the engine as EngineContract asks.
THEOREM EngineIsUsedAsAgreed == Spec => EngineUsedAsAgreed
<1>1. Init => Contract!Init
  BY DEF Init, Contract!Init
<1>. QED
  BY <1>1, Invariant, ContractStep, PTL DEF Spec, EngineUsedAsAgreed, Contract!Spec
=============================================================================
