# TLA+ models of qtrade_client

`qtrade_client` is the process that puts a trading engine together: it reads a
configuration, opens gRPC bridges to three support services, connects a quote
and a trader adapter, gives all of it to an `IEngine`, and runs until a signal.
The engine, the services and the strategies live in other repositories. What
lives here, and is modelled here, is everything around the engine.

Paths below are relative to the repository; `mock_trader_api.cpp` stands for
`src/adapters/mock/trader/mock_trader_api.cpp`, and so on.

## Inventory

| Component | State | Operations | What makes it correct |
| --- | --- | --- | --- |
| mock trader, `MockTraderApi` | `orders_`, `trades_`, two id counters, settings, `orders_mutex_` | `SendOrder`, `CancelOrder`, queries, connection and callback setters | the records of an order agree; no reported trade is lost; callbacks come in order and may call back |
| mock quote source, `MockQuoteApi` | `connected_`, `running_`, `instruments_`, `mutex_`, the worker thread | `Connect`, `Disconnect`, `Subscribe`, `Unsubscribe`, SPI registration, the worker | only subscribed instruments tick; silence after `Disconnect`; every call returns; no thread is lost |
| account risk bridge and client | the gRPC stub, `policy_cache_` | `GetAccountRiskPolicy`, `Reserve`, `Release`, `QueryReservation`, `ListActiveReservations`, `Init`, `Shutdown` | answers agree with the service although requests get lost, late or unanswered |
| config bridge and client | the stub, one cached configuration in three parts | `Init` (with its RPC), getters, `Shutdown` | the parts read are one answer, with an identity; what is cached stays readable |
| account bridge and client | the stub, a flag, a credential cache | `GetCredential`, `Init`, `Shutdown` | a credential issued for the account, from the service or the cache; no call on a stub that is gone |
| EMT adapters and their factory | `connected_`, `instruments_` of the quote API, SPI targets | stubs that answer `kNotSupported`, -1 or 0; the factory fetches the credential | a pair that is built connects; a failed call leaves no trace |
| boot: `main`, `engine_boot`, mock factory | the objects `main` owns | the steps of the boot, the shutdown, the destructors | an engine that starts is complete; nothing is left behind |
| `engine_bootstrap_config` | none | `ParseQtradeEngineBootstrapConfig` | a file is accepted if, and only if, it is complete |
| conversions, `strategy_config_utils` | none | translate messages | defaults for what is not set; states and reasons mean the same at both ends |

How they interact: `main` owns the bridges and hands *pointers* to the engine,
but hands over the adapters themselves. The engine's threads call the adapters
and the bridges. Each bridge owns a client, and a client makes one blocking
RPC, with a deadline, per call. The adapters call the engine back: the mock
trader on the calling thread, with its mutex released; the mock quote source on
its worker thread, with its mutex held.

What is hard about it: callbacks that call the API again while `SendOrder` is
half done; id counters that nothing synchronises; a cancel between the two
critical sections of a send; a worker that holds a mutex during its callbacks;
an SPI pointer nobody protects; requests that a service serves after the caller
has given up; a cache that stands in for a silent service; and a dozen ways for
the boot to stop half way. `PROJECT.json` lists each hazard at its line, with
the property that covers it or the reason why none does.

## The models

### MockTraderApi, the exchange

`SendOrder` (`mock_trader_api.cpp:128-176`) is cut at each lock, unlock and
callback, and where an unsynchronised counter is read and written:

| Action | Code |
| --- | --- |
| `SendOrder`, `SendId`, `SendBump` | the `connected_` test; a given id, or `next_broker_order_id_++` in two steps |
| `SendLock`, `SendInsert` | the first section: `orders_[id] = order` |
| `SendReport`, `OnOrderReturns` | `on_order_` |
| `SendWithoutFill` or `SendFill`, `SendTrade` | `auto_fill_ && on_trade_`; `next_trade_id_++`; `on_trade_` |
| `SendLockFill`, `SendStore` | the second section: the trade stored, `orders_.at(id)` filled |
| `CancelOrder`, `CancelLock`, `CancelRefuse` or `CancelApply`, `CancelReport`, `CancelReturn` | `CancelOrder`, 185-209 |

A call is a frame of a stack. `top[t]` is the innermost call of thread `t`,
`under[c]` the call that `c` interrupted, and only innermost calls move; a
thread may begin a call when it is outside the API or in a callback. So calls
nest as they do in the code, and threads interleave at every step. The control
calls (`Connect`, `Login`, `SetAutoFill`, ...) are actions too, at most
`MaxControls` of them. Setting a callback while a call runs would race on a
`std::function`; the model lets the engine set callbacks only in between.

`MockTraderQueries` adds the polling interface as operators: `QueryOrders`,
`QueryTrades`, whose answer grows trade by trade as in the loop of the code, and
`QueryPositions`, with its net volume per instrument summed from `trades_`.

`OrderLifecycle` is the abstract specification: an order is absent, working,
canceled or filled, and only its open `SendOrder` call may fill it, even after a
cancel: `SendStore` does not look at the status. `LifecycleStatus` and `LifecycleOpen` map the exchange to it, for the ids
in `Ids`, and `trader_life` checks the refinement with its fairness.

### MockQuoteApi, the quote source

`worker` is the place of `GenerateMockTicks`, `"none"` when `tick_thread_` is
not joinable. `Connect` is its four statements, since its flags are atomics
written without the mutex; `Disconnect` stops, joins, and clears `connected_`.
`Subscribe` waits for the mutex and replaces the list in one step. Publishing
to the SPI is the test of `target_` (`PublishDepthMarketData`) and the call
(`CallTarget`), which may also go through the null pointer that
`UnregisterSpi` has written in between: the build may read `target_` once or
twice. `SetTickCallback` assigns `on_tick_` without the mutex and at any moment, as
the engine may: `main` has the worker running (`main.cpp:40-49`) before it hands the
API over (`main.cpp:183`). Where the worker is at the callback, the assignment may
crash the process. The model has no counters and is checked for runs of any length.

### CachedLookup, what a caching bridge promises

The abstract specification of both bridges that keep answers. A caller gets a
value the service has offered for its very key, or is refused by the service.
Only when the service fails to answer does it get what the bridge learned last
for the key, and it is left without a value only while the bridge knows nothing
of the key; it is then told whether the bridge was closed or the service silent.
What came of the question is a variable of its own, `heard`. The mappings take it
from what the RPC ended with (`rpc_status` of the risk bridge's calls) and from what
the client returned (`rc` of the account bridge's), never from the branch the bridge
took: a bridge that serves its cache after a NOT_FOUND, or calls a failed RPC one,
does not implement `CachedLookup`.

### Reservations, what a trader may rely on

The abstract specification of the calls about reservations, over a network that
loses and delays. A request is decided at one instant (`Reserve`, `Release`,
`Query`, `List` change `ledger` and `outcome` together), at most once, and not
before it is made; that may be long after its caller has been told `kTimeout`
(`GiveUp`). Otherwise the caller is told exactly what was decided (`Tell`), or
`kNotInitialized`, and then the request never reaches the ledger. The ledger
itself reserves no order twice, releases only what is reserved, and never takes
back a release.

### AccountRiskBridge, policies and reservations

One module for `GrpcAccountRiskBridge` and its client. A call is `Call`, then
`RpcFails`, `RpcNotFound` or `RpcAnswered`, which note in `rpc_status` how the RPC
ended (`RpcEnds`); a policy goes on to `StorePolicy`
or, after a failure, to `ReadCache`. The service is external: it serves a
request (`Serve`) at any time after it was sent, even after the caller's
deadline, or never; it publishes and withdraws policies and lets reservations
expire. `RpcFails` needs no condition, which is how a lost reply, a refused
connection and a deadline look to the client. Calls by threads of the engine
overlap up to `MaxThreads`. `ToProtoReleaseReason`, `ToReservationState` and
`ToState` are the conversions; the service acts on the reason that was
translated, the bridge on the one it was given. `Lookup` is the refinement
mapping to `CachedLookup`: calls other than policy calls look nothing up.
`Ledger` is the one to `Reservations`: a request is decided in `Serve`, what was
decided is the reply in the engine's words (`Outcome`), through the conversions,
and a policy call is none of the ledger's.

### AccountBridge, ConfigBridge and SupportBridges

`AccountBridge` is `GrpcAccountBridge` with `AccountClient`. `GetCredential` is
cut where another thread can come in: the bridge's test of the client, the
client's own test (`TestClient`), the RPC (`Serve`, `RpcAnswered` or
`RpcFails`, with what the client returned in `rc`), the store under the mutex, or the look into the cache.
`AccountClient::Shutdown` is two steps, the stub and the flag, since nothing
guards either. Its `Spec` lets clients open, close and ask in any order; that
this implements `CachedLookup` needs no discipline of `main`.

`ConfigBridge` is `GrpcConfigBridge` with `ConfigClient`: `InitConfig` opens the
client, the RPC follows, then the test of the identity and the store of the
three parts. The conversions of the configuration and of the strategies
(`ToEngineConfig`, `ParseStrategyConfig`) keep the fields that have a default.

`SupportBridges` composes the two with `main` and an engine. `main` uses the
config bridge, opens the account bridge, asks for a credential, starts the
engine, and after `Stop` closes the one and the other; the engine's threads ask
for credentials between start and stop. That nobody ever calls through a stub
that was reset (`NoCallOnDeadStub`) is a property of this composition and of
neither bridge.

### Boot, BootstrapConfig and EngineContract

`Boot` is `main`, one action per step and per kind of failure, followed by the
destructors in their real order (`~adapters`, `~risk`, `~account`, `~config`,
`~engine`): the engine is declared before the bridges and so dies after them.
Each service may be disabled, each RPC may fail, and the file, the configuration
and the credential are any of `Files`, `Configs` and `Credentials`.

`BootstrapConfig` is the parser of the file as an operator: a list of tests of
which the first that is not passed decides, where a text entry of another type
does not refuse the file but aborts the process (`value()` of nlohmann::json
throws). `Complete` says what a file has to be without any order.

`EngineContract` states how
an `IEngine` may be used, taken from the comments of the bridge headers
("注入引擎前须先 Init()") and of `engine_boot.hpp` ("已 Init 的引擎"), and
`Boot` has the refinement mapping.

### EmtAdapters, the stubs

`EmtAdapters` has the state the two EMT adapters keep and the answers they give
without the vendor's SDK. What can go wrong with a stub is that it answers as if
it were none, which is what the run `emt_connect` finds of `Connect`.

The operators named `Slip...` in these modules are not the code. Each is a
plausible mistake in the definition after it; the property named with it in
`PROJECT.json` fails when it takes that definition's place.

## What the runs check

| Run | Bounds | What it shows |
| --- | --- | --- |
| `trader_life` | 3 calls, 2 threads of which 1 sends, 4 control calls, fairness | every accepted order keeps its snapshot, snapshots and trades agree, an order is reported queued once and before everything else but a cancel made by another thread, the snapshot of an order whose call has returned follows from its reports, every call returns, the life of an order is `OrderLifecycle` to its end |
| `trader_racy` | 3 calls, 2 sending threads, given and generated ids, all control calls | even with racing counters and colliding ids `orders_.at` finds an order, and the trades that were told and those that are stored are the same, call by call; no call waits for a mutex whose holder waits |
| `trader_queries` | buys and sells of 2 instruments | positions, orders and trades tell one story; a polling client finds the trades it knows unchanged and in order, and new ones after them |
| `quote_live` | an owner and a client, 4 lists, the SPI and the tick callback changed at any moment, fairness | the worker ticks only what is subscribed; silence after `Disconnect`; no thread is lost, whatever the owner calls; the worker and the clients do not wait for each other in a circle; every call returns; subscribed instruments tick, also after a reconnection, for a callback set before it or after |
| `risk_outage` | 3 calls of every kind, one at a time, 1 account, 1 order, 2 versions, fairness | a policy never goes back; every call returns by its deadline |
| `risk_calls` | 3 calls of every kind at once, 1 account with an order and 1 without, 1 version each | reserved, released and settled mean what they say at the service; no reservation is held that the engine need not suspect; the calls about the order implement `Reservations` and the policy calls `CachedLookup`, each for its own account and by what its RPC ended with |
| `support` | `main` and 2 threads of the engine, 2 accounts, 2 credentials each, 5 configurations with the limit unset, negative and given, every number of restarts of the bridges, fairness | no call on a stub that is gone; credentials implement `CachedLookup`, `kTimeout` and `kNotInitialized` told apart; the configuration is one whole answer and stays; `Stop` completes |
| `boot` | 514 files with a wrong section, two wrong texts or an odd service, 48 configurations, 4 credentials | the file decides what is made; started engines are complete, exit status and readiness agree, nothing is left, and the boot implements `EngineContract` |

Three calls are enough for the cases that matter: a send, a send or cancel
nested in its callback, and another on the second thread, in any order; a
Reserve, a Release and a second Reserve or a Query that overlap. In `support` a
thread may ask again and again, so that the bounds are the threads and versions
alone. The ids
`{1, 2}` are those the first two sends get. Two lists suffice to change what
the worker iterates over during a sweep.
In `risk_outage` the calls come one after the other: no call of the bridge waits
for another, so that a second thread adds nothing to the question whether a call
returns, and `PolicyNeverGoesBack` is about one reader. `trader_racy` takes calls
and threads as symmetric (every thread may send there), `risk_calls` the calls;
no run with a liveness property uses symmetry.

Four runs end in a counterexample, each against a sentence of the repository:

- `trader_given_id`: a caller's own `broker_order_id` is not compared with the
  ids the counter generates, so a later order can replace an earlier one in the
  map of latest snapshots (`mock_trader_api.hpp:219`).
- `quote_spi`: an SPI that was unregistered between the worker's test and its
  call still hears of a tick (`mock_quote_spi.cpp:3`).
- `boot_emt`: a client configured with `emt` never gets past `Connect`, which is
  a stub (`README.md:77`).
- `emt_connect`: that `Connect` fails and leaves `connected_` set, so that
  `IsConnected` is true and a second `Connect` succeeds (`emt_quote_api.hpp:141`).

Two more disagreements are read off the code and need no run: with `auto_fill_`
at its default but no trade callback an order stays queued for ever, although
`mock_trader_api.hpp:187` calls the default filling at once (`SendWithoutFill`);
and no trade ever reaches the registered `TraderSpi`, to which
`mock_trader_spi.hpp:48` says it is forwarded.

## Fairness and assumptions

- Trader: a thread inside the API is scheduled and callbacks return (weak
  fairness of each call). Nothing forces a call to be made.
- Quote source: strong fairness of each client's steps, because a client that
  waits for the mutex competes with a worker that takes it again and again; the
  100 ms it sleeps without it are what makes that fair in practice. Weak
  fairness of the worker.
- Risk bridge: weak fairness of the caller's own steps, which includes the
  deadline. None of the service.
- An unsynchronised `SetTickCallback` crashes only where the worker tests or calls
  `on_tick_`; what `quote_live` says of calls and ticks it says of a process that has
  not crashed.
- The quote callbacks do not call the quote API: the worker holds `mutex_`, and
  would wait for itself or join itself.
- One thread owns the quote source's connection (`OneOwner`). With two owners,
  the test of `connected_` and its assignment interleave and TLC finds the
  process terminated on a joinable thread.
- Account bridge: weak fairness of each call's steps, deadline included, and of
  the return of `Stop`. None of the service, of signals or of `main`.
- `IEngine::Stop` waits for the engine's threads, which make no new call once it
  is called; the engine is not in this repository, and `NoCallOnDeadStub` needs
  exactly this of it.
- `Shutdown` of the risk bridge comes when no call is under way, as in `main`
  after `engine.Stop()`; `SupportBridges` shows that order for the account bridge.
- A credential cache has no order either: of two concurrent callers the older
  reply may be stored last, and an answer without a credential replaces a good
  one. `CachedLookup` allows both.
- The risk policy is monotonic for one reader only. With two at once
  (`MaxThreads = 2`) TLC finds the older reply stored last and served in the
  next outage. A policy that was withdrawn (`NOT_FOUND`) stays in the cache and
  is served again after the next failure; no document forbids either.

## What is proved

Every theorem holds for every value of the constants (sets of threads, calls,
accounts, messages, files, ...), under the `ASSUME`s of the modules, and for
runs of any length. Each is proved from an inductive invariant; `TypeOK` is a
part of all of them, and each module starts by showing it inductive, action by
action.

**The exchange** (`MockTraderProofs`, `MockTraderBookProofs`,
`MockTraderQueriesProofs`).

- `FillIsSafe`: the orders of all calls between the two sections are in `orders_`,
  because no step removes an id.
- `NoTradeIsLost`, whatever ids collide: a trade is identified by the call that told
  it (its `client_order_id`) and by its whole record, its `trade_id` included. A told
  trade is in `trades_` or about to be stored by its call, a stored one was told, and
  none is stored twice. The invariant (`TradesInv`) adds that only calls that have
  returned have trades in `trades_`, so that the one about to store has none there.
- `OneSnapshotPerOrder`, `BookAgrees`, for one sending thread and generated
  ids (`OneSender`, `GeneratedIds`; without the first the counter races, without
  the second ids collide, and TLC shows the damage). The snapshot property is
  not inductive: that an id is fresh depends on no other call being between the
  read and the write of the counter, which depends on the stacks. The invariant
  has three parts. `StacksOK`: only the innermost call of a thread is outside a
  callback. `IdsOK`: every numbered call has an id of its own, below the
  counter, but for the one call that is about to bump it. `BookOK`: every
  snapshot and every trade comes from an accepted call with that id. The last
  then gives that a trade and a snapshot with the same id belong to one call,
  hence that they agree.
- `QueuedIsFirst`, under the same two assumptions: what is reported of an order,
  and a cancel about to be reported, come after its call has passed the place
  where it reports the order as queued (`ReportsOK`). A report carries the call that
  makes it, and a call its thread. A cancel that finds an order before that place
  would be a second innermost call of the sending thread, so another thread makes it:
  that is the exception the property names, and it compares the two threads.
- `ReportsSettle`, under the same two: once `SendOrder` has returned, the snapshot is
  filled exactly when the trade was told, and canceled when only a cancel was heard.
  Every cancel that was reported, or is about to be, found its order and left it
  settled (`CanceledOK`); `TradesInv` and `BookInv` give the rest.
- `OrdersFollowLifecycle`, under the same two: each of `SendInsert`, `SendStore`,
  `SendWithoutFill` and `CancelApply` is a step of `OrderLifecycle`, or a stutter
  if the id is not in `Ids`, and every other step is a stutter. `Ids` is any set.
- `CallsDoNotDeadlock`: whoever waits for `orders_mutex_` waits for a call that is
  inside a section (`HolderOK`). A section has no callback in it, so that call is
  the innermost of its thread (`StacksOK`) and can go on. It needs neither of the
  two assumptions.
- `PositionsAreOrders`, under the two: the net volumes summed from `trades_` are
  those of the filled orders. `BookAgrees` makes the trades of an instrument and its
  filled orders correspond one to one; that equal terms have equal sums is proved
  by induction over the size of the index set. The sum and the loop of `QueryTrades`
  are recursive, and the theorems on induction that take an operator cannot be
  used here, so the induction is made with sets and the least-number principle
  of `WellFoundedInduction` (`Induction`).
- `TradesOnlyGrow`, without the two: the answer to a filter depends only on the trades
  up to each place, on their ids and their requests, and none of these changes.

**The quote source** (`MockQuoteProofs`).

- `SweepIsSafe`: the worker has the mutex in every place of its loop
  (`SweepOK`), and the list changes only while the mutex is free.
- `DisconnectedIsSilent`, `QuoteNeverTerminates`, for one owner: `OwnerOK` says
  where the owner is when there is no worker.
- `ClientsDoNotDeadlock`, for one owner: the mutex is held only in the sweep, which
  waits for nothing, and `running_` is clear while the owner joins. With a second
  owner a `Connect` may set `running_` while the first joins, and TLC finds it.

**The account bridge, and main** (`SupportProofs`).

- `CredentialsLookedUp`: what a call has been answered, and not stored yet, is
  something the service offered for that account, and a call looks into the cache only
  after the client failed it or was not open, with an error code that says which
  (`ReplyOK`). Each step of `AccountBridge` is one of `CachedLookup`: `RpcAnswered` and
  the failures are `Hear`, `StoreCredential` answers and learns at once (`Learn`),
  `ReadCache` is `Recall` or `Miss`, the rest stutters.
- `StubOutlivesCalls`: while the engine runs or a call of it is under way, the
  stub is there (`EngineHasClient`, `CallsAreEngines`), and main asks only on an
  open bridge (`MainCallOnOpen`). So no `Shutdown` finds a call on its stub.
- `ConfigIsOneAnswer`, `ConfigStays`: the three parts that are cached, and the
  reply under test, come from one message with an identity (`ConfigInv`).
- `CredentialsLookedUpForMain`: the refinement again, in the composition.
- `SupportTypeCorrect`: the types of both bridges, of `main` and of the engine.

**The risk bridge** (`AccountRiskProofs`, `AccountRiskRefinementProofs`).

- `ReservedIsTrue`, `ReleasedIsTrue`, `NoneIsSilent`: an invariant of each call by
  itself (`CallOK`: its place fits its operation, a reply is one the service could
  give, a result follows from the reply) and of each reservation held (`HeldOK`:
  a Reserve call was granted it). The service moves under every call, so the proof first
  states what its steps keep (`ServiceKeepsWord`: approvals, releases and published
  versions are never taken back), and then treats each call alone.
- `PoliciesLookedUp`: policy calls implement `CachedLookup` whatever the other
  calls do. `PoliciesOK` gives that the replies and the cache hold what was
  published for the account, `PlaceOK` that a call is at the cache only if its RPC
  failed or was never made, with the error code that says which.
- `ReservationsDecidedOnce`: the calls about reservations implement `Reservations`.
  `Serve` is the deciding step, one lemma per operation (`LedgerReserve` and so on,
  over `LedgerDecides`); the return of a call tells what was decided, or `kTimeout`
  (`LedgerTell`); every step of a policy call is a stutter. From the invariant it needs
  that a request fits its call and a reply its request (`PlaceOK`, `ReplyOK`), and that
  a call that ended in `kNotInitialized` was never sent (`ResultOK`). The assumption
  `NoReplyAssumption` says that the model value for "no reply" is not an answer.
- `PolicyOnlyAdvances`, for `MaxThreads = 1`: the cache has the newest policy given
  for each account, and a reply the one call under way holds is at least as new
  (`ReaderInv`).

**The boot** (`BootProofs`).

- `StartIsComplete`, `ExitIsTrue`, `AllIsTakenDown`: the invariant says,
  for each part of `main`, from which place to which it exists (`EngineOK`,
  `BridgesOK`, `ConfigOK`, `AdaptersOK`, `OutcomeOK`); the three are read off it.
- `TheFileDecides`, for files with any number of services: `main` is past the parser
  only with a file that `Parse` passes (`FileOK`). What `Parse` says of a file is a
  matter of the first test that fails (`FirstVerdict`) and of the first entry with
  the name of a service (`WhereItEnds`); `ParseVerdict` compares it with `Complete`,
  which knows no order of tests. That there is a first rests on the least-number
  principle (`LeastIndex`).
- `EngineIsUsedAsAgreed`: every step is one of `EngineContract` or a stutter.

Only model-checked: liveness, and so the fair half of `OrderLifecycle`, because
fairness and ENABLED are out of the prover's reach; and the EMT stubs, where the
runs show what the code does against its own documents.

## Not modelled

Prices, amounts, messages, logging and expiry times; the query and subscription
stubs of the mock adapters that answer -1; the reading of JSON itself; the
engine, the services and the strategies, except for what the code relies on;
the build files.

## Plan

The quote source and the risk bridge in the composition of `SupportBridges`: ticks
and reservations under way while `main` shuts down. That no call on the risk bridge
finds a stub gone would follow as `StubOutlivesCalls` does for the account bridge.
