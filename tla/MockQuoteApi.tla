---------------------------- MODULE MockQuoteApi ----------------------------
(***************************************************************************)
(* MockQuoteApi (src/adapters/mock/quote): the quote source of the mock    *)
(* exchange.                                                               *)
(*                                                                         *)
(* Connect starts a worker thread, GenerateMockTicks, which makes a tick   *)
(* for every subscribed instrument, sleeps, and starts again while         *)
(* running_ is set.  It holds mutex_ during a whole sweep, callbacks       *)
(* included.  Subscribe and Unsubscribe wait for mutex_; Disconnect clears *)
(* running_ and joins the worker.  connected_ and running_ are atomics,    *)
(* read and written without the mutex.                                     *)
(*                                                                         *)
(* on_tick_ and the SPI's target are replaced without the mutex, whatever  *)
(* the worker does.                                                        *)
(*                                                                         *)
(* The callbacks are assumed not to call the API (mutex_ is not recursive  *)
(* and the worker cannot join itself), and the prices of a tick are left   *)
(* out.                                                                    *)
(*                                                                         *)
(* The operators named Slip... are not the code: each is a plausible       *)
(* mistake in the definition that follows it, which a property must catch. *)
(***************************************************************************)
EXTENDS Naturals, Sequences

CONSTANTS
  Clients,        \* the threads that call the API
  Owners,         \* those that connect, disconnect and destroy it
  Instruments,    \* the instruments there are
  Subscriptions,  \* the lists of instruments Subscribe is called with
  Worker, NoThread, NoInstrument

ASSUME QuoteAssumption ==
  /\ Owners \subseteq Clients
  /\ Subscriptions \subseteq Seq(Instruments)
  /\ NoInstrument \notin Instruments
  /\ Worker # NoThread

VARIABLES
  process,      \* "running", "destroyed" (the API is), "terminated" (by a joinable
                \* thread) or "crashed" (by a target or a callback replaced under
                \* the worker)
  connected,    \* connected_
  running,      \* running_
  instruments,  \* instruments_
  mutex,        \* the thread that holds mutex_ from one step to the next
  spi_target,   \* whether mock_spi_ has a target
  on_tick,      \* whether on_tick_ is set
  worker,       \* the place tick_thread_ has reached; "none": it is not joinable
  next,         \* the worker's position in instruments_
  tick,         \* the instrument of the worker's tick
  pc,           \* the place each client has reached
  argument      \* the list a client's Subscribe is called with

callbacks  == <<spi_target, on_tick>>
generation == <<worker, next, tick>>
clients    == <<pc, argument>>
vars == <<process, connected, running, instruments, mutex, callbacks, generation, clients>>

Subscribed == {instruments[i] : i \in DOMAIN instruments}

-----------------------------------------------------------------------------
(* The calls of a client *)

Goto(c, from, to) == pc[c] = from /\ pc' = [pc EXCEPT ![c] = to]

SlipAlwaysConnects(c) ==
  /\ c \in Owners
  /\ Goto(c, "idle", "connect")
  /\ UNCHANGED <<process, connected, running, instruments, mutex, callbacks, generation,
                 argument>>

\* Connect: connected already, it does nothing.
Connect(c) ==
  /\ c \in Owners
  /\ ~ connected
  /\ Goto(c, "idle", "connect")
  /\ UNCHANGED <<process, connected, running, instruments, mutex, callbacks, generation,
                 argument>>

ConnectSet(c) ==
  /\ Goto(c, "connect", "connect_run")
  /\ connected' = TRUE
  /\ UNCHANGED <<process, running, instruments, mutex, callbacks, generation, argument>>

SlipRunningNotSet(c) ==
  /\ Goto(c, "connect_run", "connect_start")
  /\ UNCHANGED <<process, connected, running, instruments, mutex, callbacks, generation,
                 argument>>

ConnectRun(c) ==
  /\ Goto(c, "connect_run", "connect_start")
  /\ running' = TRUE
  /\ UNCHANGED <<process, connected, instruments, mutex, callbacks, generation, argument>>

\* Assigning a thread to a joinable tick_thread_ terminates the process.
ConnectStart(c) ==
  /\ Goto(c, "connect_start", "idle")
  /\ \/ worker = "none" /\ worker' = "test" /\ UNCHANGED process
     \/ worker # "none" /\ process' = "terminated" /\ UNCHANGED worker
  /\ UNCHANGED <<connected, running, instruments, mutex, callbacks, next, tick, argument>>

\* Disconnect, and Logout, which only calls it: not connected, it does nothing.
Disconnect(c) ==
  /\ c \in Owners
  /\ connected
  /\ Goto(c, "idle", "stop")
  /\ UNCHANGED <<process, connected, running, instruments, mutex, callbacks, generation,
                 argument>>

SlipKeepsRunning(c) ==
  /\ Goto(c, "stop", "join")
  /\ UNCHANGED <<process, connected, running, instruments, mutex, callbacks, generation,
                 argument>>

Stop(c) ==
  /\ Goto(c, "stop", "join")
  /\ running' = FALSE
  /\ UNCHANGED <<process, connected, instruments, mutex, callbacks, generation, argument>>

SlipNotJoined(c) ==
  /\ Goto(c, "join", "disconnected")
  /\ UNCHANGED <<process, connected, running, instruments, mutex, callbacks, generation,
                 argument>>

Join(c) ==
  /\ Goto(c, "join", "disconnected")
  /\ worker \in {"none", "returned"}
  /\ worker' = "none"
  /\ UNCHANGED <<process, connected, running, instruments, mutex, callbacks, next, tick,
                 argument>>

Disconnected(c) ==
  /\ Goto(c, "disconnected", "idle")
  /\ connected' = FALSE
  /\ UNCHANGED <<process, running, instruments, mutex, callbacks, generation, argument>>

\* ~MockQuoteApi, once no client is in a call: it disconnects, and an API that is
\* not connected goes at once.  A joinable thread would terminate the process.
Destroy(c) ==
  /\ c \in Owners
  /\ \A d \in Clients : pc[d] = "idle"
  /\ ~ connected
  /\ process' = IF worker = "none" THEN "destroyed" ELSE "terminated"
  /\ UNCHANGED <<connected, running, instruments, mutex, callbacks, generation, clients>>

Subscribe(c, list) ==
  /\ Goto(c, "idle", "subscribe")
  /\ argument' = [argument EXCEPT ![c] = list]
  /\ UNCHANGED <<process, connected, running, instruments, mutex, callbacks, generation>>

\* Subscribe replaces the list, and does so under the mutex, in one step.
SubscribeLocked(c) ==
  /\ Goto(c, "subscribe", "idle")
  /\ mutex = NoThread
  /\ instruments' = argument[c]
  /\ argument' = [argument EXCEPT ![c] = <<>>]
  /\ UNCHANGED <<process, connected, running, mutex, callbacks, generation>>

Unsubscribe(c) ==
  /\ Goto(c, "idle", "unsubscribe")
  /\ UNCHANGED <<process, connected, running, instruments, mutex, callbacks, generation,
                 argument>>

\* Unsubscribe clears the whole list, whatever instruments it is asked to drop.
UnsubscribeLocked(c) ==
  /\ Goto(c, "unsubscribe", "idle")
  /\ mutex = NoThread
  /\ instruments' = <<>>
  /\ UNCHANGED <<process, connected, running, mutex, callbacks, generation, argument>>

\* RegisterSpi and UnregisterSpi write the target without the mutex, at any moment.
SetTarget(registered) ==
  /\ spi_target' = registered
  /\ UNCHANGED <<process, connected, running, instruments, mutex, on_tick, generation,
                 clients>>

RegisterSpi   == SetTarget(TRUE)
UnregisterSpi == SetTarget(FALSE)

\* SetTickCallback assigns on_tick_ without the mutex, at any moment.  Where the worker
\* is testing it or calling it, it may read half of the old function and half of the
\* new, or run one that is gone: this goes well or crashes.
SetTickCallback ==
  /\ on_tick' \in BOOLEAN
  /\ \/ UNCHANGED process
     \/ /\ worker \in {"on_tick", "in_tick"}
        /\ on_tick \/ on_tick'
        /\ process' = "crashed"
  /\ UNCHANGED <<connected, running, instruments, mutex, spi_target, generation, clients>>

-----------------------------------------------------------------------------
(* The worker, GenerateMockTicks *)

Go(from, to) == worker = from /\ worker' = to

TestRunning ==
  /\ Go("test", IF running THEN "lock" ELSE "returned")
  /\ UNCHANGED <<process, connected, running, instruments, mutex, callbacks, next, tick,
                 clients>>

SlipSweepFromZero ==
  /\ Go("lock", "for")
  /\ mutex = NoThread
  /\ mutex' = Worker
  /\ next' = 0
  /\ UNCHANGED <<process, connected, running, instruments, callbacks, tick, clients>>

SlipSweepUnlocked ==
  /\ Go("lock", "for")
  /\ next' = 1
  /\ UNCHANGED <<process, connected, running, instruments, mutex, callbacks, tick, clients>>

LockMutex ==
  /\ Go("lock", "for")
  /\ mutex = NoThread
  /\ mutex' = Worker
  /\ next' = 1
  /\ UNCHANGED <<process, connected, running, instruments, callbacks, tick, clients>>

MakeTick ==
  /\ Go("for", "publish")
  /\ next <= Len(instruments)
  /\ tick' = instruments[next]
  /\ UNCHANGED <<process, connected, running, instruments, mutex, callbacks, next, clients>>

SlipMutexKept ==
  /\ Go("for", "test")
  /\ next > Len(instruments)
  /\ tick' = NoInstrument
  /\ UNCHANGED <<process, connected, running, instruments, mutex, callbacks, next, clients>>

\* The sweep ends; the worker sleeps, without the mutex, before it tests again.
EndSweep ==
  /\ Go("for", "test")
  /\ next > Len(instruments)
  /\ mutex' = NoThread
  /\ tick' = NoInstrument
  /\ UNCHANGED <<process, connected, running, instruments, callbacks, next, clients>>

\* PublishDepthMarketData tests target_ ...
PublishDepthMarketData ==
  /\ Go("publish", IF spi_target THEN "call_spi" ELSE "on_tick")
  /\ UNCHANGED <<process, connected, running, instruments, mutex, callbacks, next, tick,
                 clients>>

\* ... and calls it: the target it read, or, if the build reads target_ once
\* more and it has been reset, a null pointer.
CallTarget ==
  /\ \/ Go("call_spi", "in_spi") /\ UNCHANGED process
     \/ /\ Go("call_spi", "call_spi")
        /\ ~ spi_target
        /\ process' = "crashed"
  /\ UNCHANGED <<connected, running, instruments, mutex, callbacks, next, tick, clients>>

TargetReturns ==
  /\ Go("in_spi", "on_tick")
  /\ UNCHANGED <<process, connected, running, instruments, mutex, callbacks, next, tick,
                 clients>>

CallOnTick ==
  /\ Go("on_tick", IF on_tick THEN "in_tick" ELSE "next")
  /\ UNCHANGED <<process, connected, running, instruments, mutex, callbacks, next, tick,
                 clients>>

OnTickReturns ==
  /\ Go("in_tick", "next")
  /\ UNCHANGED <<process, connected, running, instruments, mutex, callbacks, next, tick,
                 clients>>

NextInstrument ==
  /\ Go("next", "for")
  /\ next' = next + 1
  /\ UNCHANGED <<process, connected, running, instruments, mutex, callbacks, tick, clients>>

-----------------------------------------------------------------------------
(* Specification *)

Init ==
  /\ process = "running"
  /\ connected = FALSE /\ running = FALSE
  /\ instruments = <<>>
  /\ mutex = NoThread
  /\ spi_target = FALSE /\ on_tick = FALSE
  /\ worker = "none" /\ next = 1 /\ tick = NoInstrument
  /\ pc = [c \in Clients |-> "idle"]
  /\ argument = [c \in Clients |-> <<>>]

Call(c) == \/ Connect(c) \/ Disconnect(c) \/ Destroy(c) \/ Unsubscribe(c)
           \/ \E list \in Subscriptions : Subscribe(c, list)

ClientStep(c) == \/ ConnectSet(c) \/ ConnectRun(c) \/ ConnectStart(c)
                 \/ Stop(c) \/ Join(c) \/ Disconnected(c)
                 \/ SubscribeLocked(c) \/ UnsubscribeLocked(c)

WorkerStep == \/ TestRunning \/ LockMutex \/ MakeTick \/ EndSweep
              \/ PublishDepthMarketData \/ CallTarget \/ TargetReturns
              \/ CallOnTick \/ OnTickReturns \/ NextInstrument

Next == \/ /\ process = "running"
           /\ \/ \E c \in Clients : Call(c) \/ ClientStep(c)
              \/ WorkerStep
              \/ RegisterSpi \/ UnregisterSpi \/ SetTickCallback
        \/ process # "running" /\ UNCHANGED vars

Spec == Init /\ [][Next]_vars

\* Threads are scheduled and callbacks return.  The worker sleeps for 100 ms without
\* the mutex between two sweeps, so a client that waits for it gets it in the end.
FairSpec ==
  /\ Spec
  /\ \A c \in Clients : SF_vars(process = "running" /\ ClientStep(c))
  /\ WF_vars(process = "running" /\ WorkerStep)

-----------------------------------------------------------------------------
(* Properties *)

ConnectPlaces    == {"connect", "connect_run", "connect_start"}
DisconnectPlaces == {"stop", "join", "disconnected"}
SweepPlaces == {"for", "publish", "call_spi", "in_spi", "on_tick", "in_tick", "next"}
TickPlaces  == SweepPlaces \ {"for"}

\* Every variable has its type.
TypeOK ==
  /\ process \in {"running", "destroyed", "terminated", "crashed"}
  /\ connected \in BOOLEAN /\ running \in BOOLEAN
  /\ instruments \in Seq(Instruments)
  /\ mutex \in {Worker, NoThread}
  /\ spi_target \in BOOLEAN /\ on_tick \in BOOLEAN
  /\ worker \in {"none", "test", "lock", "returned"} \cup SweepPlaces
  /\ next \in Nat \ {0}
  /\ tick \in Instruments \cup {NoInstrument}
  /\ pc \in [Clients -> {"idle", "subscribe", "unsubscribe"} \cup ConnectPlaces
                          \cup DisconnectPlaces]
  /\ argument \in [Clients -> Seq(Instruments)]

\* The loop over instruments_ is never disturbed: while the worker works on a tick,
\* the instrument is the one at its position in the list, so that no callback hears
\* of an instrument after Unsubscribe, or a Subscribe without it, has returned.
OnlySubscribedTick ==
  worker \in TickPlaces => next \in DOMAIN instruments /\ tick = instruments[next]

\* Once Disconnect has returned there is no worker, hence no callback, until the
\* next Connect.
NoTickOnceDisconnected == ~ connected => worker = "none"

\* One client connects, disconnects and destroys.
OneOwner == \A c, d \in Owners : c = d

\* No sequence of calls destroys or replaces a joinable tick_thread_.
NeverTerminated == process # "terminated"

\* Connect, Disconnect, Subscribe and Unsubscribe return: the worker always ends
\* its sweep and gives the mutex back, or sees running_ and returns.  Only a target
\* or a callback that is replaced under the worker may end the process before.
EveryCallReturns ==
  \A c \in Clients : pc[c] # "idle" ~> pc[c] = "idle" \/ process = "crashed"

Disconnecting == \E c \in Clients : pc[c] \in DisconnectPlaces

\* While the API stays connected and an instrument subscribed, on_tick_ hears of it,
\* after a reconnection as after the first Connect, and whether on_tick_ was set
\* before the worker was started or, as main.cpp connects before the engine has the
\* API, while it runs.
SubscribedInstrumentsTick ==
  \A i \in Instruments :
    connected /\ i \in Subscribed /\ on_tick
      ~> \/ worker = "in_tick" /\ tick = i
         \/ i \notin Subscribed
         \/ Disconnecting
         \/ ~ on_tick
         \/ process = "crashed"

\* No deadlock between the clients and the worker: while the worker holds the mutex it
\* is in its sweep, where it waits for nothing, and never comes to take it again; and
\* whoever joins the worker has cleared running_, which no Connect sets meanwhile.
NoDeadlock ==
  /\ mutex # NoThread => worker \in SweepPlaces
  /\ \A c \in Clients : pc[c] = "join" => ~ running

\* Why the loop is not disturbed: the worker holds the mutex during a whole sweep.
SweepOK == worker \in SweepPlaces => mutex = Worker

\* Where the owner is in Connect and Disconnect, there is a worker or there is none.
OwnerOK ==
  \A c \in Clients :
    /\ pc[c] \in ConnectPlaces \cup DisconnectPlaces => c \in Owners
    /\ pc[c] = "connect" => ~ connected
    /\ pc[c] \in {"connect_run", "connect_start"} => connected
    /\ pc[c] \in {"connect_run", "connect_start", "disconnected"} => worker = "none"

-----------------------------------------------------------------------------
(* What the comments of the code say *)

\* Ticks are forwarded to the registered SPI (mock_quote_spi.cpp,
\* "将 Mock 生成的深度行情转发至已注册的标准行情 SPI"): to none once it is unregistered.
OnlyRegisteredSpiHears ==
  [][worker = "call_spi" /\ worker' = "in_spi" => spi_target]_vars
=============================================================================
