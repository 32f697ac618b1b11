-------------------------- MODULE MockQuoteProofs --------------------------
(***************************************************************************)
(* What holds of MockQuoteApi for every set of clients, every list of      *)
(* instruments and however long the run.                                   *)
(***************************************************************************)
EXTENDS MockQuoteApi, SequenceTheorems, TLAPS

\* A step of the process while it runs.
RunningStep == /\ process = "running"
               /\ \/ \E c \in Clients : Call(c) \/ ClientStep(c)
                  \/ WorkerStep
                  \/ RegisterSpi \/ UnregisterSpi \/ SetTickCallback

-----------------------------------------------------------------------------
(* Types *)

\* The steps of the clients keep the types.
LEMMA CallType ==
  ASSUME TypeOK, NEW c \in Clients, Call(c) \/ ClientStep(c)
  PROVE  TypeOK'
<1> USE QuoteAssumption DEF TypeOK, ConnectPlaces, DisconnectPlaces, SweepPlaces, callbacks,
                            generation, clients, Goto
<1>1. CASE Connect(c)
  BY <1>1 DEF Connect
<1>2. CASE Disconnect(c)
  BY <1>2 DEF Disconnect
<1>3. CASE Destroy(c)
  BY <1>3 DEF Destroy
<1>4. CASE Unsubscribe(c)
  BY <1>4 DEF Unsubscribe
<1>5. ASSUME NEW list \in Subscriptions, Subscribe(c, list)
      PROVE  TypeOK'
  BY <1>5 DEF Subscribe
<1>6. CASE ConnectSet(c)
  BY <1>6 DEF ConnectSet
<1>7. CASE ConnectRun(c)
  BY <1>7 DEF ConnectRun
<1>8. CASE ConnectStart(c)
  BY <1>8 DEF ConnectStart
<1>9. CASE Stop(c)
  BY <1>9 DEF Stop
<1>10. CASE Join(c)
  BY <1>10 DEF Join
<1>11. CASE Disconnected(c)
  BY <1>11 DEF Disconnected
<1>12. CASE SubscribeLocked(c)
  BY <1>12, EmptySeq DEF SubscribeLocked
<1>13. CASE UnsubscribeLocked(c)
  BY <1>13, EmptySeq DEF UnsubscribeLocked
<1> QED
  BY <1>1, <1>2, <1>3, <1>4, <1>5, <1>6, <1>7, <1>8, <1>9, <1>10, <1>11, <1>12, <1>13
  DEF Call, ClientStep

\* The worker's steps keep the types.
LEMMA WorkerType ==
  ASSUME TypeOK, WorkerStep
  PROVE  TypeOK'
<1> USE QuoteAssumption DEF TypeOK, SweepPlaces, callbacks, clients, Go
<1>1. CASE TestRunning
  BY <1>1 DEF TestRunning
<1>2. CASE LockMutex
  BY <1>2 DEF LockMutex
<1>3. CASE MakeTick
  <2>1. next \in 1 .. Len(instruments)
    BY <1>3 DEF MakeTick
  <2>2. instruments[next] \in Instruments
    BY <2>1, ElementOfSeq
  <2> QED
    BY <1>3, <2>2 DEF MakeTick
<1>4. CASE EndSweep
  BY <1>4 DEF EndSweep
<1>5. CASE PublishDepthMarketData
  BY <1>5 DEF PublishDepthMarketData
<1>6. CASE CallTarget
  BY <1>6 DEF CallTarget
<1>7. CASE TargetReturns
  BY <1>7 DEF TargetReturns
<1>8. CASE CallOnTick
  BY <1>8 DEF CallOnTick
<1>9. CASE OnTickReturns
  BY <1>9 DEF OnTickReturns
<1>10. CASE NextInstrument
  BY <1>10 DEF NextInstrument
<1> QED
  BY <1>1, <1>2, <1>3, <1>4, <1>5, <1>6, <1>7, <1>8, <1>9, <1>10 DEF WorkerStep

\* Every variable keeps its type.
THEOREM QuoteTypeCorrect == Spec => []TypeOK
<1>1. Init => TypeOK
  <2> SUFFICES ASSUME Init PROVE TypeOK
    OBVIOUS
  <2>1. instruments \in Seq(Instruments) /\ argument \in [Clients -> Seq(Instruments)]
    <3>1. <<>> \in Seq(Instruments)
      BY EmptySeq
    <3> QED
      BY <3>1, Zenon DEF Init
  <2>2. /\ connected \in BOOLEAN /\ running \in BOOLEAN
        /\ spi_target \in BOOLEAN /\ on_tick \in BOOLEAN
    BY Zenon DEF Init
  <2>3. pc \in [Clients -> {"idle", "subscribe", "unsubscribe"} \cup ConnectPlaces
                            \cup DisconnectPlaces]
    BY DEF Init
  <2>4. /\ worker \in {"none", "test", "lock", "returned"} \cup SweepPlaces
        /\ next \in Nat \ {0}
    BY DEF Init
  <2>5. /\ process \in {"running", "destroyed", "terminated", "crashed"}
        /\ mutex \in {Worker, NoThread}
        /\ tick \in Instruments \cup {NoInstrument}
    BY DEF Init
  <2> QED
    BY <2>1, <2>2, <2>3, <2>4, <2>5 DEF TypeOK
<1>2. TypeOK /\ [Next]_vars => TypeOK'
  <2> SUFFICES ASSUME TypeOK, [Next]_vars PROVE TypeOK'
    OBVIOUS
  <2>1. ASSUME NEW c \in Clients, Call(c) \/ ClientStep(c) PROVE TypeOK'
    BY <2>1, CallType
  <2>2. CASE WorkerStep
    BY <2>2, WorkerType
  <2>3. CASE RegisterSpi \/ UnregisterSpi \/ SetTickCallback
    BY <2>3 DEF RegisterSpi, UnregisterSpi, SetTarget, SetTickCallback, TypeOK, generation,
                clients
  <2>4. CASE UNCHANGED vars
    BY <2>4 DEF vars, TypeOK, callbacks, generation, clients
  <2> QED
    BY <2>1, <2>2, <2>3, <2>4 DEF Next
<1> QED
  BY <1>1, <1>2, PTL DEF Spec

-----------------------------------------------------------------------------
(* The sweep *)

\* The worker holds the mutex for the whole sweep, so its loop is not disturbed:
\* no callback hears of an instrument that is not subscribed.
THEOREM SweepIsSafe == Spec => []OnlySubscribedTick
<1> DEFINE Inv == SweepOK /\ OnlySubscribedTick
<1>1. Init => Inv
  BY DEF Init, SweepOK, OnlySubscribedTick, SweepPlaces, TickPlaces
<1>2. TypeOK /\ Inv /\ [Next]_vars => Inv'
  <2> SUFFICES ASSUME TypeOK, SweepOK, OnlySubscribedTick, [Next]_vars PROVE Inv'
    OBVIOUS
  <2> USE QuoteAssumption DEF SweepOK, OnlySubscribedTick, SweepPlaces, TickPlaces
  <2>1. ASSUME NEW c \in Clients, Call(c) PROVE Inv'
    BY <2>1 DEF Call, Connect, Disconnect, Destroy, Unsubscribe, Subscribe, generation
  <2>2. ASSUME NEW c \in Clients, ClientStep(c) PROVE Inv'
    <3>1. CASE SubscribeLocked(c) \/ UnsubscribeLocked(c)
      BY <3>1 DEF SubscribeLocked, UnsubscribeLocked, generation
    <3>2. CASE ConnectStart(c) \/ Join(c)
      BY <3>2 DEF ConnectStart, Join, generation
    <3>3. CASE ConnectSet(c) \/ ConnectRun(c) \/ Stop(c) \/ Disconnected(c)
      BY <3>3 DEF ConnectSet, ConnectRun, Stop, Disconnected, generation
    <3> QED
      BY <2>2, <3>1, <3>2, <3>3 DEF ClientStep
  <2>3. CASE WorkerStep
    <3>1. CASE MakeTick
      <4>1. next \in DOMAIN instruments
        BY <3>1 DEF MakeTick, TypeOK
      <4> QED
        BY <3>1, <4>1 DEF MakeTick, Go
    <3>2. CASE LockMutex \/ EndSweep \/ TestRunning \/ NextInstrument
      BY <3>2 DEF LockMutex, EndSweep, TestRunning, NextInstrument, Go
    <3>3. CASE PublishDepthMarketData \/ CallTarget \/ TargetReturns
      BY <3>3 DEF PublishDepthMarketData, CallTarget, TargetReturns, Go
    <3>4. CASE CallOnTick \/ OnTickReturns
      BY <3>4 DEF CallOnTick, OnTickReturns, Go
    <3> QED
      BY <2>3, <3>1, <3>2, <3>3, <3>4 DEF WorkerStep
  <2>4. CASE RegisterSpi \/ UnregisterSpi \/ SetTickCallback
    BY <2>4 DEF RegisterSpi, UnregisterSpi, SetTarget, SetTickCallback, generation
  <2>5. CASE UNCHANGED vars
    BY <2>5 DEF vars, generation
  <2> QED
    BY <2>1, <2>2, <2>3, <2>4, <2>5 DEF Next
<1>3. Inv => OnlySubscribedTick
  OBVIOUS
<1> QED
  BY <1>1, <1>2, <1>3, QuoteTypeCorrect, PTL DEF Spec

-----------------------------------------------------------------------------
(* Connections *)

\* Only Connect starts a worker and only Join ends it, both of the owner.
ConnectionOK == OwnerOK /\ NoTickOnceDisconnected

\* The worker does not touch the connection, and ends only where Join waits for it.
LEMMA WorkerKeepsConnection ==
  ASSUME WorkerStep
  PROVE  /\ UNCHANGED <<connected, pc>>
         /\ worker # "none" /\ worker' # "none"
<1> USE DEF clients, Go
<1>1. CASE TestRunning \/ LockMutex \/ MakeTick \/ EndSweep \/ NextInstrument
  BY <1>1 DEF TestRunning, LockMutex, MakeTick, EndSweep, NextInstrument
<1>2. CASE PublishDepthMarketData \/ CallTarget \/ TargetReturns
  BY <1>2 DEF PublishDepthMarketData, CallTarget, TargetReturns
<1>3. CASE CallOnTick \/ OnTickReturns
  BY <1>3 DEF CallOnTick, OnTickReturns
<1> QED
  BY <1>1, <1>2, <1>3 DEF WorkerStep

\* With one owner, every step keeps what belongs to the connection.
LEMMA ConnectionKept ==
  ASSUME TypeOK, OneOwner, ConnectionOK, [Next]_vars
  PROVE  ConnectionOK'
<1> USE QuoteAssumption DEF ConnectionOK, OwnerOK, NoTickOnceDisconnected, OneOwner,
                            ConnectPlaces, DisconnectPlaces
<1>1. ASSUME NEW c \in Clients, Call(c) PROVE ConnectionOK'
  <2>1. CASE Connect(c)
    BY <2>1 DEF Connect, Goto, generation, TypeOK
  <2>2. CASE Disconnect(c)
    BY <2>2 DEF Disconnect, Goto, generation, TypeOK
  <2>3. CASE Destroy(c)
    BY <2>3 DEF Destroy, generation, clients
  <2>4. CASE Unsubscribe(c)
    BY <2>4 DEF Unsubscribe, Goto, generation, TypeOK
  <2>5. ASSUME NEW list \in Subscriptions, Subscribe(c, list) PROVE ConnectionOK'
    BY <2>5 DEF Subscribe, Goto, generation, TypeOK
  <2> QED
    BY <1>1, <2>1, <2>2, <2>3, <2>4, <2>5 DEF Call
<1>2. ASSUME NEW c \in Clients, ClientStep(c) PROVE ConnectionOK'
  <2>1. CASE ConnectSet(c)
    <3>1. worker = "none" /\ worker' = worker /\ connected' = TRUE
      BY <2>1 DEF ConnectSet, Goto, generation
    <3>2. ASSUME NEW d \in Clients PROVE pc'[d] # "connect"
      BY <2>1, <3>2 DEF ConnectSet, Goto, TypeOK
    <3>3. \A d \in Clients : pc'[d] \in ConnectPlaces \cup DisconnectPlaces => d \in Owners
      BY <2>1 DEF ConnectSet, Goto, TypeOK
    <3> QED
      BY <3>1, <3>2, <3>3
  <2>2. CASE ConnectRun(c) \/ Stop(c)
    BY <2>2 DEF ConnectRun, Stop, Goto, generation, TypeOK
  <2>3. CASE ConnectStart(c)
    BY <2>3 DEF ConnectStart, Goto, TypeOK
  <2>4. CASE Join(c)
    BY <2>4 DEF Join, Goto, TypeOK
  <2>5. CASE Disconnected(c)
    BY <2>5 DEF Disconnected, Goto, generation, TypeOK
  <2>6. CASE SubscribeLocked(c) \/ UnsubscribeLocked(c)
    BY <2>6 DEF SubscribeLocked, UnsubscribeLocked, Goto, generation, TypeOK
  <2> QED
    BY <1>2, <2>1, <2>2, <2>3, <2>4, <2>5, <2>6 DEF ClientStep
<1>3. CASE WorkerStep
  BY <1>3, WorkerKeepsConnection
<1>4. CASE RegisterSpi \/ UnregisterSpi \/ SetTickCallback
  BY <1>4 DEF RegisterSpi, UnregisterSpi, SetTarget, SetTickCallback, generation, clients
<1>5. CASE UNCHANGED vars
  BY <1>5 DEF vars, generation, clients
<1> QED
  BY <1>1, <1>2, <1>3, <1>4, <1>5 DEF Next

\* With one owner, no callback runs between the return of Disconnect and the next
\* Connect, however often the owner reconnects.
THEOREM DisconnectedIsSilent == OneOwner /\ Spec => []NoTickOnceDisconnected
<1> SUFFICES ASSUME OneOwner PROVE Spec => []NoTickOnceDisconnected
  OBVIOUS
<1>1. Init => ConnectionOK
  BY DEF Init, ConnectionOK, OwnerOK, NoTickOnceDisconnected, ConnectPlaces, DisconnectPlaces
<1>2. TypeOK /\ ConnectionOK /\ [Next]_vars => ConnectionOK'
  BY ConnectionKept
<1>3. ConnectionOK => NoTickOnceDisconnected
  BY DEF ConnectionOK
<1> QED
  BY <1>1, <1>2, <1>3, QuoteTypeCorrect, PTL DEF Spec

\* With one owner, tick_thread_ is never assigned to or destroyed while it is joinable.
THEOREM QuoteNeverTerminates == OneOwner /\ Spec => []NeverTerminated
<1> SUFFICES ASSUME OneOwner PROVE Spec => []NeverTerminated
  OBVIOUS
<1> DEFINE Inv == ConnectionOK /\ NeverTerminated
<1>1. Init => Inv
  BY DEF Init, ConnectionOK, OwnerOK, NoTickOnceDisconnected, ConnectPlaces, DisconnectPlaces,
         NeverTerminated
<1>2. TypeOK /\ Inv /\ [Next]_vars => Inv'
  <2> SUFFICES ASSUME TypeOK, Inv, [Next]_vars PROVE NeverTerminated'
    BY ConnectionKept
  <2> USE DEF NeverTerminated
  <2>1. ASSUME NEW c \in Clients, Call(c) PROVE NeverTerminated'
    BY <2>1 DEF Call, Connect, Disconnect, Destroy, Unsubscribe, Subscribe, ConnectionOK,
                NoTickOnceDisconnected
  <2>2. ASSUME NEW c \in Clients, ClientStep(c) PROVE NeverTerminated'
    BY <2>2 DEF ClientStep, ConnectSet, ConnectRun, ConnectStart, Stop, Join, Disconnected,
                SubscribeLocked, UnsubscribeLocked, Goto, ConnectionOK, OwnerOK
  <2>3. CASE WorkerStep
    BY <2>3 DEF WorkerStep, TestRunning, LockMutex, MakeTick, EndSweep,
                PublishDepthMarketData, CallTarget, TargetReturns, CallOnTick, OnTickReturns,
                NextInstrument, Go
  <2>4. CASE RegisterSpi \/ UnregisterSpi \/ SetTickCallback
    BY <2>4 DEF RegisterSpi, UnregisterSpi, SetTarget, SetTickCallback
  <2>5. CASE UNCHANGED vars
    BY <2>5 DEF vars
  <2> QED
    BY <2>1, <2>2, <2>3, <2>4, <2>5 DEF Next
<1>3. Inv => NeverTerminated
  OBVIOUS
<1> QED
  BY <1>1, <1>2, <1>3, QuoteTypeCorrect, PTL DEF Spec

-----------------------------------------------------------------------------
(* Waiting *)

\* With one owner, nobody waits for a worker that waits: the mutex is held in the sweep
\* only, and running_ stays clear while the owner joins.
THEOREM ClientsDoNotDeadlock == OneOwner /\ Spec => []NoDeadlock
<1> SUFFICES ASSUME OneOwner PROVE Spec => []NoDeadlock
  OBVIOUS
<1> DEFINE Inv == ConnectionOK /\ NoDeadlock
<1>1. Init => Inv
  BY DEF Init, ConnectionOK, OwnerOK, NoTickOnceDisconnected, ConnectPlaces, DisconnectPlaces,
         NoDeadlock
<1>2. TypeOK /\ Inv /\ [Next]_vars => Inv'
  <2> SUFFICES ASSUME TypeOK, Inv, [Next]_vars PROVE NoDeadlock'
    BY ConnectionKept
  <2> USE QuoteAssumption DEF NoDeadlock, SweepPlaces
  <2>1. ASSUME NEW c \in Clients, Call(c) PROVE NoDeadlock'
    BY <2>1 DEF Call, Connect, Disconnect, Destroy, Unsubscribe, Subscribe, Goto, generation,
                clients, TypeOK
  <2>2. ASSUME NEW c \in Clients, ClientStep(c) PROVE NoDeadlock'
    <3>1. CASE ConnectRun(c)
      <4>1. \A d \in Clients : pc[d] # "join"
        BY <3>1 DEF ConnectRun, Goto, ConnectionOK, OwnerOK, OneOwner, ConnectPlaces,
                    DisconnectPlaces
      <4> QED
        BY <3>1, <4>1 DEF ConnectRun, Goto, generation, TypeOK
    <3>2. CASE Stop(c)
      BY <3>2 DEF Stop, Goto, generation, TypeOK
    <3>3. CASE ConnectStart(c) \/ Join(c)
      BY <3>3 DEF ConnectStart, Join, Goto, TypeOK, ConnectionOK, OwnerOK
    <3>4. CASE ConnectSet(c) \/ Disconnected(c) \/ SubscribeLocked(c) \/ UnsubscribeLocked(c)
      BY <3>4 DEF ConnectSet, Disconnected, SubscribeLocked, UnsubscribeLocked, Goto,
                  generation, TypeOK
    <3> QED
      BY <2>2, <3>1, <3>2, <3>3, <3>4 DEF ClientStep
  <2>3. CASE WorkerStep
    <3>1. UNCHANGED <<running, pc>>
      BY <2>3 DEF WorkerStep, TestRunning, LockMutex, MakeTick, EndSweep,
                  PublishDepthMarketData, CallTarget, TargetReturns, CallOnTick, OnTickReturns,
                  NextInstrument, clients
    <3>2. mutex' # NoThread => worker' \in SweepPlaces
      BY <2>3 DEF WorkerStep, TestRunning, LockMutex, MakeTick, EndSweep,
                  PublishDepthMarketData, CallTarget, TargetReturns, CallOnTick, OnTickReturns,
                  NextInstrument, Go
    <3> QED
      BY <3>1, <3>2
  <2>4. CASE RegisterSpi \/ UnregisterSpi \/ SetTickCallback
    BY <2>4 DEF RegisterSpi, UnregisterSpi, SetTarget, SetTickCallback, generation, clients
  <2>5. CASE UNCHANGED vars
    BY <2>5 DEF vars, generation, clients
  <2> QED
    BY <2>1, <2>2, <2>3, <2>4, <2>5 DEF Next
<1>3. Inv => NoDeadlock
  OBVIOUS
<1> QED
  BY <1>1, <1>2, <1>3, QuoteTypeCorrect, PTL DEF Spec
=============================================================================
