----------------------- MODULE MockTraderBookProofs -----------------------
(***************************************************************************)
(* With one sending thread and generated ids the two records MockTraderApi *)
(* keeps of an order, its snapshot and its trade, always agree.            *)
(*                                                                         *)
(* The argument: the calls of a thread form a stack (StacksOK), so no two  *)
(* SendOrder calls are between reading and bumping the counter, so ids are *)
(* handed out once (IdsOK), so what the book holds under an id stems from  *)
(* one call (BookOK), and that call stores at most one trade.  Hence the   *)
(* order of the reports (ReportsOK), what they say of a snapshot           *)
(* (CanceledOK) and, for every id, the life that OrderLifecycle describes. *)
(***************************************************************************)
EXTENDS MockTraderProofs

-----------------------------------------------------------------------------
(* Stacks *)

\* A call that begins, on a thread that is in none of the API's code.
LEMMA StacksBegin ==
  ASSUME CallsTypeOK, StacksOK, NEW t \in Threads, NEW c \in Calls, NEW at,
         Begin(t, c, at), at \in {"send_id", "cancel_lock"},
         at = "send_id" => t \in SendThreads
  PROVE  StacksOK'
<1> USE SetsAssumption DEF CallsTypeOK, Begin
<1>1. CASE ~ connected
  BY <1>1 DEF StacksOK, Active, InCallback, SendPlaces
<1>2. CASE connected
  <2>1. /\ pc' = [pc EXCEPT ![c] = at] /\ under' = [under EXCEPT ![c] = top[t]]
        /\ top' = [top EXCEPT ![t] = c] /\ thread' = [thread EXCEPT ![c] = t]
        /\ ~ Active(c) /\ Active(c)'
    BY <1>2 DEF Active
  <2>2. top[t] # NoCall => pc[top[t]] \in InCallback /\ thread[top[t]] = t /\ top[t] # c
    BY DEF Free, StacksOK, InCallback
  <2>3. \A d \in Calls : d # c => (Active(d)' <=> Active(d))
    BY <2>1 DEF Active
  <2>4. \A d \in Calls : Active(d)' => thread'[d] \in Threads
    BY <2>1, <2>3 DEF StacksOK
  <2>5. \A d \in Calls : Active(d)' /\ pc'[d] \notin InCallback => top'[thread'[d]] = d
    BY <2>1, <2>2, <2>3 DEF StacksOK, Active, InCallback
  <2>6. ASSUME NEW s \in Threads, top'[s] # NoCall
        PROVE  pc'[top'[s]] \notin {"new", "done"} /\ thread'[top'[s]] = s
    BY <2>1, <2>6 DEF StacksOK, Active
  <2>7. \A d \in Calls : Active(d)' /\ under'[d] # NoCall =>
          /\ pc'[under'[d]] \in InCallback
          /\ thread'[under'[d]] = thread'[d]
          /\ top'[thread'[d]] # under'[d]
    BY <2>1, <2>2, <2>3 DEF StacksOK, Active, InCallback
  <2>8. \A d, e \in Calls : Active(d)' /\ Active(e)' /\ d # e /\ under'[d] # NoCall
          => under'[d] # under'[e]
    BY <2>1, <2>2, <2>3 DEF StacksOK
  <2>9. \A d \in Calls : pc'[d] \in SendPlaces => thread'[d] \in SendThreads
    BY <2>1 DEF StacksOK, SendPlaces
  <2> QED BY <2>4, <2>5, <2>6, <2>7, <2>8, <2>9 DEF StacksOK, Active
<1> QED BY <1>1, <1>2

\* A call that moves within the API's code, or into a callback, or out of it.
LEMMA StacksGoto ==
  ASSUME CallsTypeOK, StacksOK, NEW c \in Calls, NEW from, NEW to, Goto(c, from, to),
         to \in SendPlaces \cup CancelPlaces, to \in SendPlaces => from \in SendPlaces
  PROVE  StacksOK'
<1> USE SetsAssumption DEF CallsTypeOK
<1>1. /\ pc' = [pc EXCEPT ![c] = to] /\ pc[c] = from
      /\ UNCHANGED <<top, under, thread>> /\ top[thread[c]] = c
      /\ Active(c) /\ Active(c)'
  BY DEF Goto, Running, stacks, Active, SendPlaces, CancelPlaces
<1>2. \A d \in Calls : Active(d)' <=> Active(d)
  BY <1>1 DEF Active
<1>3. \A d \in Calls : Active(d) => under[d] # c
  BY <1>1 DEF StacksOK
<1>4. \A d \in Calls : Active(d)' /\ under'[d] # NoCall => pc'[under'[d]] \in InCallback
  BY <1>1, <1>2, <1>3 DEF StacksOK
<1>5. \A d \in Calls : pc'[d] \in SendPlaces => thread'[d] \in SendThreads
  BY <1>1 DEF StacksOK
<1>6. \A d \in Calls : Active(d)' /\ pc'[d] \notin InCallback => top'[thread'[d]] = d
  BY <1>1, <1>2 DEF StacksOK
<1> QED BY <1>1, <1>2, <1>4, <1>5, <1>6 DEF StacksOK

\* A call that returns to the one it interrupted.
LEMMA StacksReturn ==
  ASSUME CallsTypeOK, StacksOK, NEW c \in Calls, NEW from, NEW code, Return(c, from, code)
  PROVE  StacksOK'
<1> USE SetsAssumption DEF CallsTypeOK
<1>1. /\ pc' = [pc EXCEPT ![c] = "done"] /\ top' = [top EXCEPT ![thread[c]] = under[c]]
      /\ UNCHANGED <<under, thread>> /\ top[thread[c]] = c
      /\ Active(c) /\ ~ Active(c)'
  BY DEF Return, Running, stacks, Active
<1>2. \A d \in Calls : d # c => (Active(d)' <=> Active(d)) /\ pc'[d] = pc[d]
  BY <1>1 DEF Active
<1>3. thread[c] \in Threads
  BY <1>1 DEF StacksOK
<1>4. under[c] # NoCall =>
        /\ under[c] # c /\ Active(under[c]) /\ thread[under[c]] = thread[c]
        /\ \A d \in Calls : d # c /\ Active(d) => under[d] # under[c]
  BY <1>1 DEF StacksOK, Active, InCallback
<1>5. \A d \in Calls : Active(d)' => thread'[d] \in Threads
  BY <1>1, <1>2 DEF StacksOK
<1>6. \A d \in Calls : Active(d)' /\ pc'[d] \notin InCallback => top'[thread'[d]] = d
  BY <1>1, <1>2, <1>3 DEF StacksOK
<1>7. ASSUME NEW t \in Threads, top'[t] # NoCall
      PROVE  pc'[top'[t]] \notin {"new", "done"} /\ thread'[top'[t]] = t
  <2>1. CASE t = thread[c]
    BY <1>1, <1>2, <1>4, <1>7, <2>1 DEF Active
  <2>2. CASE t # thread[c]
    BY <1>1, <1>2, <1>7, <2>2 DEF StacksOK, Active
  <2> QED BY <2>1, <2>2
<1>8. \A d \in Calls : Active(d)' /\ under'[d] # NoCall =>
        /\ pc'[under'[d]] \in InCallback
        /\ thread'[under'[d]] = thread'[d]
        /\ top'[thread'[d]] # under'[d]
  BY <1>1, <1>2, <1>3, <1>4 DEF StacksOK
<1>9. \A d, e \in Calls : Active(d)' /\ Active(e)' /\ d # e /\ under'[d] # NoCall
        => under'[d] # under'[e]
  BY <1>1, <1>2 DEF StacksOK
<1>10. \A d \in Calls : pc'[d] \in SendPlaces => thread'[d] \in SendThreads
  BY <1>1, <1>2 DEF StacksOK, SendPlaces
<1> QED BY <1>5, <1>6, <1>7, <1>8, <1>9, <1>10 DEF StacksOK, Active

\* The calls of a thread form a stack, of which only the top runs.
LEMMA StacksCorrect == Spec => []StacksOK
<1>1. Init => StacksOK
  BY SetsAssumption DEF Init, StacksOK, Active, SendPlaces
<1>2. ASSUME TypeOK, StacksOK, [Next]_vars PROVE StacksOK'
  <2> USE <1>2 DEF TypeOK
  <2>1. ASSUME NEW t \in Threads, NEW c \in Calls, NEW r \in Requests, SendOrder(t, c, r)
        PROVE  StacksOK'
    BY <2>1, StacksBegin DEF SendOrder
  <2>2. ASSUME NEW t \in Threads, NEW c \in Calls, NEW id \in CancelIds, CancelOrder(t, c, id)
        PROVE  StacksOK'
    BY <2>2, StacksBegin DEF CancelOrder
  <2>3. ASSUME NEW c \in Calls, SendStep(c) PROVE StacksOK'
    <3>1. CASE SendWithoutFill(c) \/ SendStore(c)
      BY <3>1, StacksReturn DEF SendWithoutFill, SendStore
    <3>2. CASE ~ (SendWithoutFill(c) \/ SendStore(c))
      <4>1. PICK from \in SendPlaces, to \in SendPlaces : Goto(c, from, to)
        BY <2>3, <3>2 DEF SendStep, SendId, SendBump, SendLock, SendInsert, SendReport,
           OnOrderReturns, SendFill, SendTrade, SendLockFill, SendPlaces
      <4> QED BY <4>1, StacksGoto
    <3> QED BY <3>1, <3>2
  <2>4. ASSUME NEW c \in Calls, CancelStep(c) PROVE StacksOK'
    <3>1. CASE CancelRefuse(c) \/ CancelReturn(c)
      BY <3>1, StacksReturn DEF CancelRefuse, CancelReturn
    <3>2. CASE ~ (CancelRefuse(c) \/ CancelReturn(c))
      <4>1. PICK from \in CancelPlaces, to \in CancelPlaces : Goto(c, from, to)
        BY <2>4, <3>2 DEF CancelStep, CancelLock, CancelApply, CancelReport, CancelPlaces
      <4>2. to \notin SendPlaces
        BY DEF SendPlaces, CancelPlaces
      <4> QED BY <4>1, <4>2, StacksGoto
    <3> QED BY <3>1, <3>2
  <2>5. CASE UNCHANGED <<pc, top, under, thread>>
    BY <2>5 DEF StacksOK, Active
  <2> QED BY <2>1, <2>2, <2>3, <2>4, <2>5, ControlsKeepCalls
          DEF Next, Step, Finished, vars, callVars, stacks
<1> QED BY <1>1, <1>2, TypeCorrect, PTL DEF Spec


-----------------------------------------------------------------------------
(* Sections *)

\* The holder of the mutex is in a section until it unlocks.
LEMMA HolderCorrect == Spec => []HolderOK
<1>1. Init => HolderOK
  BY DEF Init, HolderOK
<1>2. ASSUME TypeOK, HolderOK, [Next]_vars PROVE HolderOK'
  <2> USE <1>2 DEF TypeOK, CallsTypeOK, BookTypeOK, HolderOK, SectionPlaces
  <2>1. ASSUME NEW t \in Threads, NEW c \in Calls, NEW at, Begin(t, c, at) PROVE HolderOK'
    BY <2>1 DEF Begin
  <2>2. ASSUME NEW c \in Calls, SendStep(c) PROVE HolderOK'
    <3>1. CASE SendLock(c) \/ SendLockFill(c)
      BY <3>1 DEF SendLock, SendLockFill, Goto, Lock
    <3>2. CASE SendInsert(c) \/ SendStore(c)
      BY <3>2 DEF SendInsert, SendStore, Unlock
    <3>3. CASE \/ SendId(c) \/ SendBump(c) \/ SendReport(c) \/ OnOrderReturns(c)
               \/ SendWithoutFill(c) \/ SendFill(c) \/ SendTrade(c)
      BY <3>3 DEF SendId, SendBump, SendReport, OnOrderReturns, SendWithoutFill, SendFill,
         SendTrade, Goto, Return
    <3> QED BY <2>2, <3>1, <3>2, <3>3 DEF SendStep
  <2>3. ASSUME NEW c \in Calls, CancelStep(c) PROVE HolderOK'
    BY <2>3 DEF CancelStep, CancelLock, CancelRefuse, CancelApply, CancelReport, CancelReturn,
       Goto, Return, Lock, Unlock
  <2>4. CASE UNCHANGED <<pc, orders_mutex>>
    BY <2>4
  <2> QED BY <2>1, <2>2, <2>3, <2>4, ControlsKeepCalls
          DEF Next, Step, SendOrder, CancelOrder, Finished, vars, callVars, bookVars
<1> QED BY <1>1, <1>2, TypeCorrect, PTL DEF Spec

\* No call waits for one that cannot go on: the holder is in a section, hence in no
\* callback, hence on top of its thread's stack.
THEOREM CallsDoNotDeadlock == Spec => []NoDeadlock
<1>1. TypeOK /\ StacksOK /\ HolderOK => NoDeadlock
  <2> SUFFICES ASSUME TypeOK, StacksOK, HolderOK, NEW c \in Calls, Waiting(c)
               PROVE  Running(orders_mutex) /\ ~ Waiting(orders_mutex)
    BY DEF NoDeadlock
  <2>1. orders_mutex \in Calls /\ pc[orders_mutex] \in SectionPlaces
    BY DEF Waiting, HolderOK, TypeOK, BookTypeOK
  <2>2. Active(orders_mutex) /\ pc[orders_mutex] \notin InCallback
    BY <2>1 DEF Active, SectionPlaces, InCallback
  <2>3. top[thread[orders_mutex]] = orders_mutex
    BY <2>1, <2>2 DEF StacksOK
  <2> QED BY <2>1, <2>2, <2>3 DEF Running, Active, Waiting, SectionPlaces
<1> QED BY <1>1, TypeCorrect, StacksCorrect, HolderCorrect, PTL

-----------------------------------------------------------------------------
(* Ids *)

\* Accepted and Named, now and after a step, are sets of calls.
LEMMA SetsOfCalls ==
  /\ Accepted \subseteq Calls /\ Named \subseteq Calls
  /\ Accepted' \subseteq Calls /\ Named' \subseteq Calls
BY DEF Accepted, Named

\* The records of the book are about calls.
LEMMA BookIsAboutCalls ==
  ASSUME BookTypeOK
  PROVE  /\ \A id \in DOMAIN orders : orders[id] \in Order /\ orders[id].client_order_id \in Calls
         /\ \A i \in DOMAIN trades : trades[i] \in Trade /\ trades[i].client_order_id \in Calls
<1>1. \A i \in DOMAIN trades : trades[i] \in Trade
  BY DEF BookTypeOK
<1> QED BY <1>1 DEF BookTypeOK, Order, Trade

\* With one sender, only one SendOrder call at a time is in the API's own code.
LEMMA OneAtATime ==
  ASSUME CallsTypeOK, StacksOK, OneSender, NEW c \in Calls, NEW d \in Calls,
         pc[c] \in SendPlaces \ InCallback, pc[d] \in SendPlaces \ InCallback
  PROVE  c = d
<1>1. Active(c) /\ Active(d)
  BY DEF Active, SendPlaces
<1>2. thread[c] = thread[d]
  BY DEF StacksOK, OneSender
<1>3. top[thread[c]] = c /\ top[thread[d]] = d
  BY <1>1 DEF StacksOK
<1> QED BY <1>2, <1>3

\* A call keeps its request once it has begun, and its result once it has returned.
LEMMA CallsStay ==
  ASSUME CallsTypeOK, [Next]_vars, NEW c \in Calls, pc[c] # "new"
  PROVE  /\ request'[c] = request[c]
         /\ pc[c] = "done" => pc'[c] = "done" /\ result'[c] = result[c]
<1> USE DEF CallsTypeOK, locals
<1>1. ASSUME NEW d \in Calls, Step(d)
      PROVE  /\ request' = request
             /\ d # c => pc'[c] = pc[c] /\ result'[c] = result[c]
             /\ pc[d] # "done"
  BY <1>1 DEF Step, SendStep, SendId, SendBump, SendLock, SendInsert, SendReport,
     OnOrderReturns, SendWithoutFill, SendFill, SendTrade, SendLockFill, SendStore,
     CancelStep, CancelLock, CancelRefuse, CancelApply, CancelReport, CancelReturn,
     Goto, Return, Running
<1>2. CASE Manage
  BY <1>2, ControlsKeepCalls DEF callVars
<1>3. CASE UNCHANGED vars
  BY <1>3 DEF vars
<1> QED BY <1>1, <1>2, <1>3 DEF Next, Finished, SendOrder, CancelOrder, Begin

\* A call becomes named by SendId and accepted by SendInsert only.
LEMMA NamedBefore ==
  ASSUME CallsTypeOK, [Next]_vars, NEW c \in Calls
  PROVE  /\ c \in Named' => c \in Named \/ SendId(c)
         /\ c \in Accepted' => c \in Accepted \/ SendInsert(c)
         /\ c \in Accepted => c \in Accepted'
<1> USE SetsAssumption DEF CallsTypeOK, Named, Accepted, Open
<1>1. ASSUME NEW t \in Threads, NEW d \in Calls, NEW r \in Requests, SendOrder(t, d, r)
      PROVE  (c \in Named' <=> c \in Named) /\ (c \in Accepted' <=> c \in Accepted)
  BY <1>1 DEF SendOrder, Begin
<1>2. ASSUME NEW t \in Threads, NEW d \in Calls, NEW id \in CancelIds, CancelOrder(t, d, id)
      PROVE  (c \in Named' <=> c \in Named) /\ (c \in Accepted' <=> c \in Accepted)
  BY <1>2 DEF CancelOrder, Begin
<1>3. ASSUME NEW d \in Calls, SendStep(d)
      PROVE  /\ c \in Named' => c \in Named \/ SendId(c)
             /\ c \in Accepted' => c \in Accepted \/ SendInsert(c)
             /\ c \in Accepted => c \in Accepted'
  <2> USE DEF locals, Goto
  <2>1. CASE SendId(d)
    BY <2>1 DEF SendId
  <2>2. CASE SendBump(d) \/ SendLock(d) \/ SendInsert(d)
    BY <2>2 DEF SendBump, SendLock, SendInsert
  <2>3. CASE SendReport(d) \/ OnOrderReturns(d) \/ SendFill(d) \/ SendTrade(d) \/ SendLockFill(d)
    BY <2>3 DEF SendReport, OnOrderReturns, SendFill, SendTrade, SendLockFill
  <2>4. CASE SendWithoutFill(d) \/ SendStore(d)
    <3>1. request[d] # NoRequest /\ request' = request
      BY <2>4 DEF SendWithoutFill, SendStore, Return, SendPlaces
    <3>2. /\ pc' = [pc EXCEPT ![d] = "done"] /\ result' = [result EXCEPT ![d] = "kSuccess"]
          /\ pc[d] \in Open
      <4>1. Return(d, "send_fill", "kSuccess") \/ Return(d, "send_store", "kSuccess")
        BY <2>4 DEF SendWithoutFill, SendStore
      <4> QED BY ONLY <4>1 DEF Return, Open
    <3>3. CASE c = d
      BY <3>1, <3>2, <3>3
    <3>4. CASE c # d
      <4>1. pc'[c] = pc[c] /\ result'[c] = result[c] /\ request'[c] = request[c]
        BY <3>1, <3>2, <3>4
      <4> QED BY <4>1
    <3> QED BY <3>3, <3>4
  <2> QED BY <1>3, <2>1, <2>2, <2>3, <2>4 DEF SendStep
<1>4. ASSUME NEW d \in Calls, CancelStep(d)
      PROVE  (c \in Named' <=> c \in Named) /\ (c \in Accepted' <=> c \in Accepted)
  <2>1. request[d] = NoRequest /\ request' = request
    BY <1>4 DEF CancelStep, CancelLock, CancelRefuse, CancelApply, CancelReport,
       CancelReturn, Goto, Return, CancelPlaces, locals
  <2> QED BY <1>4, <2>1 DEF CancelStep, CancelLock, CancelRefuse, CancelApply,
          CancelReport, CancelReturn, Goto, Return
<1>5. CASE Manage
  BY <1>5, ControlsKeepCalls DEF callVars, locals
<1>6. CASE UNCHANGED vars
  BY <1>6 DEF vars, locals
<1> QED BY <1>1, <1>2, <1>3, <1>4, <1>5, <1>6 DEF Next, Step, Finished

\* The counter moves, and a call reaches the bump, by SendBump and SendId only.
LEMMA CounterStays ==
  ASSUME CallsTypeOK, [Next]_vars, \A c \in Calls : ~ SendBump(c) /\ ~ SendId(c)
  PROVE  /\ next_broker_order_id' = next_broker_order_id
         /\ \A c \in Calls : pc'[c] = "send_bump" <=> pc[c] = "send_bump"
<1> USE DEF CallsTypeOK, counters
<1>1. ASSUME NEW t \in Threads, NEW d \in Calls, NEW r \in Requests, SendOrder(t, d, r)
      PROVE  /\ next_broker_order_id' = next_broker_order_id
             /\ \A c \in Calls : pc'[c] = "send_bump" <=> pc[c] = "send_bump"
  BY <1>1 DEF SendOrder, Begin
<1>2. ASSUME NEW t \in Threads, NEW d \in Calls, NEW id \in CancelIds, CancelOrder(t, d, id)
      PROVE  /\ next_broker_order_id' = next_broker_order_id
             /\ \A c \in Calls : pc'[c] = "send_bump" <=> pc[c] = "send_bump"
  BY <1>2 DEF CancelOrder, Begin
<1>3. ASSUME NEW d \in Calls, Step(d)
      PROVE  /\ next_broker_order_id' = next_broker_order_id
             /\ \A c \in Calls : pc'[c] = "send_bump" <=> pc[c] = "send_bump"
  BY <1>3 DEF Step, SendStep, SendLock, SendInsert, SendReport,
     OnOrderReturns, SendWithoutFill, SendFill, SendTrade, SendLockFill, SendStore,
     CancelStep, CancelLock, CancelRefuse, CancelApply, CancelReport, CancelReturn,
     Goto, Return
<1>4. CASE Manage
  BY <1>4, ControlsKeepCalls DEF callVars, bookVars
<1>5. CASE UNCHANGED vars
  BY <1>5 DEF vars
<1> QED BY <1>1, <1>2, <1>3, <1>4, <1>5 DEF Next, Finished

\* With one sender and generated ids, no two orders are given the same id.
LEMMA IdsCorrect == ASSUME OneSender, GeneratedIds PROVE Spec => []IdsOK
<1>1. Init => IdsOK
  BY DEF Init, IdsOK, Named, Accepted, Open
<1>2. ASSUME TypeOK, StacksOK, IdsOK, [Next]_vars PROVE IdsOK'
  <2> USE <1>2 DEF TypeOK
  <2>1. ASSUME NEW c \in Calls, SendId(c) PROVE IdsOK'
    <3>1. request[c].broker_order_id = 0
      BY <2>1, GeneratedIds DEF GeneratedIds, SendId, Goto, CallsTypeOK, SendPlaces
    <3>2. /\ pc' = [pc EXCEPT ![c] = "send_bump"] /\ pc[c] = "send_id"
          /\ broker_order_id' = [broker_order_id EXCEPT ![c] = next_broker_order_id]
          /\ next_broker_order_id' = next_broker_order_id
      BY <2>1, <3>1 DEF SendId, Goto, counters
    <3>3. \A d \in Calls : pc[d] # "send_bump"
      BY <3>2, OneAtATime, OneSender DEF SendPlaces, InCallback
    <3>4. ASSUME NEW d \in Calls, d # c, d \in Named'
          PROVE  d \in Named /\ broker_order_id'[d] = broker_order_id[d]
      <4>1. ~ SendId(d)
        BY <3>2, <3>4, <2>1, OneAtATime, OneSender DEF SendId, Goto, SendPlaces, InCallback
      <4>2. d \in Named
        BY <3>4, <4>1, NamedBefore
      <4> QED BY <3>2, <3>4, <4>2 DEF CallsTypeOK
    <3>5. \A d \in Calls : d # c /\ d \in Named' => broker_order_id'[d] < next_broker_order_id
      BY <3>3, <3>4 DEF IdsOK
    <3>6. broker_order_id'[c] = next_broker_order_id /\ pc'[c] = "send_bump"
      BY <3>2 DEF CallsTypeOK
    <3>7. \A d \in Calls : pc'[d] = "send_bump" => d = c
      BY <3>2, <3>3 DEF CallsTypeOK
    <3>8. next_broker_order_id \in Nat /\ broker_order_id' \in [Calls -> Nat]
      BY <3>2 DEF CallsTypeOK, BookTypeOK
    <3>9. \A d, e \in Calls : d \in Named' /\ e \in Named' /\ d # e
            => broker_order_id'[d] # broker_order_id'[e]
      BY <3>4, <3>5, <3>6, <3>8 DEF IdsOK
    <3> QED BY <3>2, <3>5, <3>6, <3>7, <3>9, SetsOfCalls DEF IdsOK
  <2>2. ASSUME NEW c \in Calls, SendBump(c) PROVE IdsOK'
    <3>1. /\ pc' = [pc EXCEPT ![c] = "send_lock"] /\ pc[c] = "send_bump"
          /\ broker_order_id' = broker_order_id
          /\ next_broker_order_id' = next_broker_order_id + 1
      BY <2>2 DEF SendBump, Goto, locals, IdsOK
    <3>2. \A d \in Calls : d # c => pc[d] # "send_bump"
      BY <3>1, OneAtATime, OneSender DEF SendPlaces, InCallback
    <3>3. ASSUME NEW d \in Calls, d \in Named' PROVE d \in Named
      <4>1. CASE d = c
        BY <3>1, <4>1 DEF Named
      <4>2. CASE d # c
        <5>1. pc'[d] = pc[d]
          BY <3>1, <4>2 DEF CallsTypeOK
        <5>2. ~ SendId(d)
          BY <3>1, <5>1 DEF SendId, Goto, CallsTypeOK
        <5> QED BY <3>3, <5>2, NamedBefore
      <4> QED BY <4>1, <4>2
    <3>4. ASSUME NEW d \in Calls, d \in Named' PROVE broker_order_id[d] < next_broker_order_id + 1
      <4>1. broker_order_id[d] \in Nat /\ next_broker_order_id \in Nat
        BY DEF CallsTypeOK, BookTypeOK
      <4>2. d \in Named
        BY <3>3, <3>4
      <4>3. broker_order_id[d] = next_broker_order_id \/ broker_order_id[d] < next_broker_order_id
        BY <4>2 DEF IdsOK
      <4> QED BY <4>1, <4>3
    <3>5. \A d \in Calls : pc'[d] # "send_bump"
      BY <3>1, <3>2 DEF CallsTypeOK
    <3> QED BY <3>1, <3>3, <3>4, <3>5, SetsOfCalls DEF IdsOK
  <2>3. ASSUME \A c \in Calls : ~ SendBump(c) /\ ~ SendId(c) PROVE IdsOK'
    <3>1. ASSUME NEW d \in Calls, d \in Named' PROVE d \in Named
      BY <2>3, <3>1, NamedBefore
    <3>2. \A d \in Calls : d \in Named => broker_order_id'[d] = broker_order_id[d]
      BY IdsStay DEF Named, Accepted, Open
    <3>3. /\ next_broker_order_id' = next_broker_order_id
          /\ \A d \in Calls : pc'[d] = "send_bump" <=> pc[d] = "send_bump"
      BY <2>3, CounterStays
    <3>4. \A d \in Calls : pc'[d] = "send_bump" => broker_order_id'[d] = next_broker_order_id'
      BY <3>2, <3>3 DEF IdsOK, Named
    <3>5. ASSUME NEW d \in Calls, d \in Named', pc'[d] # "send_bump"
          PROVE  broker_order_id'[d] < next_broker_order_id'
      BY <3>1, <3>2, <3>3, <3>5 DEF IdsOK
    <3>6. ASSUME NEW d \in Calls, NEW e \in Calls, d \in Named', e \in Named', d # e
          PROVE  broker_order_id'[d] # broker_order_id'[e]
      BY <3>1, <3>2, <3>6 DEF IdsOK
    <3> QED BY <3>4, <3>5, <3>6, SetsOfCalls DEF IdsOK
  <2> QED BY <2>1, <2>2, <2>3
<1> QED BY <1>1, <1>2, TypeCorrect, StacksCorrect, PTL DEF Spec


-----------------------------------------------------------------------------
(* The book *)

BookInv == BookOK /\ AcceptedOrderKeepsSnapshot /\ SnapshotAgreesWithTrades

\* Only SendInsert, SendStore and CancelApply change the book.
LEMMA BookStays ==
  ASSUME [Next]_vars,
         \A c \in Calls : ~ SendInsert(c) /\ ~ SendStore(c) /\ ~ CancelApply(c)
  PROVE  orders' = orders /\ trades' = trades
<1> USE DEF book
<1>1. ASSUME NEW c \in Calls, Step(c) PROVE orders' = orders /\ trades' = trades
  BY <1>1 DEF Step, SendStep, SendId, SendBump, SendLock, SendReport,
     OnOrderReturns, SendWithoutFill, SendFill, SendTrade, SendLockFill,
     CancelStep, CancelLock, CancelRefuse, CancelReport, CancelReturn
<1>2. CASE Manage
  BY <1>2, ControlsKeepCalls DEF bookVars
<1>3. CASE UNCHANGED vars
  BY <1>3 DEF vars
<1> QED BY <1>1, <1>2, <1>3 DEF Next, Finished, SendOrder, CancelOrder, Begin

\* An accepted call stays accepted, with its id and its request.
LEMMA AcceptedStays ==
  ASSUME CallsTypeOK, [Next]_vars, NEW c \in Calls, c \in Accepted
  PROVE  /\ c \in Accepted' /\ broker_order_id'[c] = broker_order_id[c]
         /\ request'[c] = request[c] /\ request[c] \in Requests
         /\ pc[c] = "done" => pc'[c] = "done"
<1>1. pc[c] \notin {"new", "send_id"}
  BY DEF Accepted, Open
<1>2. request[c] \in Requests
  BY DEF Accepted, Open, CallsTypeOK, SendPlaces
<1> QED BY <1>1, <1>2, NamedBefore, IdsStay, CallsStay

\* A step that leaves the book alone keeps what it holds right.
LEMMA BookUnchanged ==
  ASSUME TypeOK, BookInv, [Next]_vars,
         \A c \in Calls : ~ SendInsert(c) /\ ~ SendStore(c) /\ ~ CancelApply(c)
  PROVE  BookInv'
<1> USE DEF TypeOK, BookInv
<1>1. orders' = orders /\ trades' = trades
  BY BookStays
<1>2. ASSUME NEW id \in DOMAIN orders
      PROVE  LET c == orders[id].client_order_id
             IN c \in Calls /\ c \in Accepted' /\ broker_order_id'[c] = id /\ request'[c] = request[c]
  <2> DEFINE c == orders[id].client_order_id
  <2>1. c \in Calls /\ c \in Accepted /\ broker_order_id[c] = id
    BY DEF BookOK, BookTypeOK, Order
  <2> QED BY <2>1, AcceptedStays
<1>3. ASSUME NEW i \in DOMAIN trades
      PROVE  LET c == trades[i].client_order_id
             IN c \in Accepted' /\ pc'[c] = "done" /\ broker_order_id'[c] = trades[i].broker_order_id
  <2> DEFINE c == trades[i].client_order_id
  <2>1. trades[i] \in Trade
    BY DEF BookTypeOK
  <2>2. c \in Calls /\ c \in Accepted /\ pc[c] = "done" /\ broker_order_id[c] = trades[i].broker_order_id
    BY <2>1 DEF BookOK, Trade
  <2> QED BY <2>2, AcceptedStays
<1>4. BookOK'
  BY <1>1, <1>2, <1>3 DEF BookOK
<1>5. ASSUME NEW c \in Calls, c \in Accepted'
      PROVE  /\ broker_order_id'[c] \in DOMAIN orders'
             /\ orders'[broker_order_id'[c]].client_order_id = c
  <2>1. c \in Accepted
    BY <1>5, NamedBefore
  <2> QED BY <1>1, <2>1, AcceptedStays DEF AcceptedOrderKeepsSnapshot
<1>6. AcceptedOrderKeepsSnapshot'
  BY <1>5, SetsOfCalls DEF AcceptedOrderKeepsSnapshot
<1>7. SnapshotAgreesWithTrades'
  BY <1>1, <1>2 DEF SnapshotAgreesWithTrades, TradedIds
<1> QED BY <1>4, <1>6, <1>7

\* A new order gets a place of its own in the book.
LEMMA InsertIsNew ==
  ASSUME TypeOK, IdsOK, BookInv, NEW c \in Calls, SendInsert(c)
  PROVE  broker_order_id[c] \notin DOMAIN orders
<1>1. c \notin Accepted /\ c \in Named
  BY DEF SendInsert, Goto, Accepted, Open, Named
<1>2. \A d \in Calls : d \in Accepted => broker_order_id[d] # broker_order_id[c]
  BY <1>1 DEF IdsOK, Named
<1> QED BY <1>2, BookIsAboutCalls DEF BookOK, BookInv, TypeOK

LEMMA BookInsert ==
  ASSUME TypeOK, IdsOK, BookInv, [Next]_vars, NEW c \in Calls, SendInsert(c)
  PROVE  BookInv'
<1> USE DEF TypeOK, BookInv
<1> DEFINE id == broker_order_id[c]
<1>1. /\ pc[c] = "send_insert" /\ pc' = [pc EXCEPT ![c] = "send_report"]
      /\ request' = request /\ broker_order_id' = broker_order_id /\ trades' = trades
      /\ request[c] \in Requests /\ c \notin Accepted /\ c \in Named
  BY DEF SendInsert, Goto, locals, CallsTypeOK, SendPlaces, Accepted, Open, Named
<1>2. /\ DOMAIN orders' = DOMAIN orders \cup {id}
      /\ orders'[id] = NewOrder(c)
      /\ \A i \in DOMAIN orders : i # id => orders'[i] = orders[i]
  BY DEF SendInsert, Put
<1>3. \A d \in Calls : d \in Accepted => d # c /\ broker_order_id[d] # id
  BY <1>1 DEF IdsOK, Named
<1>4. id \notin DOMAIN orders
  BY <1>3, BookIsAboutCalls DEF BookOK
<1>5. id \notin TradedIds
  <2> SUFFICES ASSUME NEW i \in DOMAIN trades, trades[i].broker_order_id = id PROVE FALSE
    BY DEF TradedIds
  <2> DEFINE d == trades[i].client_order_id
  <2>1. d \in Accepted /\ d \in Calls /\ broker_order_id[d] = id
    BY BookIsAboutCalls DEF BookOK
  <2> QED BY <1>3, <2>1
<1>6. c \in Accepted'
  BY <1>1 DEF Accepted, Open, CallsTypeOK
<1>7. \A d \in Calls : d \in Accepted => d \in Accepted' /\ pc'[d] = pc[d]
  BY <1>1, <1>3, NamedBefore DEF CallsTypeOK
<1>8. ASSUME NEW i \in DOMAIN orders'
      PROVE  LET d == orders'[i].client_order_id IN d \in Accepted' /\ broker_order_id'[d] = i
  <2>1. CASE i = id
    BY <1>1, <1>2, <1>6, <2>1 DEF NewOrder
  <2>2. CASE i # id
    BY <1>1, <1>2, <1>7, <2>2 DEF BookOK, BookTypeOK, Order
  <2> QED BY <2>1, <2>2
<1>9. ASSUME NEW i \in DOMAIN trades'
      PROVE  LET d == trades'[i].client_order_id
             IN d \in Accepted' /\ pc'[d] = "done" /\ broker_order_id'[d] = trades'[i].broker_order_id
  <2>1. trades[i] \in Trade
    BY <1>1 DEF BookTypeOK
  <2> QED BY <1>1, <1>7, <2>1 DEF BookOK, Trade
<1>10. BookOK'
  BY <1>8, <1>9 DEF BookOK
<1>11. ASSUME NEW d \in Calls, d \in Accepted'
       PROVE  /\ broker_order_id'[d] \in DOMAIN orders'
              /\ orders'[broker_order_id'[d]].client_order_id = d
  <2>1. CASE d = c
    BY <1>1, <1>2, <2>1 DEF NewOrder
  <2>2. CASE d # c
    <3>1. d \in Accepted
      BY <1>1, <1>11, <2>2 DEF Accepted, CallsTypeOK, SendInsert, Goto
    <3> QED BY <1>1, <1>2, <1>3, <3>1 DEF AcceptedOrderKeepsSnapshot
  <2> QED BY <2>1, <2>2
<1>12. AcceptedOrderKeepsSnapshot'
  BY <1>11, SetsOfCalls DEF AcceptedOrderKeepsSnapshot
<1>13. \A i : i \in TradedIds' <=> i \in TradedIds
  BY <1>1 DEF TradedIds
<1>14. ASSUME NEW i \in DOMAIN orders'
       PROVE  LET order  == orders'[i]
                  volume == request'[order.client_order_id].volume
              IN IF i \in TradedIds
                   THEN order.status = "kFilled" /\ order.traded_volume = volume /\ order.left_volume = 0
                   ELSE order.status # "kFilled" /\ order.traded_volume = 0 /\ order.left_volume = volume
  <2>1. CASE i = id
    BY <1>1, <1>2, <1>5, <2>1 DEF NewOrder
  <2>2. CASE i # id
    BY <1>1, <1>2, <2>2 DEF SnapshotAgreesWithTrades
  <2> QED BY <2>1, <2>2
<1>15. SnapshotAgreesWithTrades'
  BY <1>1, <1>14 DEF SnapshotAgreesWithTrades, TradedIds
<1> QED BY <1>10, <1>12, <1>15

\* A cancel only touches an order that has no trade, and leaves its volumes alone.
LEMMA BookCancel ==
  ASSUME TypeOK, BookInv, [Next]_vars, NEW c \in Calls, CancelApply(c)
  PROVE  BookInv'
<1> USE DEF TypeOK, BookInv
<1> DEFINE id == broker_order_id[c]
<1>1. /\ request' = request /\ broker_order_id' = broker_order_id /\ trades' = trades
      /\ id \in DOMAIN orders /\ orders[id].status \notin FinalStatus
  BY DEF CancelApply, locals
<1>2. /\ DOMAIN orders' = DOMAIN orders
      /\ orders'[id] = Canceled(orders[id])
      /\ \A i \in DOMAIN orders : i # id => orders'[i] = orders[i]
  BY DEF CancelApply
<1>3. /\ orders[id] \in Order /\ orders'[id].status = "kCanceled"
      /\ orders'[id].client_order_id = orders[id].client_order_id
      /\ orders'[id].traded_volume = orders[id].traded_volume
      /\ orders'[id].left_volume = orders[id].left_volume
  BY <1>1, <1>2 DEF Canceled, BookTypeOK, Order
<1>4. \A i \in DOMAIN orders : orders'[i].client_order_id = orders[i].client_order_id
  BY <1>2, <1>3
<1>5. ASSUME NEW d \in Calls
      PROVE  /\ d \in Accepted' <=> d \in Accepted
             /\ pc[d] = "done" => pc'[d] = "done"
  BY DEF CancelApply, Goto, Accepted, Open, CallsTypeOK, locals
<1>6. \A i \in DOMAIN orders : orders[i].client_order_id \in Calls
  BY BookIsAboutCalls
<1>7. \A i \in DOMAIN trades : trades[i].client_order_id \in Calls
  BY BookIsAboutCalls
<1>8. ASSUME NEW i \in DOMAIN orders'
      PROVE  LET d == orders'[i].client_order_id IN d \in Accepted' /\ broker_order_id[d] = i
  BY <1>1, <1>2, <1>4, <1>5, <1>6 DEF BookOK
<1>9. ASSUME NEW i \in DOMAIN trades
      PROVE  LET d == trades[i].client_order_id
             IN d \in Accepted' /\ pc'[d] = "done" /\ broker_order_id[d] = trades[i].broker_order_id
  BY <1>5, <1>7 DEF BookOK
<1>10. BookOK'
  BY <1>1, <1>8, <1>9 DEF BookOK
<1>11. AcceptedOrderKeepsSnapshot'
  BY <1>1, <1>2, <1>4, <1>5, SetsOfCalls DEF AcceptedOrderKeepsSnapshot
<1>12. id \notin TradedIds
  BY <1>1 DEF SnapshotAgreesWithTrades, FinalStatus
<1>13. ASSUME NEW i \in DOMAIN orders'
       PROVE  LET order  == orders'[i]
                  volume == request[order.client_order_id].volume
              IN IF i \in TradedIds
                   THEN order.status = "kFilled" /\ order.traded_volume = volume /\ order.left_volume = 0
                   ELSE order.status # "kFilled" /\ order.traded_volume = 0 /\ order.left_volume = volume
  <2>1. CASE i = id
    BY <1>1, <1>3, <1>12, <2>1 DEF SnapshotAgreesWithTrades
  <2>2. CASE i # id
    BY <1>1, <1>2, <2>2 DEF SnapshotAgreesWithTrades
  <2> QED BY <2>1, <2>2
<1>14. SnapshotAgreesWithTrades'
  BY <1>1, <1>13 DEF SnapshotAgreesWithTrades, TradedIds
<1> QED BY <1>10, <1>11, <1>14

\* A fill stores the first trade of its order, and fills the snapshot of that order.
LEMMA BookStore ==
  ASSUME TypeOK, IdsOK, BookInv, [Next]_vars, NEW c \in Calls, SendStore(c)
  PROVE  BookInv'
<1> USE DEF TypeOK, BookInv
<1> DEFINE id == broker_order_id[c]
           trade == TradeOf(c)
           last == Len(trades) + 1
<1>1. /\ pc[c] = "send_store" /\ pc' = [pc EXCEPT ![c] = "done"]
      /\ result' = [result EXCEPT ![c] = "kSuccess"]
      /\ request' = request /\ broker_order_id' = broker_order_id
      /\ c \in Accepted /\ id \in DOMAIN orders
  <2>1. Return(c, "send_store", "kSuccess") /\ UNCHANGED locals /\ id \in DOMAIN orders
    BY DEF SendStore
  <2>2. /\ pc[c] = "send_store" /\ pc' = [pc EXCEPT ![c] = "done"]
        /\ result' = [result EXCEPT ![c] = "kSuccess"]
    BY <2>1 DEF Return
  <2> QED BY <2>1, <2>2 DEF locals, Accepted, Open
<1>2. /\ DOMAIN orders' = DOMAIN orders
      /\ orders'[id] = Filled(orders[id])
      /\ \A i \in DOMAIN orders : i # id => orders'[i] = orders[i]
  BY <1>1 DEF SendStore
<1>3. /\ orders[id] \in Order /\ orders[id].client_order_id = c
      /\ orders'[id].client_order_id = c /\ orders'[id].status = "kFilled"
      /\ orders'[id].traded_volume = request[c].volume /\ orders'[id].left_volume = 0
  BY <1>1, <1>2 DEF Filled, AcceptedOrderKeepsSnapshot, BookTypeOK, Order
<1>4. /\ DOMAIN trades' = DOMAIN trades \cup {last} /\ last \notin DOMAIN trades
      /\ trades'[last].broker_order_id = id /\ trades'[last].client_order_id = c
      /\ \A i \in DOMAIN trades : trades'[i] = trades[i]
  <2>1. trades' = Append(trades, trade) /\ trades \in Seq(Trade)
    BY DEF SendStore, BookTypeOK
  <2>2. /\ DOMAIN trades' = DOMAIN trades \cup {last} /\ last \notin DOMAIN trades
        /\ trades'[last] = trade /\ \A i \in DOMAIN trades : trades'[i] = trades[i]
    BY <2>1
  <2> QED BY <2>2 DEF TradeOf
<1>5. ASSUME NEW d \in Calls
      PROVE  /\ d \in Accepted' <=> d \in Accepted
             /\ pc[d] = "done" => pc'[d] = "done"
  <2>1. d \in Accepted => d \in Accepted'
    BY NamedBefore
  <2>2. d \in Accepted' => d \in Accepted
    BY <1>1 DEF Accepted, Open, CallsTypeOK
  <2>3. pc[d] = "done" => pc'[d] = "done"
    BY <1>1 DEF CallsTypeOK
  <2> QED BY <2>1, <2>2, <2>3
<1>6. pc'[c] = "done"
  BY <1>1 DEF CallsTypeOK
<1>7. \A i \in DOMAIN orders : orders[i].client_order_id \in Calls
  BY BookIsAboutCalls
<1>8. \A i \in DOMAIN trades : trades[i].client_order_id \in Calls
  BY BookIsAboutCalls
<1>9. id \notin TradedIds
  <2> SUFFICES ASSUME NEW i \in DOMAIN trades, trades[i].broker_order_id = id PROVE FALSE
    BY DEF TradedIds
  <2> DEFINE d == trades[i].client_order_id
  <2>1. d \in Calls /\ d \in Accepted /\ pc[d] = "done" /\ broker_order_id[d] = id
    BY <1>8 DEF BookOK
  <2>2. d = c
    BY <1>1, <2>1 DEF IdsOK, Named
  <2> QED BY <1>1, <2>1, <2>2
<1>10. \A i \in DOMAIN orders' :
         LET d == orders'[i].client_order_id IN d \in Accepted' /\ broker_order_id[d] = i
  BY <1>1, <1>2, <1>3, <1>5, <1>7 DEF BookOK
<1>11. \A i \in DOMAIN trades' :
         LET d == trades'[i].client_order_id
         IN d \in Accepted' /\ pc'[d] = "done" /\ broker_order_id[d] = trades'[i].broker_order_id
  BY <1>1, <1>4, <1>5, <1>6, <1>8 DEF BookOK
<1>12. BookOK'
  BY <1>1, <1>10, <1>11 DEF BookOK
<1>13. AcceptedOrderKeepsSnapshot'
  BY <1>1, <1>2, <1>3, <1>5, SetsOfCalls DEF AcceptedOrderKeepsSnapshot
<1>14. \A i : i \in TradedIds' <=> i \in TradedIds \/ i = id
  BY <1>4 DEF TradedIds
<1>15. ASSUME NEW i \in DOMAIN orders'
       PROVE  LET order  == orders'[i]
                  volume == request[order.client_order_id].volume
              IN IF i \in TradedIds \/ i = id
                   THEN order.status = "kFilled" /\ order.traded_volume = volume /\ order.left_volume = 0
                   ELSE order.status # "kFilled" /\ order.traded_volume = 0 /\ order.left_volume = volume
  <2>1. CASE i = id
    BY <1>3, <2>1
  <2>2. CASE i # id
    BY <1>2, <2>2 DEF SnapshotAgreesWithTrades
  <2> QED BY <2>1, <2>2
<1>16. \A i, j \in DOMAIN trades' :
         trades'[i].broker_order_id = trades'[j].broker_order_id => i = j
  BY <1>4, <1>9 DEF SnapshotAgreesWithTrades, TradedIds
<1>17. SnapshotAgreesWithTrades'
  BY <1>1, <1>14, <1>15, <1>16 DEF SnapshotAgreesWithTrades
<1> QED BY <1>12, <1>13, <1>17

\* The book is right in every state.
LEMMA BookCorrect == ASSUME OneSender, GeneratedIds PROVE Spec => []BookInv
<1>1. Init => BookInv
  BY DEF Init, BookInv, BookOK, AcceptedOrderKeepsSnapshot, SnapshotAgreesWithTrades,
     Accepted, Open
<1>2. TypeOK /\ IdsOK /\ BookInv /\ [Next]_vars => BookInv'
  BY BookUnchanged, BookInsert, BookStore, BookCancel
<1> QED BY <1>1, <1>2, TypeCorrect, IdsCorrect, PTL DEF Spec

-----------------------------------------------------------------------------
(* Theorems *)

\* With one sending thread and generated ids, every order that SendOrder accepted
\* keeps a snapshot of its own, for any number of threads that cancel, of nested
\* calls and of reconnections.
THEOREM OneSnapshotPerOrder ==
  ASSUME OneSender, GeneratedIds PROVE Spec => []AcceptedOrderKeepsSnapshot
<1>1. BookInv => AcceptedOrderKeepsSnapshot
  BY DEF BookInv
<1> QED BY <1>1, BookCorrect, PTL

\* ... and the snapshot says kFilled, with its volumes, exactly when trades_ has the
\* one trade of the order.
THEOREM BookAgrees ==
  ASSUME OneSender, GeneratedIds PROVE Spec => []SnapshotAgreesWithTrades
<1>1. BookInv => SnapshotAgreesWithTrades
  BY DEF BookInv
<1> QED BY <1>1, BookCorrect, PTL
-----------------------------------------------------------------------------
(* The order of reports *)

\* The orders whose call has reported them as queued, if there is an on_order_.
PastReport == {broker_order_id[c] : c \in {d \in Accepted : pc[d] # "send_report"}}

\* Call x has begun, and cancels an order that another thread's call sent.
Foreign(x, id) ==
  /\ pc[x] # "new"
  /\ \E c \in Accepted : broker_order_id[c] = id /\ thread[c] # thread[x]

\* What was reported of an order, and a cancel that is about to be, come after the
\* place where the order is reported as queued, unless another thread canceled it.
RightReport(r) ==
  /\ pc[r.call] # "new"
  /\ r.event = "queued" => r.call \in Accepted /\ broker_order_id[r.call] = r.broker_order_id
  /\ \/ r.broker_order_id \in PastReport
     \/ r.event = "canceled" /\ Foreign(r.call, r.broker_order_id)

ReportedOK == \A i \in DOMAIN reports : RightReport(reports[i])

CancelingOK ==
  \A c \in Calls : pc[c] = "cancel_report" =>
    broker_order_id[c] \in PastReport \/ Foreign(c, broker_order_id[c])

ReportsOK == ReportedOK /\ CancelingOK

\* A call that has begun stays with its thread.
LEMMA ThreadsStay ==
  ASSUME CallsTypeOK, [Next]_vars, NEW c \in Calls, pc[c] # "new"
  PROVE  thread'[c] = thread[c] /\ pc'[c] # "new"
<1> USE DEF CallsTypeOK
<1>1. ASSUME NEW d \in Calls, Step(d) PROVE thread' = thread /\ pc'[c] # "new"
  BY <1>1 DEF Step, SendStep, SendId, SendBump, SendLock, SendInsert, SendReport,
     OnOrderReturns, SendWithoutFill, SendFill, SendTrade, SendLockFill, SendStore,
     CancelStep, CancelLock, CancelRefuse, CancelApply, CancelReport, CancelReturn,
     Goto, Return, stacks
<1>2. CASE Manage
  BY <1>2, ControlsKeepCalls DEF callVars, stacks
<1>3. CASE UNCHANGED vars
  BY <1>3 DEF vars, stacks
<1>4. ASSUME NEW t \in Threads, NEW d \in Calls, NEW at, Begin(t, d, at),
             at \in {"send_id", "cancel_lock"}
      PROVE  thread'[c] = thread[c] /\ pc'[c] # "new"
  BY <1>4 DEF Begin
<1> QED BY <1>1, <1>2, <1>3, <1>4 DEF Next, Finished, SendOrder, CancelOrder

\* A call never gets back to the place where it reports its order as queued.
LEMMA ReportOnce ==
  ASSUME CallsTypeOK, [Next]_vars, NEW c \in Calls, pc[c] \in Open \cup {"done"}
  PROVE  pc[c] # "send_report" => pc'[c] # "send_report"
<1> USE DEF CallsTypeOK, Open
<1>1. ASSUME NEW d \in Calls, Step(d), pc[c] # "send_report" PROVE pc'[c] # "send_report"
  <2>1. CASE SendInsert(d)
    BY <1>1, <2>1 DEF SendInsert, Goto
  <2> QED BY <1>1, <2>1 DEF Step, SendStep, SendId, SendBump, SendLock, SendReport,
     OnOrderReturns, SendWithoutFill, SendFill, SendTrade, SendLockFill, SendStore,
     CancelStep, CancelLock, CancelRefuse, CancelApply, CancelReport, CancelReturn,
     Goto, Return
<1>2. CASE Manage
  BY <1>2, ControlsKeepCalls DEF callVars
<1>3. CASE UNCHANGED vars
  BY <1>3 DEF vars
<1> QED BY <1>1, <1>2, <1>3 DEF Next, Finished, SendOrder, CancelOrder, Begin

\* An order that was reported stays reported.
LEMMA PastStays ==
  ASSUME CallsTypeOK, [Next]_vars, NEW id, id \in PastReport PROVE id \in PastReport'
<1>1. PICK c \in Accepted : broker_order_id[c] = id /\ pc[c] # "send_report"
  BY DEF PastReport
<1>2. c \in Calls /\ pc[c] \in Open \cup {"done"}
  BY <1>1 DEF Accepted
<1>3. c \in Accepted' /\ broker_order_id'[c] = id
  BY <1>1, <1>2, AcceptedStays
<1>4. pc'[c] # "send_report"
  BY <1>1, <1>2, ReportOnce
<1> QED BY <1>3, <1>4 DEF PastReport

\* A cancel of another thread's order stays one.
LEMMA ForeignStays ==
  ASSUME CallsTypeOK, [Next]_vars, NEW x \in Calls, NEW id, Foreign(x, id)
  PROVE  Foreign(x, id)'
<1>1. PICK c \in Accepted : broker_order_id[c] = id /\ thread[c] # thread[x]
  BY DEF Foreign
<1>2. c \in Calls /\ pc[c] # "new" /\ pc[x] # "new"
  BY <1>1 DEF Foreign, Accepted, Open
<1>3. c \in Accepted' /\ broker_order_id'[c] = id
  BY <1>1, <1>2, AcceptedStays
<1>4. thread'[c] = thread[c] /\ thread'[x] = thread[x] /\ pc'[x] # "new"
  BY <1>2, ThreadsStay
<1> QED BY <1>1, <1>3, <1>4 DEF Foreign

\* A cancel that finds an order still unreported is made by another thread.
LEMMA CancelsComeLater ==
  ASSUME TypeOK, StacksOK, BookOK, NEW d \in Calls, CancelApply(d)
  PROVE  broker_order_id[d] \in PastReport \/ Foreign(d, broker_order_id[d])
<1> DEFINE id == broker_order_id[d]
           c  == orders[id].client_order_id
<1>1. id \in DOMAIN orders /\ pc[d] = "cancel_find" /\ top[thread[d]] = d
  BY DEF CancelApply, Goto, Running
<1>2. c \in Accepted /\ broker_order_id[c] = id /\ c \in Calls
  BY <1>1, SetsOfCalls DEF BookOK
<1>3. ASSUME pc[c] = "send_report" PROVE thread[c] # thread[d]
  <2>1. Active(c) /\ pc[c] \notin InCallback /\ c # d
    BY <1>1, <1>3 DEF Active, InCallback
  <2>2. top[thread[c]] = c
    BY <1>2, <2>1 DEF StacksOK
  <2> QED BY <1>1, <2>1, <2>2
<1> QED BY <1>1, <1>2, <1>3 DEF PastReport, Foreign

\* A report that was right stays so, and its call stays with its thread.
LEMMA ReportStays ==
  ASSUME CallsTypeOK, [Next]_vars, NEW r \in Report, RightReport(r)
  PROVE  RightReport(r)' /\ thread'[r.call] = thread[r.call]
<1>1. r.call \in Calls /\ pc[r.call] # "new"
  BY DEF RightReport, Report
<1>2. pc'[r.call] # "new" /\ thread'[r.call] = thread[r.call]
  BY <1>1, ThreadsStay
<1>3. r.event = "queued" => r.call \in Accepted' /\ broker_order_id'[r.call] = r.broker_order_id
  BY <1>1, AcceptedStays DEF RightReport
<1>4. r.broker_order_id \in PastReport => r.broker_order_id \in PastReport'
  BY PastStays
<1>5. Foreign(r.call, r.broker_order_id) => Foreign(r.call, r.broker_order_id)'
  BY <1>1, ForeignStays
<1> QED BY <1>2, <1>3, <1>4, <1>5 DEF RightReport

\* A step adds at most one report, at the end, of its own call.
LEMMA ReportsGrow ==
  ASSUME TypeOK, [Next]_vars
  PROVE  \/ reports' = reports
         \/ \E c \in Calls, r \in Report :
              /\ reports' = Append(reports, r)
              /\ r.broker_order_id = broker_order_id[c] /\ r.call = c
              /\ \/ SendReport(c) /\ on_order /\ r.event = "queued"
                 \/ SendTrade(c) /\ r.event = "traded"
                 \/ CancelReport(c) /\ r.event = "canceled"
<1>1. ASSUME NEW event \in {"queued", "traded", "canceled"}, NEW c \in Calls
      PROVE  \E r \in Report : /\ Reported(event, c) = Append(reports, r) /\ r.event = event
                               /\ r.broker_order_id = broker_order_id[c] /\ r.call = c
  <2> DEFINE r == [event |-> event, broker_order_id |-> broker_order_id[c], call |-> c]
  <2>1. /\ r \in Report /\ Reported(event, c) = Append(reports, r) /\ r.event = event
        /\ r.broker_order_id = broker_order_id[c] /\ r.call = c
    BY DEF Reported, Report, TypeOK, CallsTypeOK
  <2> QED BY <2>1
<1> QED BY <1>1, ReportsMove

\* What the report adds: the reports there were, and the new one at the end.
LEMMA ReportAdded ==
  ASSUME TypeOK, NEW r \in Report, reports' = Append(reports, r)
  PROVE  \E n \in Nat :
           /\ DOMAIN reports' = DOMAIN reports \cup {n} /\ reports'[n] = r
           /\ \A i \in DOMAIN reports : ~ (n < i) /\ reports'[i] = reports[i]
<1>1. PICK n \in Nat : n = Len(reports) + 1
  BY DEF TypeOK, BookTypeOK
<1>2. /\ DOMAIN reports' = DOMAIN reports \cup {n} /\ reports'[n] = r
      /\ \A i \in DOMAIN reports : ~ (n < i) /\ reports'[i] = reports[i]
  BY <1>1 DEF TypeOK, BookTypeOK
<1> QED BY <1>2

\* The reports there were stay right.
LEMMA ReportsStay ==
  ASSUME TypeOK, ReportedOK, [Next]_vars, NEW i \in DOMAIN reports, reports'[i] = reports[i]
  PROVE  RightReport(reports[i])' /\ thread'[reports[i].call] = thread[reports[i].call]
<1>1. PICK r \in Report : r = reports[i]
  BY DEF TypeOK, BookTypeOK
<1>2. RightReport(r)' /\ thread'[r.call] = thread[r.call]
  BY <1>1, ReportStays DEF ReportedOK, TypeOK
<1> QED BY <1>1, <1>2 DEF RightReport, Foreign

\* Every report is of an order past the place that reports it as queued.
LEMMA ReportsKept ==
  ASSUME TypeOK, ReportsOK, [Next]_vars
  PROVE  ReportedOK'
<1> USE DEF ReportsOK
<1>1. ASSUME reports' = reports PROVE ReportedOK'
  BY <1>1, ReportsStay DEF ReportedOK
<1>2. ASSUME NEW r \in Report, reports' = Append(reports, r), RightReport(r)' PROVE ReportedOK'
  <2>1. PICK n \in Nat : /\ DOMAIN reports' = DOMAIN reports \cup {n} /\ reports'[n] = r
                         /\ \A i \in DOMAIN reports : reports'[i] = reports[i]
    BY <1>2, ReportAdded
  <2>2. RightReport(reports[n])'
    BY <1>2, <2>1 DEF RightReport, Foreign
  <2>3. \A i \in DOMAIN reports : RightReport(reports[i])'
    BY <2>1, ReportsStay
  <2> QED BY <2>1, <2>2, <2>3 DEF ReportedOK
<1>3. ASSUME NEW c \in Calls, NEW r \in Report, r.broker_order_id = broker_order_id[c], r.call = c,
             SendReport(c), on_order
      PROVE  RightReport(r)'
  <2>1. pc'[c] = "on_order" /\ broker_order_id' = broker_order_id /\ c \in Accepted'
    BY <1>3 DEF SendReport, Goto, TypeOK, CallsTypeOK, locals, Accepted, Open
  <2>2. broker_order_id[c] \in PastReport'
    BY <2>1 DEF PastReport
  <2> QED BY <1>3, <2>1, <2>2 DEF RightReport
<1>4. ASSUME NEW c \in Calls, NEW r \in Report, r.broker_order_id = broker_order_id[c], r.call = c,
             SendTrade(c)
      PROVE  RightReport(r)'
  <2>1. pc'[c] = "on_trade" /\ broker_order_id' = broker_order_id /\ c \in Accepted'
    BY <1>4 DEF SendTrade, Goto, TypeOK, CallsTypeOK, locals, Accepted, Open
  <2>2. broker_order_id[c] \in PastReport'
    BY <2>1 DEF PastReport
  <2> QED BY <1>4, <2>1, <2>2 DEF RightReport
<1>5. ASSUME NEW c \in Calls, NEW r \in Report, r.broker_order_id = broker_order_id[c], r.call = c,
             CancelReport(c), r.event = "canceled"
      PROVE  RightReport(r)'
  <2>1. pc[c] = "cancel_report" /\ pc'[c] = "on_cancel"
    BY <1>5 DEF CancelReport, Goto, TypeOK, CallsTypeOK
  <2>2. r.broker_order_id \in PastReport \/ Foreign(c, r.broker_order_id)
    BY <1>5, <2>1 DEF CancelingOK
  <2>3. r.broker_order_id \in PastReport' \/ Foreign(c, r.broker_order_id)'
    BY <2>2, PastStays, ForeignStays DEF TypeOK
  <2> QED BY <1>5, <2>1, <2>3 DEF RightReport
<1> QED BY <1>1, <1>2, <1>3, <1>4, <1>5, ReportsGrow

\* A cancel that is about to be reported was so, or has just been applied.
LEMMA CancelReportBefore ==
  ASSUME TypeOK, [Next]_vars, NEW c \in Calls, pc'[c] = "cancel_report"
  PROVE  pc[c] = "cancel_report" \/ CancelApply(c)
<1> SUFFICES ASSUME ~ CancelApply(c) PROVE pc[c] = "cancel_report"
  OBVIOUS
<1> USE DEF TypeOK, CallsTypeOK
<1>1. ASSUME NEW d \in Calls, SendStep(d) PROVE pc[c] = "cancel_report"
  <2>1. CASE SendId(d) \/ SendBump(d) \/ SendLock(d) \/ SendInsert(d)
    BY <2>1 DEF SendId, SendBump, SendLock, SendInsert, Goto
  <2>2. CASE \/ SendReport(d) \/ OnOrderReturns(d) \/ SendWithoutFill(d) \/ SendFill(d)
             \/ SendTrade(d) \/ SendLockFill(d) \/ SendStore(d)
    BY <2>2 DEF SendReport, OnOrderReturns, SendWithoutFill, SendFill, SendTrade,
       SendLockFill, SendStore, Goto, Return
  <2> QED BY <1>1, <2>1, <2>2 DEF SendStep
<1>2. ASSUME NEW d \in Calls, CancelStep(d) PROVE pc[c] = "cancel_report"
  <2>1. CASE CancelApply(d)
    BY <2>1 DEF CancelApply, Goto
  <2> QED BY <1>2, <2>1 DEF CancelStep, CancelLock, CancelRefuse, CancelReport, CancelReturn,
          Goto, Return
<1>3. CASE Manage
  BY <1>3, ControlsKeepCalls DEF callVars
<1>4. CASE UNCHANGED vars
  BY <1>4 DEF vars
<1> QED BY <1>1, <1>2, <1>3, <1>4 DEF Next, Step, Finished, SendOrder, CancelOrder, Begin

\* So is every cancel that is about to be reported.
LEMMA CancelsKept ==
  ASSUME TypeOK, StacksOK, BookOK, ReportsOK, [Next]_vars
  PROVE  CancelingOK'
<1> SUFFICES ASSUME NEW c \in Calls, pc'[c] = "cancel_report"
             PROVE  broker_order_id'[c] \in PastReport' \/ Foreign(c, broker_order_id[c])'
  BY DEF CancelingOK
<1>1. broker_order_id[c] \in PastReport \/ Foreign(c, broker_order_id[c])
  BY CancelReportBefore, CancelsComeLater DEF ReportsOK, CancelingOK
<1>2. PICK id : id = broker_order_id[c] /\ id = broker_order_id'[c]
  <2>1. pc[c] \notin {"new", "send_id"}
    BY CancelReportBefore DEF CancelApply, Goto
  <2> QED BY <2>1, IdsStay DEF TypeOK
<1>3. id \in PastReport' \/ Foreign(c, id)'
  BY <1>1, <1>2, PastStays, ForeignStays DEF TypeOK
<1> QED BY <1>2, <1>3 DEF Foreign

\* An order is reported as queued when nothing but a cancel of another thread has
\* been reported of it.
LEMMA QueuedKept ==
  ASSUME TypeOK, IdsOK, ReportsOK, QueuedComesFirst, [Next]_vars
  PROVE  QueuedComesFirst'
<1> USE DEF ReportsOK
<1>1. ASSUME NEW i \in DOMAIN reports, NEW j \in DOMAIN reports, i < j,
             reports'[i] = reports[i], reports'[j] = reports[j],
             reports[i].broker_order_id = reports[j].broker_order_id,
             reports[j].event = "queued"
      PROVE  /\ reports[i].event = "canceled"
             /\ thread'[reports[i].call] # thread'[reports[j].call]
  BY <1>1, ReportsStay DEF QueuedComesFirst
<1>2. CASE reports' = reports
  BY <1>1, <1>2 DEF QueuedComesFirst
<1>3. ASSUME NEW r \in Report, reports' = Append(reports, r), r.event # "queued"
      PROVE  QueuedComesFirst'
  <2>1. PICK n \in Nat : /\ DOMAIN reports' = DOMAIN reports \cup {n}
                         /\ \A i \in DOMAIN reports : ~ (n < i) /\ reports'[i] = reports[i]
                         /\ reports'[n].event # "queued"
    BY <1>3, ReportAdded
  <2>2. ~ (n < n)
    OBVIOUS
  <2> SUFFICES ASSUME NEW i \in DOMAIN reports', NEW j \in DOMAIN reports', i < j,
                      reports'[i].broker_order_id = reports'[j].broker_order_id,
                      reports'[j].event = "queued"
               PROVE  /\ reports'[i].event = "canceled"
                      /\ thread'[reports'[i].call] # thread'[reports'[j].call]
    BY DEF QueuedComesFirst
  <2>3. i \in DOMAIN reports /\ j \in DOMAIN reports
    BY <2>1, <2>2
  <2> QED BY <1>1, <2>1, <2>3
<1>4. ASSUME NEW c \in Calls, SendReport(c), NEW r \in Report, reports' = Append(reports, r),
             r.broker_order_id = broker_order_id[c], r.call = c
      PROVE  QueuedComesFirst'
  <2> DEFINE id == broker_order_id[c]
  <2>1. PICK n \in Nat : /\ DOMAIN reports' = DOMAIN reports \cup {n}
                         /\ \A i \in DOMAIN reports : ~ (n < i) /\ reports'[i] = reports[i]
                         /\ reports'[n].broker_order_id = id /\ reports'[n].call = c
    BY <1>4, ReportAdded
  <2>2. ~ (n < n)
    OBVIOUS
  <2>3. c \in Accepted /\ pc[c] = "send_report" /\ pc[c] # "new"
    BY <1>4 DEF SendReport, Goto, Accepted, Open
  <2>4. \A d \in Accepted : broker_order_id[d] = id => d = c
    BY <2>3, SetsOfCalls DEF IdsOK, Named
  <2>5. ASSUME NEW i \in DOMAIN reports, reports[i].broker_order_id = id
        PROVE  /\ reports[i].event = "canceled"
               /\ thread'[reports[i].call] # thread'[c]
    <3>1. id \notin PastReport
      BY <2>3, <2>4 DEF PastReport
    <3>2. reports[i].event = "canceled" /\ Foreign(reports[i].call, id)
      BY <2>5, <3>1 DEF ReportedOK, RightReport
    <3>3. thread[reports[i].call] # thread[c]
      BY <2>4, <3>2 DEF Foreign
    <3>4. thread'[c] = thread[c] /\ thread'[reports[i].call] = thread[reports[i].call]
      BY <1>4, <2>1, <2>3, ThreadsStay, ReportsStay DEF TypeOK
    <3> QED BY <3>2, <3>3, <3>4
  <2> SUFFICES ASSUME NEW i \in DOMAIN reports', NEW j \in DOMAIN reports', i < j,
                      reports'[i].broker_order_id = reports'[j].broker_order_id,
                      reports'[j].event = "queued"
               PROVE  /\ reports'[i].event = "canceled"
                      /\ thread'[reports'[i].call] # thread'[reports'[j].call]
    BY DEF QueuedComesFirst
  <2>6. i \in DOMAIN reports
    BY <2>1, <2>2
  <2>7. CASE j \in DOMAIN reports
    BY <1>1, <2>1, <2>6, <2>7
  <2>8. CASE j = n
    BY <2>1, <2>5, <2>6, <2>8
  <2> QED BY <2>1, <2>7, <2>8
<1> QED BY <1>2, <1>3, <1>4, ReportsGrow

\* With one sending thread and generated ids, an order is reported as queued once,
\* before its trade, and before every cancel of the thread that sends it.
THEOREM QueuedIsFirst == ASSUME OneSender, GeneratedIds PROVE Spec => []QueuedComesFirst
<1> DEFINE Ordered == ReportsOK /\ QueuedComesFirst
<1>1. Init => Ordered
  BY DEF Init, ReportsOK, ReportedOK, CancelingOK, QueuedComesFirst
<1>2. TypeOK /\ StacksOK /\ IdsOK /\ BookInv /\ Ordered /\ [Next]_vars => Ordered'
  <2> SUFFICES ASSUME TypeOK, StacksOK, IdsOK, BookInv, Ordered, [Next]_vars PROVE Ordered'
    OBVIOUS
  <2>1. ReportsOK'
    BY ReportsKept, CancelsKept DEF ReportsOK, BookInv
  <2>2. QueuedComesFirst'
    BY QueuedKept
  <2> QED BY <2>1, <2>2
<1>3. Ordered => QueuedComesFirst
  OBVIOUS
<1> HIDE DEF Ordered
<1> QED BY <1>1, <1>2, <1>3, TypeCorrect, StacksCorrect, IdsCorrect, BookCorrect, PTL DEF Spec

-----------------------------------------------------------------------------
(* What the reports say of the snapshot *)

\* The order is canceled, or was before its fill.
Settled(id) == id \in DOMAIN orders /\ orders[id].status \in {"kCanceled", "kFilled"}

\* A cancel is reported of an order that it has settled.
CanceledOK ==
  /\ \A i \in DOMAIN reports :
       reports[i].event = "canceled" => Settled(reports[i].broker_order_id)
  /\ \A c \in Calls : pc[c] = "cancel_report" => Settled(broker_order_id[c])

\* A settled order stays settled.
LEMMA SettledStays ==
  ASSUME TypeOK, IdsOK, BookInv, [Next]_vars, NEW id, Settled(id)
  PROVE  Settled(id)'
<1>1. ASSUME NEW c \in Calls, SendInsert(c) PROVE Settled(id)'
  <2>1. broker_order_id[c] # id
    BY <1>1, InsertIsNew DEF Settled
  <2> QED BY <1>1, <2>1 DEF SendInsert, Put, Settled
<1>2. ASSUME NEW c \in Calls, SendStore(c) PROVE Settled(id)'
  BY <1>2 DEF SendStore, Settled, Filled, TypeOK, BookTypeOK, Order
<1>3. ASSUME NEW c \in Calls, CancelApply(c) PROVE Settled(id)'
  BY <1>3 DEF CancelApply, Settled, Canceled, TypeOK, BookTypeOK, Order
<1>4. ASSUME orders' = orders PROVE Settled(id)'
  BY <1>4 DEF Settled
<1> QED BY <1>1, <1>2, <1>3, <1>4, BookStays

\* Cancels are reported of settled orders only.
LEMMA CanceledKept ==
  ASSUME TypeOK, IdsOK, BookInv, CanceledOK, [Next]_vars
  PROVE  CanceledOK'
<1>1. ASSUME NEW c \in Calls, pc'[c] = "cancel_report" PROVE Settled(broker_order_id[c])'
  <2>1. PICK id : id = broker_order_id[c] /\ id = broker_order_id'[c]
    <3>1. pc[c] \notin {"new", "send_id"}
      BY <1>1, CancelReportBefore DEF CancelApply, Goto
    <3> QED BY <3>1, IdsStay DEF TypeOK
  <2>2. CASE CancelApply(c)
    <3>1. Settled(id)'
      BY <2>1, <2>2 DEF CancelApply, Settled, Canceled, TypeOK, BookTypeOK, Order
    <3> QED BY <2>1, <3>1 DEF Settled
  <2>3. CASE pc[c] = "cancel_report"
    <3>1. Settled(id)'
      BY <2>1, <2>3, SettledStays DEF CanceledOK
    <3> QED BY <2>1, <3>1 DEF Settled
  <2> QED BY <1>1, <2>2, <2>3, CancelReportBefore
<1>2. ASSUME NEW i \in DOMAIN reports, reports'[i] = reports[i], reports[i].event = "canceled"
      PROVE  Settled(reports[i].broker_order_id)'
  <2>1. PICK id : id = reports[i].broker_order_id /\ id = reports'[i].broker_order_id
    BY <1>2
  <2>2. Settled(id)'
    BY <1>2, <2>1, SettledStays DEF CanceledOK
  <2> QED BY <2>1, <2>2 DEF Settled
<1>3. ASSUME NEW r \in Report, reports' = Append(reports, r), r.event # "canceled"
      PROVE  \A i \in DOMAIN reports' :
               reports'[i].event = "canceled" => Settled(reports[i].broker_order_id)'
  <2>1. PICK n \in Nat : /\ DOMAIN reports' = DOMAIN reports \cup {n}
                         /\ \A i \in DOMAIN reports : reports'[i] = reports[i]
                         /\ reports'[n].event # "canceled"
    BY <1>3, ReportAdded
  <2> QED BY <1>2, <2>1
<1>4. ASSUME NEW c \in Calls, CancelReport(c), NEW r \in Report, reports' = Append(reports, r),
             r.broker_order_id = broker_order_id[c]
      PROVE  \A i \in DOMAIN reports' :
               reports'[i].event = "canceled" => Settled(reports[i].broker_order_id)'
  <2>1. PICK n \in Nat : /\ DOMAIN reports' = DOMAIN reports \cup {n}
                         /\ \A i \in DOMAIN reports : reports'[i] = reports[i]
                         /\ reports'[n].broker_order_id = broker_order_id[c]
    BY <1>4, ReportAdded
  <2>2. PICK id : id = broker_order_id[c]
    OBVIOUS
  <2>3. Settled(id)'
    BY <1>4, <2>2, SettledStays DEF CancelReport, Goto, CanceledOK
  <2>4. Settled(reports[n].broker_order_id)'
    BY <2>1, <2>2, <2>3 DEF Settled
  <2> QED BY <1>2, <2>1, <2>4
<1>5. ASSUME reports' = reports
      PROVE  \A i \in DOMAIN reports' :
               reports'[i].event = "canceled" => Settled(reports[i].broker_order_id)'
  BY <1>2, <1>5
<1>6. \A i \in DOMAIN reports' :
        reports'[i].event = "canceled" => Settled(reports[i].broker_order_id)'
  BY <1>3, <1>4, <1>5, ReportsGrow
<1> QED BY <1>1, <1>6 DEF CanceledOK

\* With one sending thread and generated ids, the snapshot of an order whose call has
\* returned follows from what was reported: it is kFilled exactly when its trade was
\* told, and kCanceled when only a cancel was.
THEOREM ReportsSettle == ASSUME OneSender, GeneratedIds PROVE Spec => []ReportsSettleTheOrder
<1>1. Init => CanceledOK
  BY DEF Init, CanceledOK
<1>2. TypeOK /\ IdsOK /\ BookInv /\ CanceledOK /\ [Next]_vars => CanceledOK'
  BY CanceledKept
<1>3. ASSUME TypeOK, IdsOK, BookInv, CanceledOK, TradesInv PROVE ReportsSettleTheOrder
  <2> SUFFICES ASSUME NEW c \in Accepted, pc[c] = "done"
               PROVE  LET status == orders[broker_order_id[c]].status
                      IN /\ (c \in Told) <=> (status = "kFilled")
                         /\ (CancelHeard(broker_order_id[c]) /\ c \notin Told)
                              => (status = "kCanceled")
    BY DEF ReportsSettleTheOrder
  <2> USE <1>3 DEF BookInv
  <2> DEFINE id == broker_order_id[c]
  <2>1. c \in Calls /\ id \in DOMAIN orders
    BY SetsOfCalls DEF AcceptedOrderKeepsSnapshot
  <2>2. ASSUME c \in Told PROVE orders[id].status = "kFilled"
    <3>1. PICK j \in DOMAIN trades : trades[j] = TradeOf(c)
      BY <2>2 DEF TradesInv, ReportedTradesAreStored
    <3>2. id \in TradedIds
      BY <3>1 DEF TradedIds, TradeOf
    <3> QED BY <2>1, <3>2 DEF SnapshotAgreesWithTrades
  <2>3. ASSUME orders[id].status = "kFilled" PROVE c \in Told
    <3>1. PICK j \in DOMAIN trades : trades[j].broker_order_id = id
      BY <2>1, <2>3 DEF SnapshotAgreesWithTrades, TradedIds
    <3>2. PICK d \in Calls : d = trades[j].client_order_id
      BY TradesCalls DEF TypeOK
    <3>3. d \in Accepted /\ broker_order_id[d] = id
      BY <3>1, <3>2 DEF BookOK
    <3>4. d = c
      BY <2>1, <3>3, SetsOfCalls DEF IdsOK, Named
    <3>5. trades[j].client_order_id \in Told
      BY DEF TradesInv, ReportedTradesAreStored
    <3> QED BY <3>2, <3>4, <3>5
  <2>4. ASSUME CancelHeard(id) PROVE orders[id].status \in {"kCanceled", "kFilled"}
    BY <2>4 DEF CancelHeard, CanceledOK, Settled
  <2> QED BY <2>2, <2>3, <2>4
<1> QED BY <1>1, <1>2, <1>3, TypeCorrect, IdsCorrect, BookCorrect, TradesCorrect, PTL DEF Spec

-----------------------------------------------------------------------------
(* The life of an order *)

\* The variables of OrderLifecycle under the refinement mapping.
lifecycle == <<LifecycleStatus, LifecycleOpen>>

\* A call leaves the places of an open order when it returns, and not before.
LEMMA OpenStays ==
  ASSUME CallsTypeOK, [Next]_vars, NEW c \in Calls, pc[c] \in Open
  PROVE  \/ pc'[c] \in Open
         \/ SendStore(c) \/ SendWithoutFill(c)
<1> USE DEF CallsTypeOK, Open
<1>1. ASSUME NEW d \in Calls, SendStep(d)
      PROVE  pc'[c] \in Open \/ SendStore(c) \/ SendWithoutFill(c)
  <2>1. CASE SendId(d) \/ SendBump(d) \/ SendLock(d) \/ SendInsert(d)
    BY <2>1 DEF SendId, SendBump, SendLock, SendInsert, Goto
  <2>2. CASE \/ SendReport(d) \/ OnOrderReturns(d) \/ SendFill(d) \/ SendTrade(d)
             \/ SendLockFill(d)
    BY <2>2 DEF SendReport, OnOrderReturns, SendFill, SendTrade, SendLockFill, Goto
  <2>3. CASE SendWithoutFill(d) \/ SendStore(d)
    BY <2>3 DEF SendWithoutFill, SendStore, Return
  <2> QED BY <1>1, <2>1, <2>2, <2>3 DEF SendStep
<1>2. ASSUME NEW d \in Calls, CancelStep(d) PROVE pc'[c] \in Open
  BY <1>2 DEF CancelStep, CancelLock, CancelRefuse, CancelApply, CancelReport, CancelReturn,
     Goto, Return
<1>3. CASE Manage
  BY <1>3, ControlsKeepCalls DEF callVars
<1>4. CASE UNCHANGED vars
  BY <1>4 DEF vars
<1> QED BY <1>1, <1>2, <1>3, <1>4 DEF Next, Step, Finished, SendOrder, CancelOrder, Begin

\* An open order keeps the id its call gave it.
LEMMA OpenKeepsId ==
  ASSUME CallsTypeOK, [Next]_vars, NEW c \in Calls, pc[c] \in Open
  PROVE  broker_order_id'[c] = broker_order_id[c]
BY IdsStay DEF Open

\* Only the two ends of a SendOrder call and its insertion change what is open.
LEMMA SameOpen ==
  ASSUME CallsTypeOK, [Next]_vars,
         \A c \in Calls : ~ SendInsert(c) /\ ~ SendStore(c) /\ ~ SendWithoutFill(c)
  PROVE  LifecycleOpen' = LifecycleOpen
<1>1. OpenCalls' = OpenCalls
  BY OpenedByInsert, OpenStays DEF OpenCalls
<1>2. \A c \in OpenCalls : broker_order_id'[c] = broker_order_id[c]
  BY OpenKeepsId DEF OpenCalls
<1> QED BY <1>1, <1>2 DEF LifecycleOpen

\* When a call returns, its order is open no more: no other call has its id.
LEMMA OpenEnds ==
  ASSUME CallsTypeOK, IdsOK, [Next]_vars, NEW c \in Calls, SendStore(c) \/ SendWithoutFill(c)
  PROVE  /\ broker_order_id[c] \in Ids => broker_order_id[c] \in LifecycleOpen
         /\ LifecycleOpen' = LifecycleOpen \ {broker_order_id[c]}
<1> DEFINE id == broker_order_id[c]
<1>1. pc' = [pc EXCEPT ![c] = "done"] /\ pc[c] \in Open /\ broker_order_id' = broker_order_id
  BY DEF SendStore, SendWithoutFill, Return, locals, Open
<1>2. OpenCalls' = OpenCalls \ {c} /\ c \in OpenCalls
  BY <1>1 DEF OpenCalls, CallsTypeOK, Open
<1>3. \A d \in OpenCalls \ {c} : broker_order_id[d] # id
  <2>1. \A d \in OpenCalls : d \in Named
    BY DEF OpenCalls, Named, Accepted
  <2> QED BY <1>2, <2>1 DEF IdsOK
<1> QED BY <1>1, <1>2, <1>3 DEF LifecycleOpen

\* An accepted order is a working one.
LEMMA InsertAccepts ==
  ASSUME TypeOK, IdsOK, BookInv, [Next]_vars, NEW c \in Calls, SendInsert(c)
  PROVE  [Lifecycle!Next]_lifecycle
<1> USE DEF TypeOK
<1> DEFINE id == broker_order_id[c]
<1>1. /\ pc[c] = "send_insert" /\ pc' = [pc EXCEPT ![c] = "send_report"]
      /\ orders' = Put(id, NewOrder(c)) /\ broker_order_id' = broker_order_id
  BY DEF SendInsert, Goto, locals
<1>2. id \notin DOMAIN orders
  <2>1. c \in Named /\ c \notin Accepted
    BY <1>1 DEF Named, Accepted, Open
  <2>2. ASSUME id \in DOMAIN orders PROVE FALSE
    <3> DEFINE d == orders[id].client_order_id
    <3>1. d \in Accepted /\ broker_order_id[d] = id
      BY <2>2 DEF BookInv, BookOK
    <3>2. d \in Named /\ d # c
      BY <2>1, <3>1 DEF Named
    <3> QED BY <2>1, <3>1, <3>2, SetsOfCalls, <1>1 DEF IdsOK
  <2> QED BY <2>2
<1>3. /\ DOMAIN orders' = DOMAIN orders \cup {id}
      /\ \A i \in DOMAIN orders : orders'[i] = orders[i]
      /\ orders'[id].status = "kNotTradedQueueing"
  BY <1>1, <1>2 DEF Put, NewOrder
<1>4. OpenCalls' = OpenCalls \cup {c}
  BY <1>1 DEF OpenCalls, Open, CallsTypeOK
<1>5. LifecycleOpen' = LifecycleOpen \cup (Ids \cap {id})
  BY <1>1, <1>4 DEF LifecycleOpen
<1>6. \A i \in Ids \ {id} : LifecycleStatus'[i] = LifecycleStatus[i]
  BY <1>3 DEF LifecycleStatus
<1>7. CASE id \in Ids
  <2>1. LifecycleStatus[id] = "absent" /\ LifecycleStatus'[id] = "working"
    BY <1>2, <1>3, <1>7 DEF LifecycleStatus, LifeOf
  <2>2. LifecycleStatus' = [LifecycleStatus EXCEPT ![id] = "working"]
    BY <1>6, <2>1 DEF LifecycleStatus
  <2>3. Lifecycle!Accept(id)
    BY <1>5, <1>7, <2>1, <2>2 DEF Lifecycle!Accept
  <2> QED BY <1>7, <2>3 DEF Lifecycle!Next
<1>8. CASE id \notin Ids
  <2>1. LifecycleStatus' = LifecycleStatus
    BY <1>6, <1>8 DEF LifecycleStatus
  <2>2. LifecycleOpen' = LifecycleOpen
    BY <1>5, <1>8
  <2> QED BY <2>1, <2>2 DEF lifecycle
<1> QED BY <1>7, <1>8

\* The fill of an open order, working or canceled.
LEMMA StoreFills ==
  ASSUME TypeOK, IdsOK, BookInv, [Next]_vars, NEW c \in Calls, SendStore(c)
  PROVE  [Lifecycle!Next]_lifecycle
<1> USE DEF TypeOK
<1> DEFINE id == broker_order_id[c]
<1>1. /\ pc[c] = "send_store" /\ id \in DOMAIN orders
      /\ orders' = [orders EXCEPT ![id] = Filled(@)]
  BY DEF SendStore, Return
<1>2. id \notin TradedIds
  <2>1. c \in Named
    BY <1>1 DEF Named, Accepted, Open
  <2>2. ASSUME NEW i \in DOMAIN trades, trades[i].broker_order_id = id PROVE FALSE
    <3> DEFINE d == trades[i].client_order_id
    <3>1. d \in Accepted /\ pc[d] = "done" /\ broker_order_id[d] = id
      BY <2>2 DEF BookInv, BookOK
    <3>2. d \in Named /\ d # c
      BY <1>1, <3>1 DEF Named
    <3> QED BY <2>1, <3>1, <3>2 DEF IdsOK
  <2> QED BY <2>2 DEF TradedIds
<1>3. orders[id].status \in {"kNotTradedQueueing", "kCanceled"}
  <2>1. orders[id] \in Order
    BY <1>1 DEF BookTypeOK
  <2>2. orders[id].status # "kFilled"
    BY <1>1, <1>2 DEF BookInv, SnapshotAgreesWithTrades
  <2> QED BY <2>1, <2>2 DEF Order
<1>4. /\ DOMAIN orders' = DOMAIN orders
      /\ \A i \in DOMAIN orders \ {id} : orders'[i] = orders[i]
      /\ orders'[id].status = "kFilled"
  <2>1. orders[id] \in Order
    BY <1>1 DEF BookTypeOK
  <2>2. orders'[id] = Filled(orders[id])
    BY <1>1
  <2> QED BY <1>1, <2>1, <2>2 DEF Filled, Order
<1>5. \A i \in Ids \ {id} : LifecycleStatus'[i] = LifecycleStatus[i]
  BY <1>4 DEF LifecycleStatus
<1>6. CASE id \in Ids
  <2>1. LifecycleStatus[id] \in {"working", "canceled"} /\ LifecycleStatus'[id] = "filled"
    BY <1>1, <1>3, <1>4, <1>6 DEF LifecycleStatus, LifeOf
  <2>2. LifecycleStatus' = [LifecycleStatus EXCEPT ![id] = "filled"]
    BY <1>5, <2>1 DEF LifecycleStatus
  <2>3. Lifecycle!Fill(id)
    BY <1>6, <2>1, <2>2, OpenEnds DEF Lifecycle!Fill
  <2> QED BY <1>6, <2>3 DEF Lifecycle!Next
<1>7. CASE id \notin Ids
  <2>1. LifecycleStatus' = LifecycleStatus
    BY <1>5, <1>7 DEF LifecycleStatus
  <2>2. LifecycleOpen' = LifecycleOpen
    BY <1>7, OpenEnds DEF LifecycleOpen
  <2> QED BY <2>1, <2>2 DEF lifecycle
<1> QED BY <1>6, <1>7

\* A cancel of a working order; its call may be open or closed.
LEMMA ApplyCancels ==
  ASSUME TypeOK, [Next]_vars, NEW c \in Calls, CancelApply(c)
  PROVE  [Lifecycle!Next]_lifecycle
<1> USE DEF TypeOK
<1> DEFINE id == broker_order_id[c]
<1>1. /\ pc[c] = "cancel_find" /\ id \in DOMAIN orders
      /\ orders[id].status \notin FinalStatus
      /\ orders' = [orders EXCEPT ![id] = Canceled(@)]
  BY DEF CancelApply, Goto
<1>2. orders[id] \in Order
  BY <1>1 DEF BookTypeOK
<1>3. orders[id].status = "kNotTradedQueueing"
  BY <1>1, <1>2 DEF Order, FinalStatus
<1>4. /\ DOMAIN orders' = DOMAIN orders
      /\ \A i \in DOMAIN orders \ {id} : orders'[i] = orders[i]
      /\ orders'[id].status = "kCanceled"
  BY <1>1, <1>2 DEF Canceled, Order
<1>5. LifecycleOpen' = LifecycleOpen
  <2>1. broker_order_id' = broker_order_id /\ pc' = [pc EXCEPT ![c] = "cancel_report"]
    BY DEF CancelApply, Goto, locals
  <2>2. OpenCalls' = OpenCalls
    BY <1>1, <2>1 DEF OpenCalls, Open, CallsTypeOK
  <2> QED BY <2>1, <2>2 DEF LifecycleOpen
<1>6. \A i \in Ids \ {id} : LifecycleStatus'[i] = LifecycleStatus[i]
  BY <1>4 DEF LifecycleStatus
<1>7. CASE id \in Ids
  <2>1. LifecycleStatus[id] = "working" /\ LifecycleStatus'[id] = "canceled"
    BY <1>1, <1>3, <1>4, <1>7 DEF LifecycleStatus, LifeOf
  <2>2. LifecycleStatus' = [LifecycleStatus EXCEPT ![id] = "canceled"]
    BY <1>6, <2>1 DEF LifecycleStatus
  <2>3. Lifecycle!Cancel(id)
    BY <1>5, <2>1, <2>2 DEF Lifecycle!Cancel
  <2> QED BY <1>7, <2>3 DEF Lifecycle!Next
<1>8. CASE id \notin Ids
  <2>1. LifecycleStatus' = LifecycleStatus
    BY <1>6, <1>8 DEF LifecycleStatus
  <2> QED BY <1>5, <2>1 DEF lifecycle
<1> QED BY <1>7, <1>8

\* A call that returns without a fill closes its order as it is.
LEMMA ReturnCloses ==
  ASSUME TypeOK, IdsOK, [Next]_vars, NEW c \in Calls, SendWithoutFill(c)
  PROVE  [Lifecycle!Next]_lifecycle
<1> DEFINE id == broker_order_id[c]
<1>1. LifecycleStatus' = LifecycleStatus
  BY DEF SendWithoutFill, book, LifecycleStatus
<1>2. /\ id \in Ids => id \in LifecycleOpen
      /\ LifecycleOpen' = LifecycleOpen \ {id}
  BY OpenEnds DEF TypeOK
<1>3. CASE id \in Ids
  <2>1. Lifecycle!Close(id)
    BY <1>1, <1>2, <1>3 DEF Lifecycle!Close
  <2> QED BY <1>3, <2>1 DEF Lifecycle!Next
<1>4. CASE id \notin Ids
  <2>1. LifecycleOpen' = LifecycleOpen
    BY <1>2, <1>4 DEF LifecycleOpen
  <2> QED BY <1>1, <2>1 DEF lifecycle
<1> QED BY <1>3, <1>4

\* With one sending thread and generated ids, whichever ids are watched, the orders
\* live the lives OrderLifecycle describes; its fairness is left to the runs.
THEOREM OrdersFollowLifecycle == ASSUME OneSender, GeneratedIds PROVE Spec => Lifecycle!Spec
<1>1. Init => Lifecycle!Init
  BY DEF Init, Lifecycle!Init, LifecycleStatus, LifecycleOpen, OpenCalls, Open
<1>2. TypeOK /\ IdsOK /\ BookInv /\ [Next]_vars => [Lifecycle!Next]_lifecycle
  <2> SUFFICES ASSUME TypeOK, IdsOK, BookInv, [Next]_vars PROVE [Lifecycle!Next]_lifecycle
    OBVIOUS
  <2>1. CASE \A c \in Calls : /\ ~ SendInsert(c) /\ ~ SendStore(c)
                              /\ ~ CancelApply(c) /\ ~ SendWithoutFill(c)
    <3>1. LifecycleOpen' = LifecycleOpen
      BY <2>1, SameOpen DEF TypeOK
    <3>2. orders' = orders
      BY <2>1, BookStays
    <3> QED BY <3>1, <3>2 DEF lifecycle, LifecycleStatus
  <2> QED BY <2>1, InsertAccepts, StoreFills, ApplyCancels, ReturnCloses
<1>3. [Lifecycle!Next]_lifecycle => [Lifecycle!Next]_<<LifecycleStatus, LifecycleOpen>>
  BY DEF lifecycle
<1> QED BY <1>1, <1>2, <1>3, TypeCorrect, IdsCorrect, BookCorrect, PTL DEF Spec, Lifecycle!Spec
=============================================================================
