---------------------------- MODULE SupportBridges ----------------------------
(***************************************************************************)
(* The config bridge and the account bridge as main (src/main.cpp) uses    *)
(* them: main's thread opens, reads, asks and closes both, and the engine, *)
(* which has a pointer to the account bridge, asks from threads of its own *)
(* between its start and its stop.                                         *)
(*                                                                         *)
(* Of main's order only what protects the bridges is kept: the account     *)
(* bridge is used while the config bridge is not, and before the engine    *)
(* has started and after it has stopped main may open and close them again *)
(* and again.  Boot has the whole order, and its refinement of             *)
(* EngineContract shows that main keeps to this.                           *)
(*                                                                         *)
(* The engine is not part of the repository: it is assumed to make no new  *)
(* calls once Stop is called, and Stop to wait for those under way.        *)
(***************************************************************************)
EXTENDS AccountBridge, ConfigBridge

CONSTANTS
  Main,        \* main's thread, one of the callers
  MainAccount  \* the account this client is configured for

ASSUME MainAssumption == Main \in Callers /\ MainAccount \in Accounts

VARIABLE engine  \* "created", "started", "stopping" or "stopped"

support_vars == <<vars, config_vars, engine>>

Returned(c) == pc[c] \in {"idle", "done"}

\* No call of main's own is under way.
MainIsFree ==
  Returned(Main) /\ config_place = "idle" /\ engine \in {"created", "stopped"}

-----------------------------------------------------------------------------

\* Main gives up when the config bridge fails, and need not have one; one that it has
\* stays open meanwhile.
OpenAccountBridge == /\ MainIsFree /\ engine = "created" /\ stub = initialized
                     /\ \/ config_result = "none"
                        \/ config_result = "kSuccess" /\ config_open
                     /\ Open
                     /\ UNCHANGED <<config_vars, engine>>

SlipShutdownBeforeStop ==
  /\ Returned(Main) /\ config_place = "idle"
  /\ ResetStub \/ EndShutdown
  /\ UNCHANGED <<config_vars, engine>>

\* Shutdown and the destructor, after the engine has stopped or without a start.
ShutdownAccountBridge == /\ MainIsFree
                         /\ ResetStub \/ EndShutdown
                         /\ UNCHANGED <<config_vars, engine>>

\* CreateEmtAdapters asks for the credential of the account.
MainAsks == /\ MainIsFree /\ engine = "created" /\ stub = initialized
            /\ GetCredential(Main, MainAccount)
            /\ UNCHANGED <<config_vars, engine>>

EngineAsks(c) == /\ engine = "started" /\ c # Main
                 /\ Asking(c)
                 /\ UNCHANGED <<config_vars, engine>>

CallStep(c) == Step(c) /\ UNCHANGED <<config_vars, engine>>

AccountService == Service /\ UNCHANGED <<config_vars, engine>>

\* Its Init comes before the account bridge's, its Shutdown after.
UseConfigBridge == /\ engine \in {"created", "stopped"} /\ Returned(Main)
                   /\ ~ stub /\ ~ initialized
                   /\ ConfigNext
                   /\ UNCHANGED <<vars, engine>>

\* The engine is given the account bridge only once its Init has succeeded.
StartEngine == /\ MainIsFree /\ engine = "created"
               /\ initialized /\ stub
               /\ engine' = "started"
               /\ UNCHANGED <<vars, config_vars>>

\* A signal has come: RunUntilShutdown calls Stop ...
CallStop == /\ engine = "started" /\ engine' = "stopping"
            /\ UNCHANGED <<vars, config_vars>>

\* ... which returns when the calls of the engine's threads have.
StopReturns == /\ engine = "stopping" /\ engine' = "stopped"
               /\ \A c \in Callers : Returned(c)
               /\ UNCHANGED <<vars, config_vars>>

-----------------------------------------------------------------------------
(* Specification *)

SupportInit == Init /\ ConfigInit /\ engine = "created"

SupportNext == \/ OpenAccountBridge \/ ShutdownAccountBridge \/ MainAsks \/ UseConfigBridge
               \/ StartEngine \/ CallStop \/ StopReturns
               \/ AccountService
               \/ \E c \in Callers : EngineAsks(c) \/ CallStep(c)

SupportSpec == SupportInit /\ [][SupportNext]_support_vars

\* Deadlines pass and threads are scheduled; the services need not answer, no signal
\* need come.
FairSupport == /\ SupportSpec
               /\ \A c \in Callers : WF_support_vars(CallStep(c))
               /\ WF_support_vars(StopReturns)

-----------------------------------------------------------------------------
(* Properties *)

\* Every variable has its type.
SupportTypeOK == /\ TypeOK /\ ConfigTypeOK
                 /\ engine \in {"created", "started", "stopping", "stopped"}

\* The engine's threads are in the account bridge only between start and stop, when
\* main does not touch the client.
EngineHasClient ==
  engine \in {"started", "stopping"} => initialized /\ stub

CallsAreEngines ==
  \A c \in Callers : ~ Returned(c) => c = Main \/ engine \in {"started", "stopping"}

\* Main is in a call of its own only while it does nothing else.
MainCallOnOpen == pc[Main] \in {"test", "rpc"} => initialized /\ stub

\* Stop returns although a thread may wait for a service that never answers, and with
\* it main can go on to close the bridges.
StopCompletes == engine = "stopping" ~> engine = "stopped"

\* GetCredential returns by its deadline, on main's thread and on the engine's.
EveryCallReturns == \A c \in Callers : ~ Returned(c) ~> Returned(c)
=============================================================================
