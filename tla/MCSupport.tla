------------------------------ MODULE MCSupport ------------------------------
(***************************************************************************)
(* SupportBridges with main, one or two threads of the engine, and the     *)
(* answers config-service can confuse a client with.                       *)
(***************************************************************************)
EXTENDS SupportBridges

CONSTANTS Mine, Other

TwoAccounts == {Mine, Other}

Message(named, owned, stale, window, adapter) ==
  [engine_id |-> named, account_id |-> owned, quote_max_stale_ms |-> stale,
   strategies |-> <<[window_size |-> window]>>, adapter_params |-> adapter]

\* Three good configurations, whose limit is unset, negative and given, and two that do
\* not name engine or account.
SomeMessages == {Message(TRUE, TRUE, 0, Unset, "mock"), Message(TRUE, TRUE, -1, Unset, "mock"),
                 Message(TRUE, TRUE, 250, 0, "emt"),
                 Message(FALSE, TRUE, 250, 5, "mock"), Message(TRUE, FALSE, -1, 5, "emt")}
=============================================================================
