------------------------------- MODULE MCBoot -------------------------------
(***************************************************************************)
(* Boot with every kind of configuration and credential, and with files    *)
(* that have a wrong section, or two text entries and the services as they *)
(* come.                                                                   *)
(***************************************************************************)
EXTENDS Boot

SomeConfigs == [identity : {"own", "other", "empty"},
                execution_adapter : {"", "mock", "emt", "other"},
                quote_connection_string : {"empty", "given"},
                strategies : {0, 2}]

SomeCredentials == [account_id : {"own", "other"}, complete : BOOLEAN]

Entry(entry_name, is_enabled) ==
  [object |-> TRUE, name |-> entry_name, usable |-> TRUE, enabled |-> is_enabled, timed |-> TRUE]

Listed(on) == << Entry("config_service", "config_service" \in on),
                 Entry("account_service", "account_service" \in on),
                 Entry("account_risk_service", "account_risk_service" \in on) >>

\* An entry before the others, or in the place of one, that may be of any kind.
OddEntries == {e \in Entries : e.timed => e.name = "account_risk_service"}
SomeServices ==
  {Listed(on) : on \in SUBSET Services}
    \cup {<<e>> \o Listed(Services) : e \in OddEntries}
    \cup {[Listed(Services) EXCEPT ![i] = e] : i \in 1 .. 3, e \in OddEntries}

Right == [s \in Sections |-> "right"]
Given == [n \in Texts |-> "given"]
SomeTexts == {[Given EXCEPT ![m] = v, ![n] = w] :
                m \in Texts, n \in Texts, v \in {"given", "missing", "empty", "not a text"},
                w \in {"missing", "not a text"}}

SomeFiles ==
  [sections : {[Right EXCEPT ![s] = k] : s \in Sections, k \in {"right", "missing", "wrong"}},
   texts : {Given, [Given EXCEPT !["tenant_id"] = "not a text"]}, services : {Listed(Services)}]
    \cup [sections : {Right}, texts : SomeTexts,
          services : {Listed(Services), <<Entry("not a text", TRUE)>>}]
    \cup [sections : {Right}, texts : {Given}, services : SomeServices]
=============================================================================
