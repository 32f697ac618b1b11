--------------------------- MODULE BootstrapConfig ---------------------------
(***************************************************************************)
(* ParseQtradeEngineBootstrapConfig (src/bootstrap): what becomes of the   *)
(* engine's configuration file once it has been read as JSON.              *)
(*                                                                         *)
(* A file is kept as the kinds of its sections, the contents of its text   *)
(* entries and the list of its services.  Of a service, ParseServiceEndpoint*)
(* of qtrade_common, which is not part of the repository, decides whether  *)
(* the endpoint can be used.                                               *)
(*                                                                         *)
(* The parser tests one thing after the other and refuses the file at the  *)
(* first that is wrong; but a text entry that is not a text makes          *)
(* nlohmann::json throw, which nobody catches, and aborts the process.     *)
(*                                                                         *)
(* The operator named Slip... is not the code: it is a plausible mistake   *)
(* in the definition that follows it, which a property must catch.         *)
(***************************************************************************)
EXTENDS Naturals, SequencesExt

Services == {"config_service", "account_service", "account_risk_service"}

LogTexts      == {"log_dir", "log_filename"}
IdentityTexts == {"tenant_id", "engine_id", "account_id"}
Texts         == LogTexts \cup IdentityTexts \cup {"plugin_dir"}
Sections      == {"root", "config", "support_services", "identity", "strategy"}

Entries == [object : BOOLEAN, name : Services \cup {"missing", "unknown", "not a text"},
            usable : BOOLEAN, enabled : BOOLEAN, timed : BOOLEAN]

\* Whether f has the form of a file.
IsFile(f) == /\ f.sections \in [Sections -> {"missing", "right", "wrong"}]
             /\ f.texts \in [Texts -> {"missing", "given", "empty", "not a text"}]
             /\ f.services \in Seq(Entries)

-----------------------------------------------------------------------------
(* The parser *)

Section(f, name) == IF f.sections[name] = "right" THEN "passed" ELSE "refused"

\* What value() gives for an entry.
Value(f, name, default) == IF f.texts[name] = "missing" THEN default ELSE f.texts[name]

\* The entries are all read before the first is tested.
TextsOf(f, names, default) ==
  IF \E n \in names : Value(f, n, default) = "not a text" THEN "aborted"
  ELSE IF \E n \in names : Value(f, n, default) = "empty" THEN "refused" ELSE "passed"

SlipNextUsable(f, name) ==
  SelectInSeq(f.services, LAMBDA e : e.object /\ e.name \in {name, "not a text"}
                                       /\ (e.name = name => e.usable))

\* The entry at which the search for a service ends, or 0.
ParseSupportServiceByName(f, name) ==
  SelectInSeq(f.services, LAMBDA e : e.object /\ e.name \in {name, "not a text"})

Service(f, name) ==
  LET i == ParseSupportServiceByName(f, name)
  IN CASE i = 0 -> "refused"
       [] i # 0 /\ f.services[i].name = "not a text" -> "aborted"
       [] i # 0 /\ f.services[i].name = name ->
            IF f.services[i].usable THEN "passed" ELSE "refused"

\* All three are searched before the first is tested.
SupportServices(f) ==
  LET verdicts == {Service(f, name) : name \in Services}
  IN IF "aborted" \in verdicts THEN "aborted"
     ELSE IF "refused" \in verdicts THEN "refused" ELSE "passed"

Endpoint(f, name) == f.services[ParseSupportServiceByName(f, name)]

RiskTimeout(f) ==
  LET risk == Endpoint(f, "account_risk_service")
  IN IF risk.enabled /\ ~ risk.timed THEN "refused" ELSE "passed"

\* The verdict of the first test that is not passed.
Parse(f) ==
  LET tests ==
        << Section(f, "root"), Section(f, "config"), Section(f, "support_services"),
           Section(f, "identity"), Section(f, "strategy"),
           TextsOf(f, LogTexts, "given"), TextsOf(f, IdentityTexts, "empty"),
           TextsOf(f, {"plugin_dir"}, "empty"), SupportServices(f) >>
      first == SelectInSeq(tests, LAMBDA verdict : verdict # "passed")
  IN IF first # 0 THEN tests[first] ELSE RiskTimeout(f)

\* The services of a file that is accepted.
EnabledServices(f) == {name \in Services : Endpoint(f, name).enabled}

-----------------------------------------------------------------------------
(* What a file has to be, whatever the order of the tests *)

FirstOf(f, name, e) ==
  \E i \in DOMAIN f.services :
    /\ f.services[i] = e /\ e.object /\ e.name = name
    /\ \A j \in 1 .. i - 1 : ~ (f.services[j].object /\ f.services[j].name = name)

\* The entry of a service decides alone, the first if there are several.
Complete(f) ==
  /\ \A s \in Sections : f.sections[s] = "right"
  /\ \A n \in Texts : f.texts[n] \in (IF n \in LogTexts THEN {"given", "missing"} ELSE {"given"})
  /\ \A name \in Services : \E e \in Entries :
       /\ FirstOf(f, name, e) /\ e.usable
       /\ name = "account_risk_service" /\ e.enabled => e.timed

NotAText(f) == \/ \E n \in Texts : f.texts[n] = "not a text"
               \/ \E i \in DOMAIN f.services : f.services[i].name = "not a text"
=============================================================================
