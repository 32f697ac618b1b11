--------------------------- MODULE EngineContract ---------------------------
(***************************************************************************)
(* How an IEngine may be used, as the interfaces of the client say: a      *)
(* bridge is injected after its Init and before the engine's, the two      *)
(* connected APIs are set before Init, strategies are added to an engine   *)
(* that has been initialised, only such an engine starts, and while it     *)
(* runs the bridges it was given stay open.                                *)
(***************************************************************************)
EXTENDS Naturals

CONSTANT Bridges   \* the bridges an engine may be given

VARIABLES
  engine,    \* "none", "created", "initialized", "started", "stopped", "destroyed"
  open,      \* the bridges whose client is initialised
  injected,  \* the bridges the engine has
  apis,      \* whether it has both APIs, connected
  strategies \* number of strategies added to it

Init == /\ engine = "none"
        /\ open = {} /\ injected = {}
        /\ apis = FALSE
        /\ strategies = 0

Create == /\ engine = "none" /\ engine' = "created"
          /\ UNCHANGED <<open, injected, apis, strategies>>

Inject(b) == /\ engine = "created"
             /\ open' = open \cup {b} /\ injected' = injected \cup {b}
             /\ UNCHANGED <<engine, apis, strategies>>

SetApis == /\ engine = "created"
           /\ apis' = TRUE
           /\ UNCHANGED <<engine, open, injected, strategies>>

InitEngine == /\ engine = "created" /\ apis
              /\ engine' = "initialized"
              /\ UNCHANGED <<open, injected, apis, strategies>>

AddStrategy == /\ engine = "initialized"
               /\ strategies' = strategies + 1
               /\ UNCHANGED <<engine, open, injected, apis>>

Start == /\ engine = "initialized" /\ injected \subseteq open
         /\ engine' = "started"
         /\ UNCHANGED <<open, injected, apis, strategies>>

Stop == /\ engine = "started" /\ engine' = "stopped"
        /\ UNCHANGED <<open, injected, apis, strategies>>

Close(b) == /\ engine # "started"
            /\ open' = open \ {b}
            /\ UNCHANGED <<engine, injected, apis, strategies>>

Destroy == /\ engine \notin {"none", "started", "destroyed"}
           /\ engine' = "destroyed"
           /\ apis' = FALSE
           /\ UNCHANGED <<open, injected, strategies>>

Next == \/ Create \/ SetApis \/ InitEngine \/ AddStrategy \/ Start \/ Stop \/ Destroy
        \/ \E b \in Bridges : Inject(b) \/ Close(b)

Spec == Init /\ [][Next]_<<engine, open, injected, apis, strategies>>
=============================================================================
