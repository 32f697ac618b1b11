----------------------------- MODULE CachedLookup -----------------------------
(***************************************************************************)
(* What a bridge with a cache promises those who look something up through *)
(* it.  The bridge puts a caller's question to the service once, if it is  *)
(* open, and hears a value, that there is none, or nothing.  What it heard *)
(* decides what it tells the caller: a value the service has offered for   *)
(* the caller's very key, which it remembers; or that there is none; or,   *)
(* when it heard nothing or could not ask, and only then, the value it     *)
(* learned last for that key.  The caller is left without one only while   *)
(* the bridge has never learned any, and is then told which of the two it  *)
(* was.  What the bridge knows it knows from then on, closed and opened    *)
(* again or not.                                                           *)
(***************************************************************************)
CONSTANTS
  Callers, Keys,
  NoKey, NoValue

VARIABLES
  open,     \* whether the bridge has a connection
  offered,  \* <<key, value>> for every value the service has offered so far
  known,    \* the value the bridge learned last for a key
  asked,    \* the key each caller asks for
  heard,    \* what came of its question: "none" yet, "closed" (it was not even put to
            \* the service), "failed", "not_found" or "ok"
  told,     \* "idle", "asked", or the code each caller was told
  answer    \* the value it got

vars == <<open, offered, known, asked, heard, told, answer>>

Init ==
  /\ open = FALSE
  /\ known = [k \in Keys |-> NoValue]
  /\ asked = [c \in Callers |-> NoKey]
  /\ heard = [c \in Callers |-> "none"]
  /\ told = [c \in Callers |-> "idle"]
  /\ answer = [c \in Callers |-> NoValue]

OpenOrClose == /\ open' = ~ open
               /\ UNCHANGED <<offered, known, asked, heard, told, answer>>

Offer == /\ offered \subseteq offered'
         /\ UNCHANGED <<open, known, asked, heard, told, answer>>

Ask(c, k) ==
  /\ told[c] # "asked"
  /\ asked' = [asked EXCEPT ![c] = k]
  /\ heard' = [heard EXCEPT ![c] = IF open THEN "none" ELSE "closed"]
  /\ told' = [told EXCEPT ![c] = "asked"]
  /\ answer' = [answer EXCEPT ![c] = NoValue]
  /\ UNCHANGED <<open, offered, known>>

\* The service answers with a value, or cannot be heard.
Hear(c, what) ==
  /\ told[c] = "asked" /\ heard[c] = "none"
  /\ heard' = [heard EXCEPT ![c] = what]
  /\ UNCHANGED <<open, offered, known, asked, told, answer>>

Tell(c, code, value) ==
  /\ told[c] = "asked"
  /\ told' = [told EXCEPT ![c] = code]
  /\ answer' = [answer EXCEPT ![c] = value]

Learn(c, value) ==
  /\ heard[c] = "ok"
  /\ <<asked[c], value>> \in offered
  /\ Tell(c, "kSuccess", value)
  /\ known' = [known EXCEPT ![asked[c]] = value]
  /\ UNCHANGED <<open, offered, asked, heard>>

\* The service has nothing for the key, and the caller is told so at once.
Refuse(c) ==
  /\ heard[c] = "none"
  /\ heard' = [heard EXCEPT ![c] = "not_found"]
  /\ Tell(c, "kNotFound", NoValue)
  /\ UNCHANGED <<open, offered, known, asked>>

Recall(c) ==
  /\ heard[c] \in {"closed", "failed"}
  /\ known[asked[c]] # NoValue
  /\ Tell(c, "kSuccess", known[asked[c]])
  /\ UNCHANGED <<open, offered, known, asked, heard>>

Miss(c) ==
  /\ heard[c] \in {"closed", "failed"}
  /\ known[asked[c]] = NoValue
  /\ Tell(c, IF heard[c] = "closed" THEN "kNotInitialized" ELSE "kTimeout", NoValue)
  /\ UNCHANGED <<open, offered, known, asked, heard>>

Next == \/ OpenOrClose \/ Offer
        \/ \E c \in Callers : \/ \E k \in Keys : Ask(c, k)
                              \/ \E what \in {"failed", "ok"} : Hear(c, what)
                              \/ \E entry \in offered : Learn(c, entry[2])
                              \/ Refuse(c) \/ Recall(c) \/ Miss(c)

Spec == Init /\ [][Next]_vars
=============================================================================
