---------------------------- MODULE AccountBridge ----------------------------
(***************************************************************************)
(* GrpcAccountBridge (src/bridge) and its AccountClient (src/client): how  *)
(* main and the engine get the credential of a trading account.            *)
(*                                                                         *)
(* A call asks the service once, with a deadline, and keeps what it got in *)
(* cache_; when it cannot ask, or is not answered in time, it takes the    *)
(* cached credential.  Calls run on the threads of their callers: only     *)
(* cache_ has a mutex, while the client's stub and its initialized flag    *)
(* are read and written without any.                                       *)
(*                                                                         *)
(* A credential is kept as its version: the service starts with version 0, *)
(* which stands for a reply whose credential was never filled in.  Init    *)
(* has an effect only on a client that is not initialised and has a host   *)
(* and a port; otherwise it returns an error and changes nothing.          *)
(*                                                                         *)
(* The operators named Slip... are not the code: each is a plausible       *)
(* mistake in the definition that follows it, which a property must catch. *)
(***************************************************************************)
EXTENDS Naturals

CONSTANTS
  Callers,     \* the threads that ask for credentials
  Accounts,
  MaxVersion,  \* bound on the credentials the service issues for an account
  NoAccount, NoData

ASSUME AccountAssumption ==
  /\ NoAccount \notin Accounts
  /\ MaxVersion \in Nat /\ NoData \notin Nat

VARIABLES
  initialized,  \* the client's flag of that name
  stub,         \* whether the client has a stub
  cache,        \* cache_
  pc,           \* the place the call of each thread has reached
  account_id,   \* the account it asks for
  rc,           \* what the client returned to it: "none" yet, "ok" or "failed"; "closed":
                \* the bridge did not even call the client
  error_code,   \* error_code of its Result
  data,         \* data of its Result
  reply,        \* the reply of the service to its RPC, while that is of use
  credentials   \* in the service: the version it issues for an account

client == <<initialized, stub>>
result == <<rc, error_code, data>>
vars == <<client, cache, pc, account_id, result, reply, credentials>>

-----------------------------------------------------------------------------
(* The client *)

Open ==
  /\ ~ initialized
  /\ stub' = TRUE
  /\ initialized' = TRUE
  /\ UNCHANGED <<cache, pc, account_id, result, reply, credentials>>

\* Shutdown, of the bridge, of its destructor and of the client: the stub goes first.
ResetStub ==
  /\ stub
  /\ stub' = FALSE
  /\ UNCHANGED <<initialized, cache, pc, account_id, result, reply, credentials>>

EndShutdown ==
  /\ ~ stub /\ initialized
  /\ initialized' = FALSE
  /\ UNCHANGED <<stub, cache, pc, account_id, result, reply, credentials>>

-----------------------------------------------------------------------------
(* account-service, as the bridge sees it *)

Issue(account) ==
  /\ credentials[account] < MaxVersion
  /\ credentials' = [credentials EXCEPT ![account] = @ + 1]
  /\ UNCHANGED <<client, cache, pc, account_id, result, reply>>

Serve(c) ==
  /\ pc[c] = "rpc" /\ reply[c] = NoData
  /\ reply' = [reply EXCEPT ![c] = credentials[account_id[c]]]
  /\ UNCHANGED <<client, cache, pc, account_id, result, credentials>>

-----------------------------------------------------------------------------
(* GetCredential *)

\* The key of an account in cache_: the engine that asks is not part of it.
CacheKey(account) == account

Goto(c, from, to) == pc[c] = from /\ pc' = [pc EXCEPT ![c] = to]

Return(c, from, code, value) ==
  /\ Goto(c, from, "done")
  /\ error_code' = [error_code EXCEPT ![c] = code]
  /\ data' = [data EXCEPT ![c] = value]
  /\ reply' = [reply EXCEPT ![c] = NoData]
  /\ UNCHANGED rc

\* The bridge asks the client only if it is initialised.
GetCredential(c, account) ==
  /\ pc[c] \in {"idle", "done"}
  /\ pc' = [pc EXCEPT ![c] = IF initialized THEN "test" ELSE "cache"]
  /\ account_id' = [account_id EXCEPT ![c] = account]
  /\ rc' = [rc EXCEPT ![c] = IF initialized THEN "none" ELSE "closed"]
  /\ error_code' = [error_code EXCEPT ![c] = "kSuccess"]
  /\ data' = [data EXCEPT ![c] = NoData]
  /\ UNCHANGED <<client, cache, reply, credentials>>

\* Whatever the client returns, the bridge makes a timeout of it.
Fails(c, from) ==
  /\ Goto(c, from, "cache")
  /\ rc' = [rc EXCEPT ![c] = "failed"]
  /\ error_code' = [error_code EXCEPT ![c] = "kTimeout"]
  /\ reply' = [reply EXCEPT ![c] = NoData]
  /\ UNCHANGED <<client, cache, account_id, data, credentials>>

\* The client tests its flag once more, and its stub.
TestClient(c) ==
  \/ /\ initialized /\ stub
     /\ Goto(c, "test", "rpc")
     /\ UNCHANGED <<client, cache, account_id, result, reply, credentials>>
  \/ ~ (initialized /\ stub) /\ Fails(c, "test")

SlipNoDeadline(c) == pc[c] = "rpc" /\ reply[c] # NoData /\ Fails(c, "rpc")

\* The deadline passes or the connection fails, whatever became of the request.
RpcFails(c) == Fails(c, "rpc")

RpcAnswered(c) ==
  /\ reply[c] # NoData
  /\ Goto(c, "rpc", "store")
  /\ rc' = [rc EXCEPT ![c] = "ok"]
  /\ UNCHANGED <<client, cache, account_id, error_code, data, reply, credentials>>

\* cache_ takes what was answered, under its mutex, in a step of its own.
StoreCredential(c) ==
  /\ Return(c, "store", "kSuccess", reply[c])
  /\ cache' = [cache EXCEPT ![CacheKey(account_id[c])] = reply[c]]
  /\ UNCHANGED <<client, account_id, credentials>>

SlipAlwaysTimeout(c) ==
  LET cached == cache[CacheKey(account_id[c])]
  IN /\ pc[c] = "cache"
     /\ Return(c, "cache", IF cached # NoData THEN "kSuccess" ELSE "kTimeout", cached)
     /\ UNCHANGED <<client, cache, account_id, credentials>>

\* The cached credential hides the failure; without one, a call that never asked
\* reports that the bridge is not initialised.
ReadCache(c) ==
  LET cached == cache[CacheKey(account_id[c])]
  IN /\ pc[c] = "cache"
     /\ \/ cached # NoData /\ Return(c, "cache", "kSuccess", cached)
        \/ /\ cached = NoData
           /\ Return(c, "cache", IF error_code[c] = "kSuccess" THEN "kNotInitialized"
                                 ELSE error_code[c], NoData)
     /\ UNCHANGED <<client, cache, account_id, credentials>>

-----------------------------------------------------------------------------
(* Specification *)

Init ==
  /\ initialized = FALSE /\ stub = FALSE
  /\ cache = [a \in Accounts |-> NoData]
  /\ pc = [c \in Callers |-> "idle"]
  /\ account_id = [c \in Callers |-> NoAccount]
  /\ rc = [c \in Callers |-> "none"]
  /\ error_code = [c \in Callers |-> "kSuccess"]
  /\ data = [c \in Callers |-> NoData]
  /\ reply = [c \in Callers |-> NoData]
  /\ credentials = [a \in Accounts |-> 0]

Step(c) == \/ TestClient(c) \/ RpcFails(c) \/ RpcAnswered(c)
           \/ StoreCredential(c) \/ ReadCache(c)

Client  == Open \/ ResetStub \/ EndShutdown
Service == (\E a \in Accounts : Issue(a)) \/ (\E c \in Callers : Serve(c))
Asking(c) == \E a \in Accounts : GetCredential(c, a)

Next == \/ Client \/ Service
        \/ \E c \in Callers : Asking(c) \/ Step(c)

\* The client opened, shut down and asked in any order and at the same time.
Spec == Init /\ [][Next]_vars

-----------------------------------------------------------------------------
(* Properties *)

Versions == 0 .. MaxVersion

\* Every variable has its type.
TypeOK ==
  /\ initialized \in BOOLEAN /\ stub \in BOOLEAN
  /\ cache \in [Accounts -> Versions \cup {NoData}]
  /\ pc \in [Callers -> {"idle", "test", "rpc", "store", "cache", "done"}]
  /\ account_id \in [Callers -> Accounts \cup {NoAccount}]
  /\ rc \in [Callers -> {"none", "closed", "failed", "ok"}]
  /\ error_code \in [Callers -> {"kSuccess", "kTimeout", "kNotInitialized"}]
  /\ data \in [Callers -> Versions \cup {NoData}]
  /\ reply \in [Callers -> Versions \cup {NoData}]
  /\ credentials \in [Accounts -> Versions]

Lookup == INSTANCE CachedLookup WITH
  Keys    <- Accounts, NoKey <- NoAccount, NoValue <- NoData,
  open    <- initialized,
  offered <- {entry \in Accounts \X Versions : entry[2] <= credentials[entry[1]]},
  known   <- cache,
  asked   <- account_id,
  heard   <- rc,
  told    <- [c \in Callers |-> CASE pc[c] = "idle" -> "idle"
                                 [] pc[c] = "done" -> error_code[c]
                                 [] OTHER -> "asked"],
  answer  <- data

\* Every call is answered as CachedLookup says, by what the client returned to it: with
\* a credential the service has issued for that account, from the cache only when the
\* client has none, and without one only while the bridge never had any, the caller
\* being told kNotInitialized if the bridge was closed and kTimeout if it was not,
\* whatever the threads and a Shutdown do meanwhile.
CredentialsAreLookedUp == Lookup!Spec

\* No RPC uses a stub that has been reset under it.
NoCallOnDeadStub == \A c \in Callers : pc[c] = "rpc" => stub
=============================================================================
