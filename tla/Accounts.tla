------------------------------ MODULE Accounts ------------------------------
(***************************************************************************)
(* Accounts, who administers them, and the first admin.  An admin changes   *)
(* the flags of any account; the first one is created when the server       *)
(* starts and the pool has none.                                           *)
(*                                                                         *)
(* A request is one step.  The creation of the first admin is two           *)
(* transactions of the start-up, and the process may end anywhere.          *)
(* Sessions are signed tokens: nothing ends them but their expiry, and what *)
(* they are good for is looked up when they are used.  Keys are rows, and   *)
(* last until they are revoked.  An account has one key of a scope and one  *)
(* worker at most here; WorkerKeys says which worker a key speaks for.      *)
(***************************************************************************)
EXTENDS Integers, FiniteSets

CONSTANTS
  Account,    \* user names
  First,      \* the user name of PRIMA_POOL_FIRST_ACCOUNT
  MayBeUnset, \* TRUE if the server is also started without that setting
  Switches,   \* the capabilities that a start may open to all accounts
  Patch,      \* bound: Patch[a] are the bodies of an admin's patch of a
  Provider,   \* bound: the accounts whose users do more than log in
  MaxCrashes  \* bound: how often the process ends

\* What a key of a scope is for, and what a flag or a switch permits.
Capability == {"work", "use"}
Password == {"first", "other"}

\* A field of a patch: absent, or the flag's new value.
Field == {"absent", "on", "off"}

ASSUME AccountAssumption ==
  /\ IsFiniteSet(Account)
  /\ First \in Account
  /\ MayBeUnset \in BOOLEAN
  /\ Switches \subseteq SUBSET Capability
  /\ Switches # {}
  /\ Patch \in [Account -> SUBSET [is_admin : Field, banned : Field,
                                   can : [Capability -> Field]]]
  /\ Provider \subseteq Account
  /\ MaxCrashes \in Nat

VARIABLES
  rows,      \* the accounts table
  keys,      \* the api_keys table: keys[a] are the scopes a has a key of
  devices,   \* the accounts with a row in the workers table
  process,   \* "down", "starting", "promoting" or "up"
  open,      \* the capabilities its settings open to all accounts
  sessions,  \* the accounts of which someone holds a session token
  sockets,   \* the accounts with a worker's WebSocket open
  actor,     \* whom the last step was a request of
  users,     \* history: the accounts registered by a request
  crashes

things == <<keys, devices>>
vars == <<rows, things, process, open, sessions, sockets, actor, users, crashes>>

Nobody == "nobody"

NoRow == [exists |-> FALSE, is_admin |-> FALSE, banned |-> FALSE, can |-> {},
          password |-> "first"]
NewRow == [NoRow EXCEPT !.exists = TRUE, !.can = {"use"}]

Row == [exists : BOOLEAN, is_admin : BOOLEAN, banned : BOOLEAN,
        can : SUBSET Capability, password : Password]

Admins == {a \in Account : rows[a].is_admin}
Standing(a) == rows[a].exists /\ ~rows[a].banned

TypeOK ==
  /\ rows \in [Account -> Row]
  /\ \A a \in Account : rows[a].is_admin \/ rows[a].banned => rows[a].exists
  /\ keys \in [Account -> SUBSET Capability]
  /\ devices \subseteq {a \in Account : rows[a].exists}
  /\ open \in SUBSET Capability
  /\ process \in {"down", "starting", "promoting", "up"}
  /\ sessions \subseteq Account
  /\ sockets \subseteq Account
  /\ actor \in Account \cup {Nobody}
  /\ users \subseteq {a \in Account : rows[a].exists}
  /\ crashes \in 0..MaxCrashes

-----------------------------------------------------------------------------
(* The process.                                                             *)

Start ==
  /\ process = "down"
  /\ process' = "starting"
  /\ open' \in Switches
  /\ actor' = Nobody
  /\ UNCHANGED <<rows, things, sessions, sockets, users, crashes>>

\* (mutant) whoever has the name is promoted.
BootstrapTakesOver ==
  /\ process = "starting"
  /\ \/ /\ MayBeUnset \/ Admins # {}
        /\ process' = "up"
        /\ UNCHANGED rows
     \/ /\ Admins = {}
        /\ process' = "promoting"
        /\ rows' = [rows EXCEPT ![First].exists = TRUE]
  /\ actor' = Nobody
  /\ UNCHANGED <<things, open, sessions, sockets, users, crashes>>

\* _bootstrap_first_account, up to create_account.
Bootstrap ==
  /\ process = "starting"
  /\ \/ /\ MayBeUnset \/ Admins # {} \/ rows[First].exists
        /\ process' = "up"
        /\ UNCHANGED rows
     \/ /\ Admins = {}
        /\ ~rows[First].exists
        /\ process' = "promoting"
        /\ rows' = [rows EXCEPT ![First] = NewRow]
  /\ actor' = Nobody
  /\ UNCHANGED <<things, open, sessions, sockets, users, crashes>>

\* Its second transaction.
Promote ==
  /\ process = "promoting"
  /\ rows' = [rows EXCEPT ![First].is_admin = TRUE]
  /\ process' = "up"
  /\ actor' = Nobody
  /\ UNCHANGED <<things, open, sessions, sockets, users, crashes>>

Crash ==
  /\ process # "down"
  /\ crashes < MaxCrashes
  /\ crashes' = crashes + 1
  /\ process' = "down"
  /\ sockets' = {}
  /\ actor' = Nobody
  /\ UNCHANGED <<rows, things, open, sessions, users>>

-----------------------------------------------------------------------------
(* Credentials and what they are good for.                                  *)

\* _session_account: the token is valid and its account not banned.
SessionAccount(a) == a \in sessions /\ Standing(a)

\* _api_key: the key's row exists and its account is not banned.
KeyAccount(a, scope) == scope \in keys[a] /\ Standing(a)

\* _can_work and _can_use.
Can(a, scope) == Standing(a) /\ scope \in rows[a].can \cup open

\* _worker_credential: a worker's key or its owner's session.
MayOperate(a) == a \in devices /\ (KeyAccount(a, "work") \/ SessionAccount(a))

RequestOf(a) == process = "up" /\ actor' = a /\ UNCHANGED <<process, open, crashes>>

-----------------------------------------------------------------------------
(* Requests about accounts.                                                 *)

RegisterAccount(a) ==
  /\ RequestOf(a)
  /\ ~rows[a].exists
  /\ rows' = [rows EXCEPT ![a] = NewRow]
  /\ users' = users \cup {a}
  /\ UNCHANGED <<things, sessions, sockets>>

Login(a, password) ==
  /\ RequestOf(a)
  /\ Standing(a)
  /\ password = rows[a].password
  /\ sessions' = sessions \cup {a}
  /\ UNCHANGED <<rows, things, sockets, users>>

SessionExpires(a) ==
  /\ a \in sessions
  /\ sessions' = sessions \ {a}
  /\ actor' = Nobody
  /\ UNCHANGED <<rows, things, process, open, sockets, users, crashes>>

\* POST /v1/accounts/{t}/password with a's session; sessions and keys stay.
ChangePassword(a, t, current, new) ==
  /\ RequestOf(a)
  /\ SessionAccount(a)
  /\ a = t
  /\ current = rows[t].password
  /\ rows' = [rows EXCEPT ![t].password = new]
  /\ UNCHANGED <<things, sessions, sockets, users>>

Patched(flag, field) == IF field = "absent" THEN flag ELSE field = "on"

\* (mutant) the last admin is counted with the one that is demoted.
IsLastAdminOffByOne(t, is_admin) ==
  is_admin = "off" /\ rows[t].is_admin /\ Cardinality(Admins) < 1

IsLastAdmin(t, is_admin) ==
  is_admin = "off" /\ rows[t].is_admin /\ Cardinality(Admins) <= 1

\* PATCH /v1/admin/accounts/{t} with a's session.
UpdateAccount(a, t, patch) ==
  /\ RequestOf(a)
  /\ SessionAccount(a)
  /\ rows[a].is_admin
  /\ rows[t].exists
  /\ ~IsLastAdmin(t, patch.is_admin)
  /\ rows' = [rows EXCEPT ![t].is_admin = Patched(@, patch.is_admin),
                          ![t].banned = Patched(@, patch.banned),
                          ![t].can = {s \in Capability : Patched(s \in @, patch.can[s])}]
  /\ UNCHANGED <<things, sessions, sockets, users>>

-----------------------------------------------------------------------------
(* Keys and workers.                                                        *)

\* POST and DELETE /v1/accounts/{a}/keys.
CreateKey(a, scope) ==
  /\ RequestOf(a)
  /\ SessionAccount(a)
  /\ keys' = [keys EXCEPT ![a] = @ \cup {scope}]
  /\ UNCHANGED <<rows, devices, sessions, sockets, users>>

RevokeKey(a, scope) ==
  /\ RequestOf(a)
  /\ SessionAccount(a)
  /\ scope \in keys[a]
  /\ keys' = [keys EXCEPT ![a] = @ \ {scope}]
  /\ UNCHANGED <<rows, devices, sessions, sockets, users>>

RegisterWorker(a) ==
  /\ RequestOf(a)
  /\ KeyAccount(a, "work")
  /\ Can(a, "work")
  /\ devices' = devices \cup {a}
  /\ UNCHANGED <<rows, keys, sessions, sockets, users>>

\* A heartbeat, or another call that changes nothing of accounts.
OperateWorker(a) ==
  /\ RequestOf(a)
  /\ MayOperate(a)
  /\ UNCHANGED <<rows, things, sessions, sockets, users>>

RevokeWorker(a) ==
  /\ RequestOf(a)
  /\ MayOperate(a)
  /\ devices' = devices \ {a}
  /\ UNCHANGED <<rows, keys, sessions, sockets, users>>

\* A request for inference; InferenceProxy says what becomes of it.
Infer(a) ==
  /\ RequestOf(a)
  /\ KeyAccount(a, "use")
  /\ Can(a, "use")
  /\ UNCHANGED <<rows, things, sessions, sockets, users>>

\* A worker's WebSocket: who opens it is looked up once.
OpenSocket(a) ==
  /\ RequestOf(a)
  /\ MayOperate(a)
  /\ sockets' = sockets \cup {a}
  /\ UNCHANGED <<rows, things, sessions, users>>

SocketCloses(a) ==
  /\ a \in sockets
  /\ sockets' = sockets \ {a}
  /\ actor' = Nobody
  /\ UNCHANGED <<rows, things, process, open, sessions, users, crashes>>

\* A frame on it is handled.
SocketFrame(a) ==
  /\ RequestOf(a)
  /\ a \in sockets
  /\ UNCHANGED <<rows, things, sessions, sockets, users>>

-----------------------------------------------------------------------------

Init ==
  /\ rows = [a \in Account |-> NoRow]
  /\ keys = [a \in Account |-> {}]
  /\ devices = {}
  /\ process = "down"
  /\ open = {}
  /\ sessions = {}
  /\ sockets = {}
  /\ actor = Nobody
  /\ users = {}
  /\ crashes = 0

Request(a) ==
  \/ RegisterAccount(a)
  \/ \E password \in Password : Login(a, password)
  \/ \E t \in Account : \E patch \in Patch[t] : UpdateAccount(a, t, patch)

\* What only the user of a provider has reason to ask for.
ProviderRequest(a) ==
  \/ \E t \in Account, current, new \in Password : ChangePassword(a, t, current, new)
  \/ \E scope \in Capability : CreateKey(a, scope)
  \/ \E scope \in Capability : RevokeKey(a, scope)
  \/ RegisterWorker(a)
  \/ OperateWorker(a)
  \/ RevokeWorker(a)
  \/ Infer(a)
  \/ OpenSocket(a)
  \/ SocketFrame(a)

Next ==
  \/ Start
  \/ Bootstrap
  \/ Promote
  \/ Crash
  \/ \E a \in Account : Request(a) \/ SessionExpires(a) \/ SocketCloses(a)
  \/ \E a \in Provider : ProviderRequest(a)

Spec == Init /\ [][Next]_vars

-----------------------------------------------------------------------------

\* Once the pool has an admin it always has one: no order of demotions, by
\* several admins or of oneself, and no restart takes the last one away.
AdminRemains == [][Admins # {} => Admins' # {}]_vars

Rights(row) == [row EXCEPT !.password = "first"]

\* The rights of an account change by the hand of an admin who is not banned,
\* whenever the session was issued; the start-up promotes nobody who
\* registered, the configured name or not.  A password, the keys and the worker
\* of an account change by requests of its own, made in good standing: no admin
\* and no start-up touches them, and a ban leaves them as they are.
Authority ==
  [][\A a \in Account :
       /\ rows[a].exists /\ Rights(rows'[a]) # Rights(rows[a]) =>
            \/ actor' \in Admins /\ Standing(actor')
            \/ process = "promoting" /\ a = First /\ a \notin users
       /\ \/ rows[a].exists /\ rows'[a].password # rows[a].password
          \/ keys'[a] # keys[a]
          \/ (a \in devices') # (a \in devices)
          => actor' = a /\ Standing(a)]_vars

\* A comment in _bootstrap_first_account: a fresh deploy gains an operator.
OperatorExists == process = "up" => Admins # {}

\* A comment in admin_update_account: the pool must always have an admin.  One
\* that is banned is none.
SomeoneAdministers == Admins # {} => \E a \in Admins : Standing(a)

\* README.md: a ban overrides everything, the WebSocket too.
BannedIsGone == [][actor' # Nobody => ~rows[actor'].banned]_vars

\* README.md: can_work permits an account to register and to operate workers.
WorkersPermitted ==
  process = "up" => \A a \in Account : MayOperate(a) => Can(a, "work")
=============================================================================
