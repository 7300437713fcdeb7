------------------------------- MODULE Gateway -------------------------------
(***************************************************************************)
(* The edge of the platform, one replica of services/gateway: registration *)
(* and tokens, the admission of requests that carry a token, forwarding to *)
(* the services behind it and the platform status with its cache.          *)
(*                                                                         *)
(* Requests interleave at every await.  get_session commits when it is     *)
(* left; the pinned framework leaves it after the answer has been sent, so *)
(* the commit of a registration may fail when its tokens are already out.  *)
(*                                                                         *)
(* Of the tokens of a user, the ones with the latest expiry stand for all: *)
(* no other token is accepted longer.                                      *)
(***************************************************************************)
EXTENDS Integers, FiniteSets

CONSTANTS Request,        \* requests in progress at the same time
          Spelling,       \* what clients type as email address
          LowerOf,        \* str.lower on Spelling
          Service,        \* the services behind the gateway
          AccessTTL,      \* jwt_expire_minutes (60 minutes)
          RefreshTTL,     \* life of a refresh token (30 days)
          CacheSeconds,   \* CACHE_SECONDS (5)
          ProbeSeconds,   \* PROBE_TIMEOUT_SECONDS (2), the timeout of every single wait of a probe
          ProbeWaits,     \* waits a probe may consist of, see Wait: assumed, not in the code
          HandlerSeconds, \* longest the database, bcrypt and the queue hold a handler: assumed, not in the code
          MaxUsers, MaxTime  \* bound the model

ASSUME GatewayAssumption ==
  /\ {AccessTTL, RefreshTTL, CacheSeconds, ProbeSeconds, ProbeWaits, MaxUsers, MaxTime} \subseteq Nat \ {0}
  /\ HandlerSeconds \in Nat
  /\ LowerOf \in [Spelling -> Spelling]
  /\ \A spelling \in Spelling : LowerOf[LowerOf[spelling]] = LowerOf[spelling]
  /\ "none" \notin Spelling

VARIABLES now,       \* seconds, the same on all clocks here
          users,     \* the users table: what is committed under an id
          ids,       \* ids given out
          issued,    \* latest expiry of the access and refresh tokens of an id
          req,       \* the requests
          cache,     \* app.state.status_cache: when it was stored, when each part was observed
          disabled,  \* history: when a user was disabled
          admitted,  \* history: when a request of a user was last let in
          shown      \* history: the status last shown, and when

vars == <<now, users, ids, issued, req, cache, disabled, admitted, shown>>

Never == -1
Id == 1..MaxUsers
Part == Service \cup {"gateway"}

NoUser == [email |-> "none", active |-> FALSE, accounts |-> 0]
NoTokens == [access |-> 0, refresh |-> 0]
Unseen == [p \in Part |-> Never]
NoWait == [number |-> 0, since |-> 0]
Idle == [pc |-> "idle", id |-> 0, user |-> NoUser, since |-> 0, seen |-> Unseen,
         wait |-> [p \in Part |-> NoWait]]

Init ==
  /\ now = 0
  /\ users = [i \in Id |-> NoUser] /\ ids = 0
  /\ issued = [i \in Id |-> NoTokens]
  /\ req = [r \in Request |-> Idle]
  /\ cache = [at |-> Never, seen |-> Unseen]
  /\ disabled = [i \in Id |-> Never] /\ admitted = [i \in Id |-> Never]
  /\ shown = [at |-> 0, seen |-> [p \in Part |-> 0]]

\* The request goes on with a user, or the id of one; all probes of a round begin to wait.
Start(r, pc, id, user) ==
  req' = [req EXCEPT ![r] = [pc |-> pc, id |-> id, user |-> user, since |-> now, seen |-> Unseen,
                             wait |-> [p \in Part |-> IF pc = "probing" THEN [number |-> 1, since |-> now] ELSE NoWait]]]

Continue(r, pc, id, user) ==
  req' = [req EXCEPT ![r] = [pc |-> pc, id |-> id, user |-> user,
                             since |-> req[r].since, seen |-> req[r].seen, wait |-> req[r].wait]]

accounts == <<users, ids, disabled>>
status == <<cache, shown>>

\* The request ends with a status code, on which nothing in the gateway depends afterwards.
Answer(r, code) == code \in 200..599 /\ req' = [req EXCEPT ![r] = Idle]

-----------------------------------------------------------------------------
(* Registration. *)

\* Mutant: the address is stored and looked up as it was typed.
as_typed(spelling) == spelling

\* UserRepository: both create and get_by_email use the address in lower case.
address(spelling) == LowerOf[spelling]

\* get_by_email, on what is committed.
get_by_email(email) == {i \in Id : users[i].email = email}

\* POST /auth/register: the address is looked up; then the password is hashed.
Register(r, spelling) ==
  /\ req[r].pc = "idle"
  /\ \/ /\ get_by_email(address(spelling)) # {}
        /\ Answer(r, 409)
     \/ /\ get_by_email(address(spelling)) = {}
        /\ Start(r, "hashing", 0, [email |-> address(spelling), active |-> TRUE, accounts |-> 0])
  /\ UNCHANGED <<now, accounts, issued, admitted, status>>

\* Requests whose transaction holds a row with this address that is not committed.
Holding(email) ==
  {q \in Request : req[q].pc \in {"created", "opened", "committing"} /\ req[q].user.email = email}

(***************************************************************************)
(* users.create: the flush inserts the row under the unique index on       *)
(* email.  It waits for a transaction that has inserted the same address;  *)
(* if that one has committed the insert raises, which answers 500.         *)
(***************************************************************************)
CreateUser(r) ==
  /\ req[r].pc = "hashing" /\ ids < MaxUsers
  /\ Holding(req[r].user.email) = {}
  /\ \/ /\ get_by_email(req[r].user.email) # {}
        /\ Answer(r, 500)
        /\ UNCHANGED ids
     \/ /\ get_by_email(req[r].user.email) = {}
        /\ ids' = ids + 1
        /\ Continue(r, "created", ids', req[r].user)
  /\ UNCHANGED <<now, users, disabled, issued, admitted, status>>

\* AccountRepository.create: the starter account, in the same transaction.
OpenAccount(r) ==
  /\ req[r].pc = "created"
  /\ Continue(r, "opened", req[r].id, [req[r].user EXCEPT !.accounts = 1])
  /\ UNCHANGED <<now, accounts, issued, admitted, status>>

\* The database fails under the handler: get_session rolls back.
Rollback(r) ==
  /\ req[r].pc \in {"hashing", "created", "opened"}
  /\ Answer(r, 500)
  /\ UNCHANGED <<now, accounts, issued, admitted, status>>

\* _tokens: a new pair.
Issue(id) ==
  issued' = [issued EXCEPT ![id] = [access |-> now + AccessTTL, refresh |-> now + RefreshTTL]]

\* The handler returns the tokens and the answer is sent.
Registered(r) ==
  /\ req[r].pc = "opened"
  /\ Issue(req[r].id)
  /\ Continue(r, "committing", req[r].id, req[r].user)
  /\ UNCHANGED <<now, accounts, admitted, status>>

\* get_session is left: the commit succeeds, or it fails and nobody learns of it.
Commit(r) ==
  /\ req[r].pc = "committing"
  /\ users' \in {users, [users EXCEPT ![req[r].id] = req[r].user]}
  /\ Answer(r, 201)
  /\ UNCHANGED <<now, ids, disabled, issued, admitted, status>>

-----------------------------------------------------------------------------
(* Tokens. *)

\* Mutant: the type claim is not compared.
AnyToken(id, type) == now < issued[id].access \/ now < issued[id].refresh

\* decode_token: a signed token of this type that has not expired.
decode_token(id, type) == now < issued[id][type]

\* POST /auth/login with the right password: the row is loaded, then the password is compared.
Login(r, spelling) ==
  /\ req[r].pc = "idle"
  /\ \/ /\ get_by_email(address(spelling)) = {}
        /\ Answer(r, 401)
     \/ \E i \in get_by_email(address(spelling)) :
          Start(r, "signing", i, users[i])
  /\ UNCHANGED <<now, accounts, issued, admitted, status>>

\* POST /auth/refresh: the token is decoded, then the row is loaded.
Refresh(r, i) ==
  /\ req[r].pc = "idle" /\ issued[i] # NoTokens
  /\ \/ /\ ~decode_token(i, "refresh") \/ users[i] = NoUser
        /\ Answer(r, 401)
     \/ /\ decode_token(i, "refresh") /\ users[i] # NoUser
        /\ Start(r, "signing", i, users[i])
  /\ UNCHANGED <<now, accounts, issued, admitted, status>>

\* Both go on with the row they have loaded.
Sign(r) ==
  /\ req[r].pc = "signing"
  /\ \/ ~req[r].user.active /\ Answer(r, 401) /\ UNCHANGED issued
     \/ req[r].user.active /\ Issue(req[r].id) /\ Answer(r, 200)
  /\ UNCHANGED <<now, accounts, admitted, status>>

\* The operator disables a user in the database (external: no endpoint does).
Disable(i) ==
  /\ users[i].active
  /\ users' = [users EXCEPT ![i].active = FALSE]
  /\ disabled' = [disabled EXCEPT ![i] = now]
  /\ UNCHANGED <<now, ids, issued, req, admitted, status>>

-----------------------------------------------------------------------------
(* Requests with an access token. *)

\* end_user_id lets the request in; nothing is looked up.
end_user_id(i) ==
  /\ decode_token(i, "access")
  /\ admitted' = [admitted EXCEPT ![i] = now]

\* A request with a token that is no longer good.
Refuse(r, i) ==
  /\ req[r].pc = "idle" /\ issued[i] # NoTokens
  /\ ~decode_token(i, "access")
  /\ Answer(r, 401)
  /\ UNCHANGED <<now, accounts, issued, admitted, status>>

\* GET /auth/me: the row is looked up, whether it is active is not asked.
Me(r, i) ==
  /\ req[r].pc = "idle" /\ end_user_id(i)
  /\ Answer(r, IF users[i] = NoUser THEN 401 ELSE 200)
  /\ UNCHANGED <<now, accounts, issued, status>>

\* proxy: unknown service, over the limit, or forwarded with the identity of the token.
Proxy(r, i) ==
  /\ req[r].pc = "idle" /\ end_user_id(i)
  /\ \/ \E code \in {404, 429} : Answer(r, code)
     \/ Start(r, "forwarded", i, NoUser)
  /\ UNCHANGED <<now, accounts, issued, status>>

\* forward: the service answers, or is unreachable or too slow.
Forwarded(r) ==
  /\ req[r].pc = "forwarded"
  /\ \E code \in {200, 502} : Answer(r, code)
  /\ UNCHANGED <<now, accounts, issued, admitted, status>>

-----------------------------------------------------------------------------
(* Platform status. *)

\* A status goes out.
Show(seen) == shown' = [at |-> now, seen |-> seen]

\* Mutant: a hit renews the entry.
HitRenews(r) ==
  /\ cache.at # Never /\ now - cache.at < CacheSeconds
  /\ Show(cache.seen) /\ Answer(r, 200)
  /\ cache' = [cache EXCEPT !.at = now]

\* The entry is young enough.
Hit(r) ==
  /\ cache.at # Never /\ now - cache.at < CacheSeconds
  /\ Show(cache.seen) /\ Answer(r, 200)
  /\ UNCHANGED cache

\* GET /status: over the limit, from the cache, or a round of probes, whoever else is at it.
PlatformStatus(r, i) ==
  /\ req[r].pc = "idle" /\ end_user_id(i)
  /\ \/ Answer(r, 429) /\ UNCHANGED status
     \/ Hit(r)
     \/ /\ cache.at = Never \/ now - cache.at >= CacheSeconds
        /\ Start(r, "probing", 0, NoUser)
        /\ UNCHANGED status
  /\ UNCHANGED <<now, accounts, issued>>

(***************************************************************************)
(* client.get(url, timeout=...): httpx allows that time to every wait, for  *)
(* a connection of the pool, to connect, to write and for each piece of    *)
(* the answer, and nothing limits them together.  One of them is over, and *)
(* the next begins.                                                        *)
(***************************************************************************)
Wait(r, s) ==
  /\ req[r].pc = "probing" /\ req[r].seen[s] = Never
  /\ req[r].wait[s].number < ProbeWaits
  /\ req' = [req EXCEPT ![r].wait[s] = [number |-> req[r].wait[s].number + 1, since |-> now]]
  /\ UNCHANGED <<now, accounts, issued, admitted, status>>

\* _probe, _gateway_state: one part of the platform is found ready, or not, or does not answer.
Probe(r, p) ==
  /\ req[r].pc = "probing" /\ req[r].seen[p] = Never
  /\ req' = [req EXCEPT ![r] = [@ EXCEPT !.seen[p] = now, !.wait[p] = NoWait]]
  /\ UNCHANGED <<now, accounts, issued, admitted, status>>

\* gather is complete: the result is stored, over that of any other round, and shown.
StoreStatus(r) ==
  /\ req[r].pc = "probing" /\ Never \notin {req[r].seen[p] : p \in Part}
  /\ cache' = [at |-> now, seen |-> req[r].seen]
  /\ Show(req[r].seen) /\ Answer(r, 200)
  /\ UNCHANGED <<now, accounts, issued, admitted>>

-----------------------------------------------------------------------------
(***************************************************************************)
(* No wait of a probe lasts longer than PROBE_TIMEOUT_SECONDS; for all     *)
(* else, a round's SELECT 1 included, a handler waits HandlerSeconds at    *)
(* most.  What it does between two awaits takes no time.                   *)
(***************************************************************************)
Overdue(r) ==
  \/ req[r].pc \notin {"idle", "forwarded", "probing"} /\ now >= req[r].since + HandlerSeconds
  \/ req[r].pc = "probing" /\ \/ req[r].seen["gateway"] = Never /\ now >= req[r].since + HandlerSeconds
                              \/ \E s \in Service : req[r].seen[s] = Never /\ now >= req[r].wait[s].since + ProbeSeconds
                              \/ Never \notin {req[r].seen[p] : p \in Part}

Tick ==
  /\ now < MaxTime
  /\ \A r \in Request : ~Overdue(r)
  /\ now' = now + 1
  /\ UNCHANGED <<accounts, issued, req, admitted, status>>

Next ==
  \/ Tick
  \/ \E i \in Id : Disable(i)
  \/ \E r \in Request :
       \/ CreateUser(r) \/ OpenAccount(r) \/ Rollback(r) \/ Registered(r) \/ Commit(r) \/ Sign(r)
       \/ Forwarded(r) \/ StoreStatus(r)
       \/ \E p \in Part : Probe(r, p)
       \/ \E s \in Service : Wait(r, s)
       \/ \E spelling \in Spelling : Register(r, spelling) \/ Login(r, spelling)
       \/ \E i \in Id : Refresh(r, i) \/ Refuse(r, i) \/ Me(r, i) \/ Proxy(r, i) \/ PlatformStatus(r, i)

Spec == Init /\ [][Next]_vars

-----------------------------------------------------------------------------
(* Properties. *)

(***************************************************************************)
(* However registrations of one address race, fail and are repeated, with  *)
(* whatever capital letters: one user has the address, and every user has  *)
(* the one starter account ("A user with no account cannot ingest          *)
(* anything").                                                             *)
(***************************************************************************)
UsersCanIngest ==
  \A i, j \in Id : users[i] # NoUser =>
    /\ users[i].accounts = 1
    /\ users[j] # NoUser /\ LowerOf[users[i].email] = LowerOf[users[j].email] => i = j

(***************************************************************************)
(* Tokens are not revoked, yet a user who is disabled is out soon: the     *)
(* last request is let in less than the life of an access token later,     *)
(* and the time a login or refresh that had read the row before may take.  *)
(***************************************************************************)
AccessEnds ==
  \A i \in Id : disabled[i] # Never => admitted[i] < disabled[i] + AccessTTL + HandlerSeconds

\* The longest a round of probes takes: its probes use up every wait, or the database is slower.
Round == IF HandlerSeconds > ProbeWaits * ProbeSeconds THEN HandlerSeconds ELSE ProbeWaits * ProbeSeconds

(***************************************************************************)
(* However many rounds of probes overlap and overwrite each other's entry, *)
(* what the status card is shown was found out less than a cache window    *)
(* and one round ago, where a round is as long as all waits of a probe.    *)
(***************************************************************************)
StatusFresh == \A p \in Part : shown.at - shown.seen[p] < CacheSeconds + Round

-----------------------------------------------------------------------------
(* The inductive invariant behind the three properties, in parts. *)

Time == Nat \cup {Never}
UserRow == [email : Spelling \cup {"none"}, active : BOOLEAN, accounts : 0..1]
Pc == {"idle", "hashing", "created", "opened", "committing", "signing", "forwarded", "probing"}
ReqState == [pc : Pc, id : 0..MaxUsers, user : UserRow, since : Nat, seen : [Part -> Time],
             wait : [Part -> [number : 0..ProbeWaits, since : Nat]]]

TypeOK ==
  /\ now \in Nat
  /\ users \in [Id -> UserRow]
  /\ ids \in 0..MaxUsers
  /\ issued \in [Id -> [access : Nat, refresh : Nat]]
  /\ req \in [Request -> ReqState]
  /\ cache \in [at : Time, seen : [Part -> Time]]
  /\ disabled \in [Id -> Time]
  /\ admitted \in [Id -> Time]
  /\ shown \in [at : Nat, seen : [Part -> Time]]

\* A request that has a row inserted and not committed.
Holds(r) == req[r].pc \in {"created", "opened", "committing"}

\* The committed users: a starter account each, and an address of their own, in lower case.
UsersSound ==
  \A i \in Id : users[i] # NoUser =>
    /\ i <= ids /\ users[i].accounts = 1
    /\ users[i].email \in Spelling /\ LowerOf[users[i].email] = users[i].email
    /\ \A j \in Id : users[j].email = users[i].email => j = i

\* The address of a registration in progress is in lower case.
AddressesLowered ==
  \A r \in Request : req[r].pc = "hashing" \/ Holds(r) =>
    req[r].user.email \in Spelling /\ LowerOf[req[r].user.email] = req[r].user.email

\* A row that is not committed has an id and an address nobody else has.
HeldIsNew ==
  \A r \in Request : Holds(r) =>
    /\ req[r].id \in 1..ids /\ users[req[r].id] = NoUser
    /\ req[r].pc # "created" => req[r].user.accounts = 1
    /\ get_by_email(req[r].user.email) = {}
    /\ \A q \in Request :
         Holds(q) /\ (req[q].id = req[r].id \/ req[q].user.email = req[r].user.email) => q = r

\* A handler has not run longer than it may.
InTime ==
  \A r \in Request : req[r].pc \notin {"idle", "forwarded", "probing"} =>
    req[r].since <= now /\ now <= req[r].since + HandlerSeconds

\* A disabled user is known, and not active.
DisabledIsKnown ==
  \A i \in Id : disabled[i] # Never =>
    disabled[i] <= now /\ users[i] # NoUser /\ ~users[i].active

\* A login or refresh that found a user active read the row before the user was disabled.
ReadBefore ==
  \A r \in Request : req[r].pc = "signing" =>
    /\ req[r].id \in Id
    /\ req[r].user.active /\ disabled[req[r].id] # Never => req[r].since <= disabled[req[r].id]

\* No token outlives its life, and those of a disabled user end in time.
TokensEnd ==
  \A i \in Id :
    /\ issued[i].access <= now + AccessTTL
    /\ admitted[i] <= now
    /\ disabled[i] # Never => issued[i].access <= disabled[i] + AccessTTL + HandlerSeconds

\* A round of probes: what it has seen, it has seen since it began, and it is not over time.
RoundsInTime ==
  \A r \in Request : req[r].pc = "probing" =>
    /\ req[r].since <= now /\ now <= req[r].since + Round
    /\ \A p \in Part : req[r].seen[p] = Never \/ req[r].since <= req[r].seen[p]

\* A wait of a probe begins when those before it are over, each of them in time.
WaitsInTime ==
  \A r \in Request, s \in Service : req[r].pc = "probing" /\ req[r].seen[s] = Never =>
    LET w == req[r].wait[s]
    IN  /\ w.number > 0
        /\ w.since <= now /\ now <= w.since + ProbeSeconds
        /\ w.since <= req[r].since + (w.number - 1) * ProbeSeconds

\* The entry was fresh when it was stored.
CacheFresh ==
  cache.at # Never =>
    cache.at <= now /\ \A p \in Part : cache.seen[p] # Never /\ cache.at - cache.seen[p] <= Round

IInv ==
  /\ TypeOK
  /\ UsersSound
  /\ AddressesLowered
  /\ HeldIsNew
  /\ InTime
  /\ DisabledIsKnown
  /\ ReadBefore
  /\ TokensEnd
  /\ RoundsInTime
  /\ WaitsInTime
  /\ CacheFresh
  /\ AccessEnds
  /\ StatusFresh
=============================================================================
