---------------------------- MODULE GatewayProofs ----------------------------
(***************************************************************************)
(* Proofs about Gateway, for any number of concurrent requests, spellings, *)
(* services and users, and any lifetimes and timeouts; and, in the second  *)
(* part, about the buckets of its rate limiter (TokenBucket), for any      *)
(* capacity, refill, cost and skew.                                        *)
(***************************************************************************)
EXTENDS Gateway, TokenBucket, TLAPS

\* The constants that are numbers.
LEMMA Numbers ==
  /\ AccessTTL \in Nat /\ AccessTTL > 0
  /\ RefreshTTL \in Nat
  /\ CacheSeconds \in Nat /\ CacheSeconds > 0
  /\ ProbeSeconds \in Nat /\ ProbeSeconds > 0
  /\ HandlerSeconds \in Nat
  /\ MaxUsers \in Nat
  /\ ProbeWaits \in Nat /\ ProbeWaits > 0
  /\ Round \in Nat /\ HandlerSeconds <= Round
<1>1. ProbeWaits * ProbeSeconds \in Nat
  BY GatewayAssumption
<1>2. QED
  BY <1>1, GatewayAssumption DEF Round

\* The last of the waits ends with the round.
LEMMA WaitsFit ==
  ASSUME NEW k \in 1..ProbeWaits
  PROVE  /\ (k - 1) * ProbeSeconds \in Nat
         /\ (k - 1) * ProbeSeconds + ProbeSeconds = k * ProbeSeconds
         /\ k * ProbeSeconds <= Round
<1>1. /\ ProbeSeconds \in Nat /\ ProbeWaits \in Nat /\ HandlerSeconds \in Nat
      /\ k \in Nat /\ k - 1 \in Nat /\ ProbeWaits - k \in Nat
  BY GatewayAssumption
<1>2. /\ (k - 1) * ProbeSeconds \in Nat
      /\ (k - 1) * ProbeSeconds = k * ProbeSeconds - ProbeSeconds
  BY <1>1
<1>3. /\ (ProbeWaits - k) * ProbeSeconds \in Nat
      /\ (ProbeWaits - k) * ProbeSeconds = ProbeWaits * ProbeSeconds - k * ProbeSeconds
      /\ k * ProbeSeconds \in Nat /\ ProbeWaits * ProbeSeconds \in Nat
  BY <1>1
<1>4. k * ProbeSeconds <= ProbeWaits * ProbeSeconds
  BY <1>3
<1>5. ProbeWaits * ProbeSeconds <= Round
  BY <1>1, <1>3 DEF Round
<1>6. k * ProbeSeconds <= Round
  BY <1>3, <1>4, <1>5, Numbers
<1>7. QED
  BY <1>1, <1>2, <1>3, <1>6

\* The addresses.
LEMMA Addresses ==
  /\ LowerOf \in [Spelling -> Spelling]
  /\ \A spelling \in Spelling : LowerOf[LowerOf[spelling]] = LowerOf[spelling]
  /\ "none" \notin Spelling
BY GatewayAssumption

\* What a request is made of.
LEMMA IdleType ==
  /\ NoUser \in UserRow /\ Unseen \in [Part -> Time]
  /\ Idle \in ReqState /\ [p \in Part |-> NoWait] \in [Part -> [number : 0..ProbeWaits, since : Nat]]
BY Numbers DEF Idle, NoUser, Unseen, NoWait, Pc, UserRow, Time, Never, ReqState

-----------------------------------------------------------------------------
(* Requests that change nothing but themselves. *)

\* Letting a request in keeps the bound of AccessEnds: it needs a token that is still good.
LEMMA Admission ==
  ASSUME IInv, NEW i \in Id, end_user_id(i), UNCHANGED <<now, disabled, issued>>
  PROVE  admitted' \in [Id -> Time] /\ TokensEnd' /\ AccessEnds'
<1> USE Numbers
<1>1. now \in Nat /\ issued[i].access \in Nat /\ now < issued[i].access
  BY DEF IInv, TypeOK, end_user_id, decode_token
<1>2. /\ admitted' \in [Id -> Time] /\ admitted'[i] = now
      /\ \A j \in Id : j # i => admitted'[j] = admitted[j]
  BY <1>1 DEF IInv, TypeOK, Time, end_user_id
<1>3. TokensEnd'
  BY <1>1, <1>2 DEF IInv, TokensEnd
<1>4. disabled[i] # Never => now < disabled[i] + AccessTTL + HandlerSeconds
  <2>1. disabled[i] # Never =>
          issued[i].access <= disabled[i] + AccessTTL + HandlerSeconds /\ disabled[i] \in Nat
    BY DEF IInv, TokensEnd, TypeOK, Time
  <2>2. QED
    BY <1>1, <2>1
<1>5. AccessEnds'
  BY <1>2, <1>4 DEF IInv, AccessEnds
<1>6. QED
  BY <1>2, <1>3, <1>5

\* Nothing is registered, stored or issued, and at most a request let in.
StartsNothing ==
  /\ UNCHANGED <<now, users, ids, disabled, issued, cache, shown>>
  /\ UNCHANGED admitted \/ \E i \in Id : end_user_id(i)

\* A request that ends, or waits for a service, is in nobody's way.
LEMMA EndStep ==
  ASSUME IInv, StartsNothing, NEW r \in Request,
         \/ req' = [req EXCEPT ![r] = Idle]
         \/ \E i \in Id : Start(r, "forwarded", i, NoUser)
  PROVE  IInv'
<1> USE Numbers
<1>1. /\ \A q \in Request : q # r => req'[q] = req[q]
      /\ req'[r].pc \in {"idle", "forwarded"}
      /\ req' \in [Request -> ReqState]
  <2>1. CASE req' = [req EXCEPT ![r] = Idle]
    <3>1. Idle.pc = "idle"
      BY DEF Idle
    <3>2. QED
      BY <2>1, <3>1, IdleType DEF IInv, TypeOK
  <2>2. ASSUME NEW i \in Id, Start(r, "forwarded", i, NoUser)
        PROVE  /\ \A q \in Request : q # r => req'[q] = req[q]
               /\ req'[r].pc \in {"idle", "forwarded"}
               /\ req' \in [Request -> ReqState]
    BY <2>2, IdleType DEF IInv, TypeOK, Start, ReqState, Pc, Id
  <2>3. QED
    BY <2>1, <2>2
<1>2. admitted' \in [Id -> Time] /\ TokensEnd' /\ AccessEnds'
  <2>1. CASE UNCHANGED admitted
    BY <2>1 DEF IInv, TypeOK, StartsNothing, TokensEnd, AccessEnds
  <2>2. CASE \E i \in Id : end_user_id(i)
    BY <2>2, Admission DEF StartsNothing
  <2>3. QED
    BY <2>1, <2>2 DEF StartsNothing
<1>3. TypeOK'
  BY <1>1, <1>2 DEF IInv, TypeOK, StartsNothing
<1>4. UsersSound' /\ AddressesLowered' /\ HeldIsNew'
  <2>1. UsersSound'
    BY DEF IInv, StartsNothing, UsersSound
  <2>2. \A q \in Request : Holds(q)' => q # r /\ Holds(q) /\ req'[q] = req[q]
    BY <1>1 DEF Holds
  <2>3. AddressesLowered'
    BY <1>1, <2>2 DEF IInv, AddressesLowered
  <2>4. HeldIsNew'
    <3>1. \A email : get_by_email(email)' = get_by_email(email)
      BY DEF StartsNothing, get_by_email
    <3>2. HeldIsNew
      BY DEF IInv
    <3>3. users' = users /\ ids' = ids
      BY DEF StartsNothing
    <3>4. QED
      BY <2>2, <3>1, <3>2, <3>3 DEF HeldIsNew
  <2>5. QED
    BY <2>1, <2>3, <2>4
<1>5. InTime' /\ DisabledIsKnown' /\ ReadBefore' /\ RoundsInTime' /\ WaitsInTime'
  BY <1>1 DEF IInv, StartsNothing, InTime, DisabledIsKnown, ReadBefore, RoundsInTime, WaitsInTime
<1>6. CacheFresh' /\ StatusFresh'
  BY DEF IInv, StartsNothing, CacheFresh, StatusFresh
<1>7. QED
  BY <1>2, <1>4, <1>5, <1>6, <1>3 DEF IInv

-----------------------------------------------------------------------------
(* Registration. *)

\* What is left alone when neither users nor tokens nor the cache change.
LEMMA OnlyRequests ==
  ASSUME IInv, <<now, users, ids, disabled, issued, admitted, cache, shown>>' =
               <<now, users, ids, disabled, issued, admitted, cache, shown>>
  PROVE  /\ UsersSound' /\ DisabledIsKnown' /\ TokensEnd' /\ CacheFresh' /\ AccessEnds' /\ StatusFresh'
         /\ \A email : get_by_email(email)' = get_by_email(email)
         /\ req' \in [Request -> ReqState] => TypeOK'
<1>1. UsersSound' /\ DisabledIsKnown' /\ TokensEnd'
  BY DEF IInv, UsersSound, DisabledIsKnown, TokensEnd
<1>2. CacheFresh' /\ AccessEnds' /\ StatusFresh'
  BY DEF IInv, CacheFresh, AccessEnds, StatusFresh
<1>3. \A email : get_by_email(email)' = get_by_email(email)
  BY DEF get_by_email
<1>4. req' \in [Request -> ReqState] => TypeOK'
  BY DEF IInv, TypeOK
<1>5. QED
  BY <1>1, <1>2, <1>3, <1>4

\* A registration begins, with its address in lower case.
LEMMA RegisterStep ==
  ASSUME IInv, NEW r \in Request, NEW spelling \in Spelling,
         Start(r, "hashing", 0, [email |-> address(spelling), active |-> TRUE, accounts |-> 0]),
         UNCHANGED <<now, users, ids, disabled, issued, admitted, cache, shown>>
  PROVE  IInv'
<1> USE Numbers
<1> DEFINE user == [email |-> address(spelling), active |-> TRUE, accounts |-> 0]
<1>1. user \in UserRow /\ user.email \in Spelling /\ LowerOf[user.email] = user.email
  BY Addresses DEF UserRow, address
<1>2. /\ \A q \in Request : q # r => req'[q] = req[q]
      /\ req'[r].pc = "hashing" /\ req'[r].user = user /\ req'[r].since = now
      /\ req' \in [Request -> ReqState]
  <2> DEFINE new == [pc |-> "hashing", id |-> 0, user |-> user, since |-> now, seen |-> Unseen,
                     wait |-> [p \in Part |-> NoWait]]
  <2>1. req' = [req EXCEPT ![r] = new]
    BY DEF Start
  <2> HIDE DEF user
  <2>2. new \in ReqState /\ new.pc = "hashing" /\ new.user = user /\ new.since = now
    BY <1>1, IdleType DEF IInv, TypeOK, ReqState, Pc
  <2> HIDE DEF new
  <2>3. req \in [Request -> ReqState]
    BY DEF IInv, TypeOK
  <2>4. QED
    BY ONLY <2>1, <2>2, <2>3
<1> HIDE DEF user
<1>3. AddressesLowered'
  BY <1>1, <1>2 DEF IInv, AddressesLowered, Holds
<1>4. HeldIsNew'
  <2>1. \A q \in Request : Holds(q)' => q # r /\ Holds(q) /\ req'[q] = req[q]
    BY <1>2 DEF Holds
  <2>2. \A email : get_by_email(email)' = get_by_email(email)
    BY OnlyRequests
  <2>3. QED
    BY <2>1, <2>2 DEF IInv, HeldIsNew
<1>5. InTime' /\ ReadBefore' /\ RoundsInTime' /\ WaitsInTime'
  <2>1. now \in Nat /\ now <= now + HandlerSeconds
    BY DEF IInv, TypeOK
  <2>2. InTime'
    BY <1>2, <2>1 DEF IInv, InTime
  <2>3. ReadBefore' /\ RoundsInTime' /\ WaitsInTime'
    BY <1>2 DEF IInv, ReadBefore, RoundsInTime, WaitsInTime
  <2>4. QED
    BY <2>2, <2>3
<1>6. QED
  BY <1>2, <1>3, <1>4, <1>5, OnlyRequests DEF IInv

\* The row is inserted: its address is nobody's, its id is new.
LEMMA CreateStep ==
  ASSUME IInv, NEW r \in Request, req[r].pc = "hashing", ids < MaxUsers,
         Holding(req[r].user.email) = {}, get_by_email(req[r].user.email) = {},
         ids' = ids + 1, Continue(r, "created", ids', req[r].user),
         UNCHANGED <<now, users, disabled, issued, admitted, cache, shown>>
  PROVE  IInv'
<1> USE Numbers
<1>1. ids' \in 1..MaxUsers /\ ids \in Nat
  BY DEF IInv, TypeOK
<1>2. /\ \A q \in Request : q # r => req'[q] = req[q]
      /\ req'[r].pc = "created" /\ req'[r].id = ids' /\ req'[r].user = req[r].user
      /\ req'[r].since = req[r].since
      /\ req' \in [Request -> ReqState]
  <2>1. ids' \in 0..MaxUsers /\ req[r].user \in UserRow
    BY <1>1 DEF IInv, TypeOK, ReqState
  <2>2. QED
    BY <2>1 DEF Continue, IInv, TypeOK, ReqState, Pc
<1>3. TypeOK'
  BY <1>1, <1>2 DEF IInv, TypeOK
<1>4. UsersSound'
  <2>1. \A i \in Id : i <= ids => i <= ids'
    BY <1>1 DEF Id
  <2>2. QED
    BY <2>1 DEF IInv, UsersSound
<1>5. AddressesLowered'
  BY <1>2 DEF IInv, AddressesLowered, Holds
<1>6. HeldIsNew'
  <2>1. \A email : get_by_email(email)' = get_by_email(email)
    BY DEF get_by_email
  <2>2. users[ids'] = NoUser
    BY <1>1 DEF IInv, UsersSound, Id
  <2>3. \A q \in Request : Holds(q)' => q = r \/ (Holds(q) /\ req'[q] = req[q])
    BY <1>2 DEF Holds
  <2>4. \A q \in Request : Holds(q) => req[q].user.email # req[r].user.email
    BY DEF Holds, Holding
  <2>5. \A q \in Request : Holds(q) => /\ req[q].id \in 1..ids
                                       /\ users[req[q].id] = NoUser
                                       /\ req[q].pc # "created" => req[q].user.accounts = 1
                                       /\ get_by_email(req[q].user.email) = {}
    BY DEF IInv, HeldIsNew
  <2>6. \A p, q \in Request :
          Holds(p) /\ Holds(q) /\ (req[q].id = req[p].id \/ req[q].user.email = req[p].user.email) => q = p
    BY DEF IInv, HeldIsNew
  <2>7. \A q \in Request : Holds(q) => req[q].id # ids'
    BY <1>1, <2>5
  <2>8. ASSUME NEW p \in Request, Holds(p)'
        PROVE  /\ req'[p].id \in 1..ids' /\ users[req'[p].id] = NoUser
               /\ req'[p].pc # "created" => req'[p].user.accounts = 1
               /\ get_by_email(req'[p].user.email) = {}
    BY <1>1, <1>2, <2>2, <2>3, <2>5, <2>8
  <2>9. ASSUME NEW p \in Request, NEW q \in Request, Holds(p)', Holds(q)',
               req'[q].id = req'[p].id \/ req'[q].user.email = req'[p].user.email
        PROVE  q = p
    BY <1>2, <2>3, <2>4, <2>6, <2>7, <2>9
  <2>10. QED
    BY <2>1, <2>8, <2>9 DEF HeldIsNew
<1>7. InTime' /\ ReadBefore' /\ RoundsInTime' /\ WaitsInTime'
  BY <1>2 DEF IInv, InTime, ReadBefore, RoundsInTime, WaitsInTime
<1>8. DisabledIsKnown' /\ TokensEnd'
  BY DEF IInv, DisabledIsKnown, TokensEnd
<1>9. CacheFresh' /\ AccessEnds' /\ StatusFresh'
  BY DEF IInv, CacheFresh, AccessEnds, StatusFresh
<1>10. QED
  BY <1>3, <1>4, <1>5, <1>6, <1>7, <1>8, <1>9 DEF IInv

\* The starter account joins the row.
LEMMA OpenStep ==
  ASSUME IInv, NEW r \in Request, OpenAccount(r)
  PROVE  IInv'
<1> USE Numbers
<1>0. UNCHANGED <<now, users, ids, disabled, issued, admitted, cache, shown>> /\ req[r].pc = "created"
  BY DEF OpenAccount, accounts, status
<1>1. /\ \A q \in Request : q # r => req'[q] = req[q]
      /\ req'[r].pc = "opened" /\ req'[r].id = req[r].id /\ req'[r].since = req[r].since
      /\ req'[r].user.email = req[r].user.email /\ req'[r].user.accounts = 1
      /\ req' \in [Request -> ReqState]
  <2> DEFINE user == [req[r].user EXCEPT !.accounts = 1]
  <2>1. req[r].id \in 0..MaxUsers /\ req[r].user \in UserRow
    BY DEF IInv, TypeOK, ReqState
  <2>2. user \in UserRow /\ user.email = req[r].user.email /\ user.accounts = 1
    BY <2>1 DEF UserRow
  <2>3. Continue(r, "opened", req[r].id, user)
    BY DEF OpenAccount
  <2> HIDE DEF user
  <2>4. QED
    BY <2>1, <2>2, <2>3 DEF Continue, IInv, TypeOK, ReqState, Pc
<1>2. \A q \in Request : Holds(q)' <=> Holds(q)
  BY <1>0, <1>1 DEF Holds
<1>3. AddressesLowered'
  BY <1>0, <1>1, <1>2 DEF IInv, AddressesLowered
<1>4. HeldIsNew'
  <2>1. \A email : get_by_email(email)' = get_by_email(email)
    BY <1>0, OnlyRequests
  <2>2. \A q \in Request : req'[q].id = req[q].id /\ req'[q].user.email = req[q].user.email
    BY <1>1
  <2>3. \A q \in Request : Holds(q)' /\ req'[q].pc # "created" => req'[q].user.accounts = 1
    BY <1>1, <1>2 DEF IInv, HeldIsNew
  <2>4. QED
    BY <1>0, <1>2, <2>1, <2>2, <2>3 DEF IInv, HeldIsNew
<1>5. InTime' /\ ReadBefore' /\ RoundsInTime' /\ WaitsInTime'
  BY <1>0, <1>1 DEF IInv, InTime, ReadBefore, RoundsInTime, WaitsInTime
<1>6. QED
  BY <1>0, <1>1, <1>3, <1>4, <1>5, OnlyRequests DEF IInv

-----------------------------------------------------------------------------
(* Tokens. *)

\* New tokens are within the bounds, of a disabled user too if the row was read in time.
LEMMA IssueFacts ==
  ASSUME IInv, NEW i \in Id,
         issued' = [issued EXCEPT ![i] = [access |-> now + AccessTTL, refresh |-> now + RefreshTTL]],
         UNCHANGED <<now, disabled, admitted>>,
         disabled[i] # Never => now <= disabled[i] + HandlerSeconds
  PROVE  /\ issued' \in [Id -> [access : Nat, refresh : Nat]]
         /\ TokensEnd'
         /\ AccessEnds'
<1> USE Numbers
<1>1. now + AccessTTL \in Nat /\ now + RefreshTTL \in Nat /\ now \in Nat
  BY DEF IInv, TypeOK
<1>2. issued' \in [Id -> [access : Nat, refresh : Nat]]
  BY <1>1 DEF IInv, TypeOK
<1>3. issued'[i].access = now + AccessTTL /\ \A j \in Id : j # i => issued'[j] = issued[j]
  BY DEF IInv, TypeOK
<1>4. TokensEnd'
  <2> SUFFICES ASSUME NEW j \in Id
               PROVE  /\ issued'[j].access <= now + AccessTTL
                      /\ admitted[j] <= now
                      /\ disabled[j] # Never => issued'[j].access <= disabled[j] + AccessTTL + HandlerSeconds
    BY DEF TokensEnd
  <2>1. CASE j = i
    <3>1. admitted[j] <= now
      BY DEF IInv, TokensEnd
    <3>2. disabled[i] # Never => disabled[i] \in Nat
      BY DEF IInv, TypeOK, Time
    <3>3. disabled[i] # Never => now + AccessTTL <= disabled[i] + AccessTTL + HandlerSeconds
      BY <1>1, <3>2
    <3>4. QED
      BY <1>1, <1>3, <2>1, <3>1, <3>3
  <2>2. CASE j # i
    BY <1>3, <2>2 DEF IInv, TokensEnd
  <2>3. QED
    BY <2>1, <2>2
<1>5. AccessEnds'
  BY DEF IInv, AccessEnds
<1>6. QED
  BY <1>2, <1>4, <1>5

\* The tokens of a registration go out; its user is not known yet, so not disabled.
LEMMA RegisteredStep ==
  ASSUME IInv, NEW r \in Request, Registered(r)
  PROVE  IInv'
<1> USE Numbers
<1>0. /\ UNCHANGED <<now, users, ids, disabled, admitted, cache, shown>> /\ req[r].pc = "opened"
      /\ Continue(r, "committing", req[r].id, req[r].user) /\ Issue(req[r].id)
  BY DEF Registered, accounts, status
<1>1. /\ \A q \in Request : q # r => req'[q] = req[q]
      /\ req'[r].pc = "committing" /\ req'[r].id = req[r].id /\ req'[r].since = req[r].since
      /\ req'[r].user = req[r].user
      /\ req' \in [Request -> ReqState]
  BY <1>0 DEF IInv, TypeOK, Continue, ReqState, Pc
<1>2. PICK i \in Id : i = req[r].id /\ users[i] = NoUser
  <2>1. Holds(r) /\ ids \in 0..MaxUsers
    BY <1>0 DEF Holds, IInv, TypeOK
  <2>2. req[r].id \in 1..ids /\ users[req[r].id] = NoUser
    BY <2>1 DEF IInv, HeldIsNew
  <2>3. QED
    BY <2>1, <2>2 DEF Id
<1>3. /\ issued' \in [Id -> [access : Nat, refresh : Nat]]
      /\ TokensEnd' /\ AccessEnds'
  <2>1. disabled[i] = Never
    BY <1>2 DEF IInv, DisabledIsKnown
  <2>2. QED
    BY <1>0, <1>2, <2>1, IssueFacts DEF Issue
<1>4. TypeOK'
  BY <1>0, <1>1, <1>3 DEF IInv, TypeOK
<1>5. \A q \in Request : Holds(q)' <=> Holds(q)
  BY <1>0, <1>1 DEF Holds
<1>6. UsersSound' /\ DisabledIsKnown'
  BY <1>0 DEF IInv, UsersSound, DisabledIsKnown
<1>7. AddressesLowered'
  BY <1>0, <1>1, <1>5 DEF IInv, AddressesLowered
<1>8. HeldIsNew'
  <2>1. \A email : get_by_email(email)' = get_by_email(email)
    BY <1>0 DEF get_by_email
  <2>2. \A q \in Request : req'[q].id = req[q].id /\ req'[q].user = req[q].user
    BY <1>1
  <2>3. \A q \in Request : Holds(q)' /\ req'[q].pc # "created" => req'[q].user.accounts = 1
    BY <1>0, <1>1, <1>5 DEF IInv, HeldIsNew, Holds
  <2>4. QED
    BY <1>0, <1>5, <2>1, <2>2, <2>3 DEF IInv, HeldIsNew
<1>9. InTime' /\ ReadBefore' /\ RoundsInTime' /\ WaitsInTime'
  BY <1>0, <1>1 DEF IInv, InTime, ReadBefore, RoundsInTime, WaitsInTime
<1>10. CacheFresh' /\ StatusFresh'
  BY <1>0 DEF IInv, CacheFresh, StatusFresh
<1>11. QED
  BY <1>3, <1>4, <1>6, <1>7, <1>8, <1>9, <1>10 DEF IInv

\* The session ends: the user is there, with an address and an account, or is not.
LEMMA CommitStep ==
  ASSUME IInv, NEW r \in Request, Commit(r)
  PROVE  IInv'
<1> USE Numbers
<1>0. /\ UNCHANGED <<now, ids, disabled, issued, admitted, cache, shown>> /\ req[r].pc = "committing"
      /\ req' = [req EXCEPT ![r] = Idle]
      /\ users' \in {users, [users EXCEPT ![req[r].id] = req[r].user]}
  BY DEF Commit, Answer, status
<1>1. /\ \A q \in Request : q # r => req'[q] = req[q]
      /\ req'[r].pc = "idle"
      /\ req' \in [Request -> ReqState]
  <2>1. Idle.pc = "idle"
    BY DEF Idle
  <2>2. QED
    BY <1>0, <2>1, IdleType DEF IInv, TypeOK
<1>2. CASE users' = users
  <2>1. StartsNothing
    BY <1>0, <1>2 DEF StartsNothing
  <2>2. QED
    BY <1>0, <2>1, EndStep
<1>3. CASE users' = [users EXCEPT ![req[r].id] = req[r].user]
  <2> DEFINE user == req[r].user
  <2>1. PICK i \in Id : i = req[r].id
    <3>1. Holds(r) /\ ids \in 0..MaxUsers
      BY <1>0 DEF Holds, IInv, TypeOK
    <3>2. req[r].id \in 1..ids
      BY <3>1 DEF IInv, HeldIsNew
    <3>3. QED
      BY <3>1, <3>2 DEF Id
  <2>2. /\ i <= ids /\ users[i] = NoUser /\ user.accounts = 1 /\ user \in UserRow
        /\ get_by_email(user.email) = {}
        /\ user.email \in Spelling /\ LowerOf[user.email] = user.email
    <3>1. Holds(r)
      BY <1>0 DEF Holds
    <3>2. /\ req[r].id \in 1..ids /\ users[req[r].id] = NoUser
          /\ user.accounts = 1 /\ get_by_email(user.email) = {}
      BY <1>0, <3>1 DEF IInv, HeldIsNew
    <3>3. user.email \in Spelling /\ LowerOf[user.email] = user.email
      BY <3>1 DEF IInv, AddressesLowered
    <3>4. user \in UserRow
      BY DEF IInv, TypeOK, ReqState
    <3> HIDE DEF user
    <3>5. QED
      BY <2>1, <3>2, <3>3, <3>4
  <2>3. /\ users'[i] = user /\ \A j \in Id : j # i => users'[j] = users[j]
        /\ users' \in [Id -> UserRow]
    BY <1>3, <2>1, <2>2 DEF IInv, TypeOK
  <2>4. TypeOK'
    BY <1>0, <1>1, <2>3 DEF IInv, TypeOK
  <2>5. \A j \in Id : users[j].email # user.email
    BY <2>2 DEF get_by_email
  <2> HIDE DEF user
  <2>6. UsersSound'
    <3> SUFFICES ASSUME NEW j \in Id, users'[j] # NoUser
                 PROVE  /\ j <= ids /\ users'[j].accounts = 1
                        /\ users'[j].email \in Spelling /\ LowerOf[users'[j].email] = users'[j].email
                        /\ \A k \in Id : users'[k].email = users'[j].email => k = j
      BY <1>0 DEF UsersSound
    <3>1. CASE j = i
      BY <2>2, <2>3, <2>5, <3>1
    <3>2. CASE j # i
      BY <2>3, <2>5, <3>2 DEF IInv, UsersSound
    <3>3. QED
      BY <3>1, <3>2
  <2>7. \A q \in Request : Holds(q)' => q # r /\ Holds(q) /\ req'[q] = req[q]
    BY <1>1 DEF Holds
  <2>8. AddressesLowered'
    BY <1>1, <2>7 DEF IInv, AddressesLowered
  <2>9. HeldIsNew'
    <3>1. \A q \in Request : Holds(q)' => req[q].id # i /\ req[q].user.email # user.email
      BY <1>0, <2>1, <2>7 DEF IInv, HeldIsNew, Holds, user
    <3>2. ASSUME NEW q \in Request, Holds(q)'
          PROVE  /\ req'[q].id \in 1..ids /\ users'[req'[q].id] = NoUser
                 /\ req'[q].pc # "created" => req'[q].user.accounts = 1
                 /\ \A j \in Id : users'[j].email # req'[q].user.email
      <4>1. /\ req[q].id \in 1..ids /\ users[req[q].id] = NoUser
            /\ req[q].pc # "created" => req[q].user.accounts = 1
            /\ get_by_email(req[q].user.email) = {}
        BY <2>7, <3>2 DEF IInv, HeldIsNew
      <4>2. req[q].id \in Id
        BY <4>1 DEF IInv, TypeOK, Id
      <4>3. \A j \in Id : users[j].email # req[q].user.email
        BY <4>1 DEF get_by_email
      <4>4. QED
        BY <2>3, <2>7, <3>1, <3>2, <4>1, <4>2, <4>3
    <3>3. \A p, q \in Request :
            /\ Holds(p)' /\ Holds(q)'
            /\ req'[q].id = req'[p].id \/ req'[q].user.email = req'[p].user.email
            => q = p
      BY <2>7 DEF IInv, HeldIsNew
    <3>4. QED
      BY <1>0, <3>2, <3>3 DEF HeldIsNew, get_by_email
  <2>10. InTime' /\ ReadBefore' /\ RoundsInTime' /\ WaitsInTime'
    BY <1>0, <1>1 DEF IInv, InTime, ReadBefore, RoundsInTime, WaitsInTime
  <2>11. DisabledIsKnown'
    BY <1>0, <2>2, <2>3 DEF IInv, DisabledIsKnown
  <2>12. TokensEnd' /\ CacheFresh' /\ AccessEnds' /\ StatusFresh'
    BY <1>0 DEF IInv, TokensEnd, CacheFresh, AccessEnds, StatusFresh
  <2>13. QED
    BY <2>4, <2>6, <2>8, <2>9, <2>10, <2>11, <2>12 DEF IInv
<1>4. QED
  BY <1>0, <1>2, <1>3

\* A login or refresh has read its user's row.
LEMMA LoadStep ==
  ASSUME IInv, NEW r \in Request, NEW i \in Id, Start(r, "signing", i, users[i]),
         UNCHANGED <<now, users, ids, disabled, issued, admitted, cache, shown>>
  PROVE  IInv'
<1> USE Numbers
<1>1. /\ \A q \in Request : q # r => req'[q] = req[q]
      /\ req'[r].pc = "signing" /\ req'[r].id = i /\ req'[r].user = users[i] /\ req'[r].since = now
      /\ req' \in [Request -> ReqState]
  BY IdleType DEF Start, IInv, TypeOK, ReqState, Pc, Id
<1>2. \A q \in Request : Holds(q)' => q # r /\ Holds(q) /\ req'[q] = req[q]
  BY <1>1 DEF Holds
<1>3. AddressesLowered'
  BY <1>1, <1>2 DEF IInv, AddressesLowered
<1>4. HeldIsNew'
  <2>1. \A email : get_by_email(email)' = get_by_email(email)
    BY OnlyRequests
  <2>2. QED
    BY <1>2, <2>1 DEF IInv, HeldIsNew
<1>5. InTime'
  <2>1. now \in Nat /\ now <= now + HandlerSeconds
    BY DEF IInv, TypeOK
  <2>2. QED
    BY <1>1, <2>1 DEF IInv, InTime
<1>6. ReadBefore'
  <2>1. users[i].active => disabled[i] = Never
    BY DEF IInv, DisabledIsKnown
  <2>2. QED
    BY <1>1, <2>1 DEF IInv, ReadBefore
<1>7. RoundsInTime' /\ WaitsInTime'
  BY <1>1 DEF IInv, RoundsInTime, WaitsInTime
<1>8. QED
  BY <1>1, <1>3, <1>4, <1>5, <1>6, <1>7, OnlyRequests DEF IInv

\* The parts about users, when a request that registers nobody moves.
LEMMA UsersAside ==
  ASSUME IInv, NEW r \in Request, req' \in [Request -> ReqState],
         \A q \in Request : q # r => req'[q] = req[q],
         req'[r].pc \in {"idle", "forwarded", "probing"},
         UNCHANGED <<now, users, ids, disabled>>
  PROVE  /\ UsersSound' /\ DisabledIsKnown' /\ AddressesLowered' /\ HeldIsNew'
         /\ InTime' /\ ReadBefore'
<1>1. UsersSound' /\ DisabledIsKnown'
  BY DEF IInv, UsersSound, DisabledIsKnown
<1>2. \A q \in Request : Holds(q)' => q # r /\ Holds(q) /\ req'[q] = req[q]
  BY DEF Holds
<1>3. AddressesLowered'
  BY <1>2 DEF IInv, AddressesLowered
<1>4. HeldIsNew'
  <2>1. \A email : get_by_email(email)' = get_by_email(email)
    BY DEF get_by_email
  <2>2. QED
    BY <1>2, <2>1 DEF IInv, HeldIsNew
<1>5. InTime' /\ ReadBefore'
  BY DEF IInv, InTime, ReadBefore
<1>6. QED
  BY <1>1, <1>3, <1>4, <1>5

\* Tokens for a user the handler found active: soon after a disabling at the latest.
LEMMA SignStep ==
  ASSUME IInv, NEW r \in Request, req[r].pc = "signing", req[r].user.active, Issue(req[r].id),
         req' = [req EXCEPT ![r] = Idle],
         UNCHANGED <<now, users, ids, disabled, admitted, cache, shown>>
  PROVE  IInv'
<1> USE Numbers
<1>1. /\ \A q \in Request : q # r => req'[q] = req[q]
      /\ req'[r].pc = "idle"
      /\ req' \in [Request -> ReqState]
  <2>1. Idle.pc = "idle"
    BY DEF Idle
  <2>2. QED
    BY <2>1, IdleType DEF IInv, TypeOK
<1>2. PICK i \in Id : i = req[r].id
  BY DEF IInv, ReadBefore
<1>3. disabled[i] # Never => now <= disabled[i] + HandlerSeconds
  <2>1. now <= req[r].since + HandlerSeconds
    BY DEF IInv, InTime
  <2>2. disabled[i] # Never => req[r].since <= disabled[i] /\ disabled[i] \in Nat
    BY <1>2 DEF IInv, ReadBefore, TypeOK, Time
  <2>3. now \in Nat /\ req[r].since \in Nat
    BY DEF IInv, TypeOK, ReqState
  <2>4. QED
    BY <2>1, <2>2, <2>3
<1>4. /\ issued' \in [Id -> [access : Nat, refresh : Nat]]
      /\ TokensEnd' /\ AccessEnds'
  BY <1>2, <1>3, IssueFacts DEF Issue
<1>5. TypeOK'
  BY <1>1, <1>4 DEF IInv, TypeOK
<1>6. /\ UsersSound' /\ DisabledIsKnown' /\ AddressesLowered' /\ HeldIsNew'
      /\ InTime' /\ ReadBefore'
  BY <1>1, UsersAside
<1>7. RoundsInTime' /\ WaitsInTime'
  BY <1>1 DEF IInv, RoundsInTime, WaitsInTime
<1>8. CacheFresh' /\ StatusFresh'
  BY DEF IInv, CacheFresh, StatusFresh
<1>9. QED
  BY <1>4, <1>5, <1>6, <1>7, <1>8 DEF IInv

\* The operator disables a user: no token reaches further than a new one would.
LEMMA DisableStep ==
  ASSUME IInv, NEW i \in Id, Disable(i)
  PROVE  IInv'
<1> USE Numbers
<1>0. /\ UNCHANGED <<now, ids, issued, req, admitted, cache, shown>>
      /\ users[i].active /\ users' = [users EXCEPT ![i].active = FALSE]
      /\ disabled' = [disabled EXCEPT ![i] = now]
  BY DEF Disable, status
<1>1. users[i] # NoUser /\ users[i] \in UserRow /\ now \in Nat
  BY <1>0 DEF NoUser, IInv, TypeOK
<1>2. /\ users' \in [Id -> UserRow] /\ \A j \in Id : j # i => users'[j] = users[j]
      /\ users'[i].email = users[i].email /\ users'[i].accounts = users[i].accounts
      /\ ~users'[i].active
  BY <1>0, <1>1 DEF IInv, TypeOK, UserRow
<1>3. \A j \in Id : users'[j].email = users[j].email /\ users'[j].accounts = users[j].accounts
  BY <1>2
<1>4. users'[i] # NoUser
  BY <1>1, <1>2, Addresses DEF IInv, UsersSound, NoUser
<1>5. \A j \in Id : users'[j] # NoUser <=> users[j] # NoUser
  BY <1>1, <1>2, <1>4
<1>6. /\ disabled' \in [Id -> Time] /\ disabled'[i] = now
      /\ \A j \in Id : j # i => disabled'[j] = disabled[j]
  BY <1>0, <1>1 DEF IInv, TypeOK, Time
<1>7. TypeOK'
  BY <1>0, <1>2, <1>6 DEF IInv, TypeOK
<1>8. UsersSound'
  BY <1>0, <1>3, <1>5 DEF IInv, UsersSound
<1>9. \A email : get_by_email(email)' = get_by_email(email)
  BY <1>3 DEF get_by_email
<1>10. \A q \in Request : Holds(q)' <=> Holds(q)
  BY <1>0 DEF Holds
<1>11. AddressesLowered'
  BY <1>0, <1>10 DEF IInv, AddressesLowered
<1>12. HeldIsNew'
  <2>1. \A q \in Request : Holds(q) => req[q].id \in Id
    BY DEF IInv, HeldIsNew, TypeOK, Id
  <2>2. \A q \in Request : Holds(q) => users'[req[q].id] = NoUser
    BY <1>5, <2>1 DEF IInv, HeldIsNew
  <2>3. \A q \in Request : get_by_email(req[q].user.email)' = get_by_email(req[q].user.email)
    BY <1>0, <1>9
  <2>4. QED
    BY <1>0, <1>10, <2>2, <2>3 DEF IInv, HeldIsNew
<1>13. InTime' /\ RoundsInTime' /\ WaitsInTime'
  BY <1>0 DEF IInv, InTime, RoundsInTime, WaitsInTime
<1>14. DisabledIsKnown'
  BY <1>0, <1>1, <1>2, <1>4, <1>6 DEF IInv, DisabledIsKnown
<1>15. ReadBefore'
  BY <1>0, <1>6 DEF IInv, ReadBefore, InTime
<1>16. TokensEnd' /\ AccessEnds'
  <2>1. issued[i].access \in Nat /\ issued[i].access <= now + AccessTTL /\ admitted[i] <= now
    BY DEF IInv, TypeOK, TokensEnd
  <2>2. issued[i].access <= now + AccessTTL + HandlerSeconds
    BY <1>1, <2>1
  <2>3. admitted[i] \in Int
    BY DEF IInv, TypeOK, Time, Never
  <2>4. admitted[i] < now + AccessTTL + HandlerSeconds
    BY <1>1, <2>1, <2>3
  <2>5. TokensEnd'
    BY <1>0, <1>6, <2>2 DEF IInv, TokensEnd
  <2>6. AccessEnds'
    BY <1>0, <1>6, <2>4 DEF IInv, AccessEnds
  <2>7. QED
    BY <2>5, <2>6
<1>17. CacheFresh' /\ StatusFresh'
  BY <1>0 DEF IInv, CacheFresh, StatusFresh
<1>18. QED
  BY <1>7, <1>8, <1>11, <1>12, <1>13, <1>14, <1>15, <1>16, <1>17 DEF IInv

-----------------------------------------------------------------------------
(* Platform status. *)

\* A hit shows what was fresh when it was stored, less than CacheSeconds ago.
LEMMA HitStep ==
  ASSUME IInv, NEW r \in Request, NEW i \in Id, end_user_id(i), Hit(r),
         UNCHANGED <<now, users, ids, disabled, issued>>
  PROVE  IInv'
<1> USE Numbers
<1>0. /\ cache.at # Never /\ now - cache.at < CacheSeconds /\ cache' = cache
      /\ shown' = [at |-> now, seen |-> cache.seen] /\ req' = [req EXCEPT ![r] = Idle]
  BY DEF Hit, Show, Answer
<1>1. /\ \A q \in Request : q # r => req'[q] = req[q]
      /\ req'[r].pc = "idle"
      /\ req' \in [Request -> ReqState]
  <2>1. Idle.pc = "idle"
    BY DEF Idle
  <2>2. QED
    BY <1>0, <2>1, IdleType DEF IInv, TypeOK
<1>2. cache.at \in Nat /\ now \in Nat /\ cache.seen \in [Part -> Time]
  BY <1>0 DEF IInv, TypeOK, Time
<1>3. TypeOK'
  BY <1>0, <1>1, <1>2, Admission DEF IInv, TypeOK
<1>4. RoundsInTime' /\ WaitsInTime' /\ CacheFresh'
  BY <1>0, <1>1 DEF IInv, RoundsInTime, WaitsInTime, CacheFresh
<1>5. StatusFresh'
  <2> SUFFICES ASSUME NEW p \in Part PROVE now - cache.seen[p] < CacheSeconds + Round
    BY <1>0 DEF StatusFresh
  <2>1. cache.seen[p] \in Nat /\ cache.at - cache.seen[p] <= Round
    BY <1>0, <1>2 DEF IInv, CacheFresh, Time
  <2>2. QED
    BY <1>0, <1>2, <2>1
<1>6. QED
  BY <1>1, <1>3, <1>4, <1>5, UsersAside, Admission DEF IInv

\* A round of probes begins.
LEMMA ProbeStartStep ==
  ASSUME IInv, NEW r \in Request, NEW i \in Id, end_user_id(i), Start(r, "probing", 0, NoUser),
         UNCHANGED <<now, users, ids, disabled, issued, cache, shown>>
  PROVE  IInv'
<1> USE Numbers
<1>1. /\ \A q \in Request : q # r => req'[q] = req[q]
      /\ req'[r].pc = "probing" /\ req'[r].since = now /\ req'[r].seen = Unseen
      /\ \A p \in Part : req'[r].wait[p] = [number |-> 1, since |-> now]
      /\ req' \in [Request -> ReqState]
  <2> DEFINE begun == [p \in Part |-> [number |-> 1, since |-> now]]
             new == [pc |-> "probing", id |-> 0, user |-> NoUser, since |-> now, seen |-> Unseen, wait |-> begun]
  <2>1. req' = [req EXCEPT ![r] = new]
    BY DEF Start
  <2>2. now \in Nat /\ begun \in [Part -> [number : 0..ProbeWaits, since : Nat]]
    BY DEF IInv, TypeOK
  <2>3. new \in ReqState
    BY <2>2, IdleType DEF ReqState, Pc
  <2>4. req \in [Request -> ReqState]
    BY DEF IInv, TypeOK
  <2>5. \A p \in Part : new.wait[p] = [number |-> 1, since |-> now]
    OBVIOUS
  <2>6. new.pc = "probing" /\ new.since = now /\ new.seen = Unseen
    OBVIOUS
  <2> HIDE DEF new
  <2>7. QED
    BY <2>1, <2>3, <2>4, <2>5, <2>6
<1>2. TypeOK'
  BY <1>1, Admission DEF IInv, TypeOK
<1>3. RoundsInTime'
  <2>1. now \in Nat /\ now <= now + Round
    BY DEF IInv, TypeOK
  <2>2. \A p \in Part : Unseen[p] = Never
    BY DEF Unseen
  <2>3. QED
    BY <1>1, <2>1, <2>2 DEF IInv, RoundsInTime
<1>4. WaitsInTime'
  <2>1. now \in Nat /\ now <= now + ProbeSeconds /\ now <= now + (1 - 1) * ProbeSeconds
    BY DEF IInv, TypeOK
  <2>2. \A s \in Service : req'[r].wait[s].number = 1 /\ req'[r].wait[s].since = now
    BY <1>1 DEF Part
  <2>3. QED
    BY <1>1, <2>1, <2>2 DEF IInv, WaitsInTime
<1>5. CacheFresh' /\ StatusFresh'
  BY DEF IInv, CacheFresh, StatusFresh
<1>6. QED
  BY <1>1, <1>2, <1>3, <1>4, <1>5, UsersAside, Admission DEF IInv

(***************************************************************************)
(* One wait of a probe is over in time and the next begins: it is over no  *)
(* later than all waits up to it may last together.                        *)
(***************************************************************************)
LEMMA WaitStep ==
  ASSUME IInv, NEW r \in Request, NEW s \in Service, Wait(r, s)
  PROVE  IInv'
<1> USE Numbers
<1>1. PICK k \in 1..ProbeWaits : k = req[r].wait[s].number
  BY DEF Wait, IInv, TypeOK, ReqState, WaitsInTime, Part
<1> DEFINE next == [number |-> k + 1, since |-> now]
<1>2. /\ UNCHANGED <<now, users, ids, disabled, issued, admitted, cache, shown>>
      /\ req[r].pc = "probing" /\ req[r].seen[s] = Never /\ k < ProbeWaits
      /\ req' = [req EXCEPT ![r].wait[s] = next]
  BY <1>1 DEF Wait, accounts, status
<1>3. req[r] \in ReqState /\ now \in Nat /\ s \in Part /\ k + 1 \in 1..ProbeWaits
  BY <1>2 DEF IInv, TypeOK, Part
<1>4. next \in [number : 0..ProbeWaits, since : Nat] /\ next.number = k + 1 /\ next.since = now
  BY <1>3
<1> HIDE DEF next
<1>5. /\ \A q \in Request : q # r => req'[q] = req[q]
      /\ req'[r].pc = "probing" /\ req'[r].since = req[r].since /\ req'[r].seen = req[r].seen
      /\ req'[r].wait = [req[r].wait EXCEPT ![s] = next]
      /\ req' \in [Request -> ReqState]
  BY <1>2, <1>3, <1>4 DEF IInv, TypeOK, ReqState
<1>6. RoundsInTime'
  BY <1>2, <1>5 DEF IInv, RoundsInTime
<1>7. now <= req[r].since + k * ProbeSeconds
  <2>1. PICK w \in Nat : w = req[r].wait[s].since
    BY <1>3 DEF ReqState
  <2>2. now <= w + ProbeSeconds /\ w <= req[r].since + (k - 1) * ProbeSeconds
    BY <1>1, <1>2, <2>1 DEF IInv, WaitsInTime
  <2>3. /\ (k - 1) * ProbeSeconds \in Nat
        /\ (k - 1) * ProbeSeconds + ProbeSeconds = k * ProbeSeconds
    BY WaitsFit
  <2>4. PICK earlier \in Nat : earlier = (k - 1) * ProbeSeconds
    BY <2>3
  <2>5. PICK through \in Nat : through = k * ProbeSeconds
    BY <2>3
  <2>6. now <= req[r].since + through
    <3>1. req[r].since \in Nat /\ earlier + ProbeSeconds = through
      BY <1>3, <2>3, <2>4, <2>5 DEF ReqState
    <3>2. now <= w + ProbeSeconds /\ w <= req[r].since + earlier
      BY <2>2, <2>4
    <3>3. QED
      BY <1>3, <3>1, <3>2
  <2>7. QED
    BY <2>5, <2>6
<1>8. WaitsInTime'
  <2>1. /\ req'[r].wait[s] = next
        /\ \A t \in Service : t # s => req'[r].wait[t] = req[r].wait[t]
    BY <1>3, <1>5 DEF ReqState, Part
  <2>2. /\ next.number > 0 /\ next.since <= now /\ now <= next.since + ProbeSeconds
        /\ next.since <= req[r].since + (next.number - 1) * ProbeSeconds
    <3>1. (k + 1) - 1 = k /\ k + 1 > 0 /\ now <= now /\ now <= now + ProbeSeconds
      BY <1>3
    <3>2. QED
      BY <1>4, <1>7, <3>1
  <2> HIDE DEF next
  <2>3. QED
    BY <1>2, <1>5, <2>1, <2>2 DEF IInv, WaitsInTime
<1>9. QED
  BY <1>2, <1>5, <1>6, <1>8, UsersAside, OnlyRequests DEF IInv

\* One part of the platform has answered, or has not in time.
LEMMA ProbeStep ==
  ASSUME IInv, NEW r \in Request, NEW p \in Part, Probe(r, p)
  PROVE  IInv'
<1> USE Numbers
<1>0. /\ UNCHANGED <<now, users, ids, disabled, issued, admitted, cache, shown>>
      /\ req[r].pc = "probing" /\ req' = [req EXCEPT ![r] = [@ EXCEPT !.seen[p] = now, !.wait[p] = NoWait]]
  BY DEF Probe, accounts, status
<1>1. req[r] \in ReqState /\ now \in Nat /\ now \in Time
  BY DEF IInv, TypeOK, Time
<1>2. /\ \A q \in Request : q # r => req'[q] = req[q]
      /\ req'[r].pc = "probing" /\ req'[r].since = req[r].since
      /\ req'[r].seen = [req[r].seen EXCEPT ![p] = now]
      /\ req'[r].wait = [req[r].wait EXCEPT ![p] = NoWait]
      /\ req' \in [Request -> ReqState]
  <2>1. PICK state \in ReqState : state = req[r]
    BY <1>1
  <2> DEFINE new == [state EXCEPT !.seen[p] = now, !.wait[p] = NoWait]
  <2>2. /\ new.pc = state.pc /\ new.since = state.since
        /\ new.seen = [state.seen EXCEPT ![p] = now]
        /\ new.wait = [state.wait EXCEPT ![p] = NoWait]
        /\ new \in ReqState
    <3> DEFINE saw == [state EXCEPT !.seen[p] = now]
    <3>1. /\ saw.pc = state.pc /\ saw.since = state.since /\ saw.wait = state.wait
          /\ saw.seen = [state.seen EXCEPT ![p] = now]
          /\ saw \in ReqState
      BY <1>1 DEF ReqState
    <3>2. new = [saw EXCEPT !.wait[p] = NoWait]
      OBVIOUS
    <3>3. NoWait \in [number : 0..ProbeWaits, since : Nat]
      BY DEF NoWait
    <3> HIDE DEF saw, new
    <3>4. QED
      BY <3>1, <3>2, <3>3 DEF ReqState
  <2>3. req \in [Request -> ReqState]
    BY DEF IInv, TypeOK
  <2>4. req' = [req EXCEPT ![r] = new]
    BY <1>0, <2>1
  <2> HIDE DEF new
  <2>5. /\ \A q \in Request : q # r => req'[q] = req[q]
        /\ req'[r] = new /\ req' \in [Request -> ReqState]
    BY <2>2, <2>3, <2>4
  <2>6. QED
    BY <1>0, <2>1, <2>2, <2>5
<1>3. \A s \in Part : req'[r].seen[s] = req[r].seen[s] \/ req'[r].seen[s] = now
  BY <1>1, <1>2 DEF ReqState
<1>4. RoundsInTime'
  BY <1>0, <1>2, <1>3 DEF IInv, RoundsInTime
<1>5. WaitsInTime'
  <2>1. req'[r].seen[p] # Never
    BY <1>1, <1>2 DEF ReqState, Never
  <2>2. \A s \in Part : s # p => req'[r].seen[s] = req[r].seen[s] /\ req'[r].wait[s] = req[r].wait[s]
    BY <1>1, <1>2 DEF ReqState
  <2>3. \A s \in Service : req'[r].seen[s] = Never =>
          req[r].seen[s] = Never /\ req'[r].wait[s] = req[r].wait[s]
    BY <2>1, <2>2 DEF Part
  <2>4. QED
    BY <1>0, <1>2, <2>3 DEF IInv, WaitsInTime
<1>6. QED
  BY <1>0, <1>2, <1>4, <1>5, UsersAside, OnlyRequests DEF IInv

\* A complete round is stored and shown: all of it was seen since it began.
LEMMA StoreStatusStep ==
  ASSUME IInv, NEW r \in Request, StoreStatus(r)
  PROVE  IInv'
<1> USE Numbers
<1>0. /\ UNCHANGED <<now, users, ids, disabled, issued, admitted>>
      /\ req[r].pc = "probing" /\ Never \notin {req[r].seen[p] : p \in Part}
      /\ cache' = [at |-> now, seen |-> req[r].seen] /\ shown' = [at |-> now, seen |-> req[r].seen]
      /\ req' = [req EXCEPT ![r] = Idle]
  BY DEF StoreStatus, Show, Answer, accounts
<1>1. /\ \A q \in Request : q # r => req'[q] = req[q]
      /\ req'[r].pc = "idle"
      /\ req' \in [Request -> ReqState]
  <2>1. Idle.pc = "idle"
    BY DEF Idle
  <2>2. QED
    BY <1>0, <2>1, IdleType DEF IInv, TypeOK
<1>2. now \in Nat /\ now \in Time /\ req[r].seen \in [Part -> Time] /\ req[r].since \in Nat
  BY DEF IInv, TypeOK, Time, ReqState
<1>3. TypeOK'
  BY <1>0, <1>1, <1>2 DEF IInv, TypeOK
<1>4. \A p \in Part : /\ req[r].seen[p] \in Nat /\ req[r].seen[p] # Never
                      /\ now - req[r].seen[p] <= Round
  <2> SUFFICES ASSUME NEW p \in Part
               PROVE  /\ req[r].seen[p] \in Nat /\ req[r].seen[p] # Never
                      /\ now - req[r].seen[p] <= Round
    OBVIOUS
  <2>1. req[r].seen[p] # Never /\ req[r].seen[p] \in Nat
    BY <1>0, <1>2 DEF Time
  <2>2. req[r].since <= req[r].seen[p] /\ now <= req[r].since + Round
    BY <1>0, <2>1 DEF IInv, RoundsInTime
  <2>3. QED
    BY <1>2, <2>1, <2>2
<1>5. RoundsInTime' /\ WaitsInTime'
  BY <1>0, <1>1 DEF IInv, RoundsInTime, WaitsInTime
<1>6. CacheFresh'
  BY <1>0, <1>2, <1>4 DEF CacheFresh
<1>7. StatusFresh'
  <2> SUFFICES ASSUME NEW p \in Part PROVE now - req[r].seen[p] < CacheSeconds + Round
    BY <1>0 DEF StatusFresh
  <2>1. req[r].seen[p] \in Nat /\ now - req[r].seen[p] <= Round
    BY <1>4
  <2>2. QED
    BY <1>2, <2>1
<1>8. TokensEnd' /\ AccessEnds'
  BY <1>0 DEF IInv, TokensEnd, AccessEnds
<1>9. QED
  BY <1>0, <1>1, <1>3, <1>5, <1>6, <1>7, <1>8, UsersAside DEF IInv

\* A second passes only when no handler and no round is at the end of its time.
LEMMA TickStep ==
  ASSUME IInv, Tick
  PROVE  IInv'
<1> USE Numbers
<1>0. /\ UNCHANGED <<users, ids, disabled, issued, req, admitted, cache, shown>>
      /\ now' = now + 1 /\ \A r \in Request : ~Overdue(r)
  BY DEF Tick, accounts, status
<1>1. now \in Nat /\ now' \in Nat
  BY <1>0 DEF IInv, TypeOK
<1>2. TypeOK'
  BY <1>0, <1>1 DEF IInv, TypeOK
<1>3. UsersSound' /\ AddressesLowered' /\ HeldIsNew'
  <2>1. UsersSound'
    BY <1>0 DEF IInv, UsersSound
  <2>2. AddressesLowered'
    BY <1>0 DEF IInv, AddressesLowered, Holds
  <2>3. HeldIsNew'
    BY <1>0 DEF IInv, HeldIsNew, Holds, get_by_email
  <2>4. QED
    BY <2>1, <2>2, <2>3
<1>4. InTime'
  <2> SUFFICES ASSUME NEW r \in Request, req[r].pc \notin {"idle", "forwarded", "probing"}
               PROVE  req[r].since <= now' /\ now' <= req[r].since + HandlerSeconds
    BY <1>0 DEF InTime
  <2>1. ~(now >= req[r].since + HandlerSeconds) /\ req[r].since \in Nat
    BY <1>0 DEF Overdue, IInv, TypeOK, ReqState
  <2>2. req[r].since <= now
    BY DEF IInv, InTime
  <2>3. QED
    BY <1>0, <1>1, <2>1, <2>2
<1>5. RoundsInTime'
  <2> SUFFICES ASSUME NEW r \in Request, req[r].pc = "probing"
               PROVE  /\ req[r].since <= now' /\ now' <= req[r].since + Round
                      /\ \A p \in Part : req[r].seen[p] = Never \/ req[r].since <= req[r].seen[p]
    BY <1>0 DEF RoundsInTime
  <2>1. /\ req[r].since <= now /\ req[r].since \in Nat
        /\ \A p \in Part : req[r].seen[p] = Never \/ req[r].since <= req[r].seen[p]
    BY DEF IInv, RoundsInTime, TypeOK, ReqState
  <2>2. PICK p \in Part : req[r].seen[p] = Never
    BY <1>0 DEF Overdue
  <2>3. CASE p \in Service
    <3>1. PICK k \in 1..ProbeWaits : k = req[r].wait[p].number
      BY <2>2, <2>3 DEF IInv, TypeOK, ReqState, WaitsInTime, Part
    <3>2. PICK w \in Nat : w = req[r].wait[p].since
      BY DEF IInv, TypeOK, ReqState
    <3>3. now < w + ProbeSeconds
      BY <1>0, <1>1, <2>2, <2>3, <3>2 DEF Overdue
    <3>4. w <= req[r].since + (k - 1) * ProbeSeconds
      BY <2>2, <2>3, <3>1, <3>2 DEF IInv, WaitsInTime
    <3>5. PICK earlier \in Nat : earlier = (k - 1) * ProbeSeconds
      BY WaitsFit
    <3>6. earlier + ProbeSeconds <= Round
      BY WaitsFit, <3>5
    <3>7. w <= req[r].since + earlier
      BY <3>4, <3>5
    <3>8. QED
      BY <1>0, <1>1, <2>1, <3>3, <3>6, <3>7
  <2>4. CASE p = "gateway"
    <3>1. now < req[r].since + HandlerSeconds
      BY <1>0, <1>1, <2>1, <2>2, <2>4 DEF Overdue
    <3>2. QED
      BY <1>0, <1>1, <2>1, <3>1
  <2>5. QED
    BY <2>3, <2>4 DEF Part
<1>6. DisabledIsKnown'
  <2>1. \A i \in Id : disabled[i] \in Int
    BY DEF IInv, TypeOK, Time, Never
  <2>2. QED
    BY <1>0, <1>1, <2>1 DEF IInv, DisabledIsKnown
<1>7. WaitsInTime'
  <2> SUFFICES ASSUME NEW r \in Request, NEW s \in Service, req[r].pc = "probing", req[r].seen[s] = Never
               PROVE  req[r].wait[s].since <= now' /\ now' <= req[r].wait[s].since + ProbeSeconds
    BY <1>0 DEF IInv, WaitsInTime
  <2>1. req[r].wait[s].since \in Nat
    BY DEF IInv, TypeOK, ReqState, Part
  <2>2. ~(now >= req[r].wait[s].since + ProbeSeconds)
    BY <1>0 DEF Overdue
  <2>3. req[r].wait[s].since <= now
    BY DEF IInv, WaitsInTime
  <2>4. QED
    BY <1>0, <1>1, <2>1, <2>2, <2>3
<1>8. ReadBefore' /\ AccessEnds' /\ StatusFresh'
  BY <1>0 DEF IInv, ReadBefore, AccessEnds, StatusFresh
<1>9. TokensEnd'
  <2>1. \A i \in Id : issued[i].access \in Nat /\ admitted[i] \in Int
    BY DEF IInv, TypeOK, Time, Never
  <2>2. \A i \in Id : issued[i].access <= now' + AccessTTL /\ admitted[i] <= now'
    BY <1>0, <1>1, <2>1 DEF IInv, TokensEnd
  <2>3. QED
    BY <1>0, <2>2 DEF IInv, TokensEnd
<1>10. CacheFresh'
  BY <1>0, <1>1 DEF IInv, CacheFresh, TypeOK, Time, Never
<1>11. QED
  BY <1>2, <1>3, <1>4, <1>5, <1>6, <1>7, <1>8, <1>9, <1>10 DEF IInv

-----------------------------------------------------------------------------
(* The invariant. *)

\* Initially nobody is registered and nothing is under way.
LEMMA InitIInv == Init => IInv
<1> SUFFICES ASSUME Init PROVE IInv
  OBVIOUS
<1> USE Numbers
<1>1. \A r \in Request : req[r] = Idle
  BY DEF Init
<1>2. TypeOK
  BY IdleType DEF Init, TypeOK, NoTokens, Time, Never
<1>3. UsersSound /\ DisabledIsKnown /\ TokensEnd
  BY DEF Init, UsersSound, DisabledIsKnown, TokensEnd, NoTokens, Never
<1>4. AddressesLowered /\ HeldIsNew /\ InTime /\ ReadBefore /\ RoundsInTime /\ WaitsInTime
  BY <1>1 DEF Idle, AddressesLowered, HeldIsNew, Holds, InTime, ReadBefore, RoundsInTime, WaitsInTime
<1>5. CacheFresh /\ AccessEnds /\ StatusFresh
  BY DEF Init, CacheFresh, AccessEnds, StatusFresh
<1>6. QED
  BY <1>2, <1>3, <1>4, <1>5 DEF IInv

\* Every step preserves the invariant.
LEMMA Inductive == IInv /\ [Next]_vars => IInv'
<1> SUFFICES ASSUME IInv, [Next]_vars PROVE IInv'
  OBVIOUS
<1> USE DEF accounts, status
<1>1. ASSUME NEW r \in Request, \E spelling \in Spelling : Register(r, spelling) PROVE IInv'
  BY <1>1, RegisterStep, EndStep DEF Register, Answer, StartsNothing
<1>2. ASSUME NEW r \in Request, CreateUser(r) PROVE IInv'
  BY <1>2, CreateStep, EndStep DEF CreateUser, Answer, StartsNothing
<1>3. ASSUME NEW r \in Request, Rollback(r) \/ Forwarded(r) PROVE IInv'
  BY <1>3, EndStep DEF Rollback, Forwarded, Answer, StartsNothing
<1>4. ASSUME NEW r \in Request, OpenAccount(r) \/ Registered(r) \/ Commit(r) PROVE IInv'
  BY <1>4, OpenStep, RegisteredStep, CommitStep
<1>5. ASSUME NEW r \in Request, \E spelling \in Spelling : Login(r, spelling) PROVE IInv'
  BY <1>5, LoadStep, EndStep DEF Login, Answer, StartsNothing, get_by_email
<1>6. ASSUME NEW r \in Request, NEW i \in Id, Refresh(r, i) PROVE IInv'
  BY <1>6, LoadStep, EndStep DEF Refresh, Answer, StartsNothing
<1>7. ASSUME NEW r \in Request, Sign(r) PROVE IInv'
  BY <1>7, SignStep, EndStep DEF Sign, Answer, StartsNothing
<1>8. ASSUME NEW r \in Request, NEW i \in Id, Refuse(r, i) \/ Me(r, i) PROVE IInv'
  BY <1>8, EndStep DEF Refuse, Me, Answer, StartsNothing
<1>9. ASSUME NEW r \in Request, NEW i \in Id, Proxy(r, i) PROVE IInv'
  BY <1>9, EndStep DEF Proxy, Answer, StartsNothing
<1>10. ASSUME NEW r \in Request, NEW i \in Id, PlatformStatus(r, i) PROVE IInv'
  BY <1>10, HitStep, ProbeStartStep, EndStep DEF PlatformStatus, Answer, StartsNothing
<1>11. ASSUME NEW r \in Request, StoreStatus(r) \/ (\E p \in Part : Probe(r, p)) \/ (\E s \in Service : Wait(r, s)) PROVE IInv'
  BY <1>11, StoreStatusStep, ProbeStep, WaitStep
<1>12. ASSUME NEW i \in Id, Disable(i) PROVE IInv'
  BY <1>12, DisableStep
<1>13. CASE Tick
  BY <1>13, TickStep
<1>14. CASE UNCHANGED vars
  <2> USE <1>14 DEF vars, IInv
  <2>1. TypeOK' /\ UsersSound' /\ AddressesLowered'
    BY DEF TypeOK, UsersSound, AddressesLowered, Holds
  <2>2. HeldIsNew' /\ InTime'
    BY DEF HeldIsNew, Holds, get_by_email, InTime
  <2>3. DisabledIsKnown' /\ ReadBefore' /\ TokensEnd' /\ RoundsInTime' /\ WaitsInTime'
    BY DEF DisabledIsKnown, ReadBefore, TokensEnd, RoundsInTime, WaitsInTime
  <2>4. CacheFresh' /\ AccessEnds' /\ StatusFresh'
    BY DEF CacheFresh, AccessEnds, StatusFresh
  <2>5. QED
    BY <2>1, <2>2, <2>3, <2>4
<1>15. QED
  BY <1>1, <1>2, <1>3, <1>4, <1>5, <1>6, <1>7, <1>8, <1>9, <1>10, <1>11, <1>12, <1>13, <1>14 DEF Next

\* The invariant holds throughout every behaviour of the gateway.
THEOREM Invariant == Spec => []IInv
BY InitIInv, Inductive, PTL DEF Spec

(***************************************************************************)
(* register() looks the address up, hashes the password and inserts under  *)
(* the unique index: however registrations race, fail or are repeated, an  *)
(* address has one user and every user one account.                        *)
(***************************************************************************)
THEOREM EveryUserCanIngest == Spec => []UsersCanIngest
<1>1. IInv => UsersCanIngest
  <2> SUFFICES ASSUME IInv, NEW i \in Id, NEW j \in Id, users[i] # NoUser
               PROVE  /\ users[i].accounts = 1
                      /\ users[j] # NoUser /\ LowerOf[users[i].email] = LowerOf[users[j].email] => i = j
    BY DEF UsersCanIngest
  <2>1. \A k \in Id : users[k] # NoUser =>
          /\ users[k].accounts = 1 /\ LowerOf[users[k].email] = users[k].email
          /\ \A l \in Id : users[l].email = users[k].email => l = k
    BY DEF IInv, UsersSound
  <2>2. QED
    BY <2>1
<1>2. QED
  BY <1>1, Invariant, PTL

(***************************************************************************)
(* Nothing revokes a token, and login and refresh decide on a row they     *)
(* read earlier: still a disabled user's last request is let in within     *)
(* AccessTTL and the time one handler may take.                            *)
(***************************************************************************)
THEOREM DisabledUsersAreOut == Spec => []AccessEnds
<1>1. IInv => AccessEnds
  BY DEF IInv
<1>2. QED
  BY <1>1, Invariant, PTL

(***************************************************************************)
(* PROBE_TIMEOUT_SECONDS limits the waits of a probe one by one.  If a     *)
(* probe consists of ProbeWaits of them at most, whatever that number is,  *)
(* and the gateway's own check lasts HandlerSeconds at most, then          *)
(* overlapping rounds and the cache never show a status older than a cache *)
(* window and a round of that length.                                      *)
(***************************************************************************)
THEOREM StatusIsFresh == Spec => []StatusFresh
<1>1. IInv => StatusFresh
  BY DEF IInv
<1>2. QED
  BY <1>1, Invariant, PTL

-----------------------------------------------------------------------------
(* The rate limiter. *)

USE BucketAssumption, TimeAssumption, ExpiryAssumption

-----------------------------------------------------------------------------
(* What a request does to a bucket. *)

\* Refilling is linear in the time that passes.
LEMMA Linear ==
  \A a, b \in Int : /\ (a - b) * Refill = a * Refill - b * Refill
                    /\ Refill * (a - b) = a * Refill - b * Refill
                    /\ a <= b => a * Refill <= b * Refill
                    /\ a * Refill \in Int
OBVIOUS

\* A bucket never holds more than its capacity, nor more than was refilled.
LEMMA RefilledFacts ==
  ASSUME NEW b \in Bucket, NEW when \in Nat
  PROVE  /\ Refilled(b, when) \in Int
         /\ Refilled(b, when) <= Capacity
         /\ b.exists => Refilled(b, when) <= b.tokens + (when - b.updated) * Refill
         /\ Refilled(b, when) = Capacity \/ (b.exists /\ Refilled(b, when) = b.tokens + (when - b.updated) * Refill)
<1>1. b.tokens \in Int /\ b.updated \in Nat /\ b.exists \in BOOLEAN
  BY DEF Bucket
<1>2. b.tokens + (when - b.updated) * Refill \in Int
  BY <1>1
<1>3. QED
  BY <1>1, <1>2 DEF Refilled

\* A request pays what it takes out, and never takes what is not there.
LEMMA TookFacts ==
  ASSUME NEW b \in Bucket, NEW when \in Nat
  PROVE  /\ Took(b, when) \in Bucket
         /\ Took(b, when).exists
         /\ Took(b, when).updated = when
         /\ Took(b, when).tokens = Refilled(b, when) - Paid(b, when)
         /\ Took(b, when).tokens <= Capacity
         /\ Paid(b, when) = 0 \/ (Paid(b, when) = Cost /\ Refilled(b, when) >= Cost)
<1>1. Refilled(b, when) \in Int /\ Refilled(b, when) <= Capacity
  BY RefilledFacts
<1>2. QED
  BY <1>1 DEF Took, Paid, Allowed, Bucket

\* What a request pays is missing from the bucket at every later time.
LEMMA TookLater ==
  ASSUME NEW b \in Bucket, NEW when \in Nat, NEW later \in Nat
  PROVE  Paid(b, when) + Refilled(Took(b, when), later)
           <= Refilled(b, when) + (later - when) * Refill
<1>1. Refilled(Took(b, when), later) <= Took(b, when).tokens + (later - when) * Refill
  BY TookFacts, RefilledFacts
<1>2. /\ Paid(b, when) \in Int /\ Refilled(b, when) \in Int /\ Refilled(Took(b, when), later) \in Int
      /\ (later - when) * Refill \in Int
  <2>1. Paid(b, when) \in Int
    BY DEF Paid
  <2>2. Refilled(b, when) \in Int
    BY RefilledFacts
  <2>3. Took(b, when) \in Bucket
    BY TookFacts
  <2>4. Refilled(Took(b, when), later) \in Int
    BY <2>3, RefilledFacts
  <2>5. (later - when) * Refill \in Int
    BY later - when \in Int, Linear
  <2>6. QED
    BY <2>1, <2>2, <2>4, <2>5
<1>3. PICK inflow \in Int : inflow = (later - when) * Refill
  BY <1>2
<1>4. Refilled(Took(b, when), later) <= Refilled(b, when) - Paid(b, when) + inflow
  BY <1>1, <1>3, TookFacts
<1>5. Paid(b, when) + Refilled(Took(b, when), later) <= Refilled(b, when) + inflow
  BY <1>2, <1>4
<1>6. QED
  BY <1>3, <1>5

\* A request leaves a funded bucket funded, and what it pays is within the limit of its time.
LEMMA TookFunded ==
  ASSUME BucketTypeOK, NEW b \in Bucket, NEW paid \in Nat, Funded(b, paid), NEW when \in Clock
  PROVE  /\ \A later \in Ahead :
              paid + Paid(b, when) + Refilled(Took(b, when), later)
                <= Capacity + Refill * (later - windowStart)
         /\ Paid(b, when) # 0 => paid + Paid(b, when) <= Capacity + Refill * (when - windowStart)
         /\ paid + Paid(b, when) \in Nat
<1>1. time \in Nat /\ windowStart \in Nat /\ when \in Nat /\ when \in Ahead
  BY DEF BucketTypeOK, Clock, Ahead
<1>2. paid + Refilled(b, when) <= Capacity + Refill * (when - windowStart)
  BY <1>1 DEF Funded
<1>3. Refilled(b, when) \in Int /\ (Paid(b, when) = 0 \/ (Paid(b, when) = Cost /\ Refilled(b, when) >= Cost))
  BY <1>1, TookFacts, RefilledFacts
<1>4. ASSUME NEW later \in Ahead
      PROVE  paid + Paid(b, when) + Refilled(Took(b, when), later)
               <= Capacity + Refill * (later - windowStart)
  <2>1. later \in Nat
    BY <1>1 DEF Ahead
  <2>2. Paid(b, when) + Refilled(Took(b, when), later) <= Refilled(b, when) + (later - when) * Refill
    BY <1>1, <2>1, TookLater
  <2>3. Refilled(Took(b, when), later) \in Int
    BY <1>1, <2>1, TookFacts, RefilledFacts
  <2>4. /\ (later - when) * Refill = later * Refill - when * Refill
        /\ Refill * (when - windowStart) = when * Refill - windowStart * Refill
        /\ Refill * (later - windowStart) = later * Refill - windowStart * Refill
        /\ later * Refill \in Int /\ when * Refill \in Int /\ windowStart * Refill \in Int
    BY <1>1, <2>1, Linear
  <2>5. QED
    BY <1>2, <1>3, <2>2, <2>3, <2>4
<1>5. QED
  BY <1>1, <1>2, <1>3, <1>4, Linear

-----------------------------------------------------------------------------
(* The steps. *)

\* The initial state satisfies the invariant.
LEMMA InitBucketIInv == BucketInit => BucketIInv
<1> SUFFICES ASSUME BucketInit PROVE BucketIInv
  OBVIOUS
<1>1. Absent \in Bucket /\ Absent.tokens <= Capacity /\ ~Absent.exists
  BY DEF Absent, Bucket
<1>2. BucketTypeOK
  BY <1>1 DEF BucketInit, BucketTypeOK
<1>3. \A when \in Nat : Refilled(Absent, when) = Capacity
  BY <1>1 DEF Refilled
<1>4. Funded(Absent, 0)
  BY <1>3, Linear DEF BucketInit, Funded, Ahead
<1>5. UpdatedRecently /\ DebtBounded
  BY <1>1 DEF BucketInit, UpdatedRecently, DebtBounded
<1>6. SkewCostBounded
  BY Linear DEF BucketInit, SkewCostBounded, Absent
<1>7. SharedLimit /\ LocalLimit
  BY Linear DEF BucketInit, SharedLimit, LocalLimit
<1>8. QED
  BY <1>2, <1>4, <1>5, <1>6, <1>7 DEF BucketInit, BucketIInv

\* What the script does to the shared bucket keeps everything said of it.
LEMMA ScriptStep ==
  ASSUME BucketIInv, NEW when \in Clock, RunScript(when), UNCHANGED <<time, windowStart>>
  PROVE  /\ shared' \in Bucket /\ shared'.tokens <= Capacity /\ taken' \in Nat
         /\ touched' \in 0..time
         /\ Funded(shared, taken)'
         /\ UpdatedRecently' /\ DebtBounded' /\ SkewCostBounded' /\ SharedLimit'
<1>1. /\ shared \in Bucket /\ taken \in Nat /\ time \in Nat /\ windowStart \in Nat
      /\ when \in Nat /\ time <= when /\ when <= time + MaxSkew
      /\ shared.tokens \in Int /\ shared.updated \in Nat
  BY DEF BucketIInv, BucketTypeOK, Clock, Bucket
<1>2. /\ shared' \in Bucket /\ shared'.exists /\ shared'.updated = when /\ shared'.tokens <= Capacity
      /\ shared'.tokens = Refilled(shared, when) - Paid(shared, when)
  BY <1>1, TookFacts DEF RunScript
<1>3. /\ Paid(shared, when) = 0 \/ (Paid(shared, when) = Cost /\ Refilled(shared, when) >= Cost)
      /\ Refilled(shared, when) \in Int
  BY <1>1, TookFacts, RefilledFacts
<1>4. Funded(shared, taken)'
  BY <1>1, TookFunded DEF BucketIInv, RunScript, Funded, Ahead
<1>5. UpdatedRecently'
  BY <1>1, <1>2 DEF UpdatedRecently, RunScript
<1>6. /\ (when - shared.updated) * Refill = when * Refill - shared.updated * Refill
      /\ (time - shared.updated) * Refill = time * Refill - shared.updated * Refill
      /\ (time - when) * Refill = time * Refill - when * Refill
      /\ time * Refill <= when * Refill
      /\ when * Refill <= time * Refill + Refill * MaxSkew
      /\ Refill * MaxSkew \in Nat
      /\ when * Refill \in Int /\ time * Refill \in Int /\ shared.updated * Refill \in Int
  BY <1>1, Linear
<1>7. \/ Refilled(shared, when) = Capacity
      \/ shared.exists /\ Refilled(shared, when) = shared.tokens + (when - shared.updated) * Refill
  BY <1>1, RefilledFacts
<1>8. shared'.tokens >= -(Refill * MaxSkew)
  <2>1. CASE Paid(shared, when) # 0
    BY <1>2, <1>3, <1>6, <2>1
  <2>2. CASE Paid(shared, when) = 0 /\ Refilled(shared, when) = Capacity
    BY <1>2, <1>3, <1>6, <2>2
  <2>3. CASE Paid(shared, when) = 0 /\ shared.exists
             /\ Refilled(shared, when) = shared.tokens + (when - shared.updated) * Refill
    BY <1>1, <1>2, <1>6, <2>3 DEF BucketIInv, DebtBounded
  <2>4. QED
    BY <1>7, <2>1, <2>2, <2>3
<1>9. shared'.tokens + (time - when) * Refill >= -(Refill * MaxSkew)
  <2>1. CASE Paid(shared, when) # 0
    BY <1>2, <1>3, <1>6, <2>1
  <2>2. CASE Paid(shared, when) = 0 /\ Refilled(shared, when) = Capacity
    BY <1>2, <1>3, <1>6, <2>2
  <2>3. CASE Paid(shared, when) = 0 /\ shared.exists
             /\ Refilled(shared, when) = shared.tokens + (when - shared.updated) * Refill
    BY <1>1, <1>2, <1>6, <2>3 DEF BucketIInv, DebtBounded
  <2>4. QED
    BY <1>7, <2>1, <2>2, <2>3
<1>10. DebtBounded'
  BY <1>2, <1>9 DEF DebtBounded
<1>11. SharedLimit'
  <2>1. CASE Paid(shared, when) = 0
    BY <1>1, <2>1 DEF RunScript, BucketIInv, SharedLimit
  <2>2. CASE Paid(shared, when) # 0
    <3>1. taken' <= Capacity + Refill * (when - windowStart)
      BY <1>1, <2>2, TookFunded DEF BucketIInv, RunScript
    <3>2. Refill * (when - windowStart) <= Refill * (time - windowStart + MaxSkew)
      BY <1>1
    <3>3. Refill * (when - windowStart) \in Int /\ Refill * (time - windowStart + MaxSkew) \in Int
          /\ taken' \in Nat
      BY <1>1, <1>3 DEF RunScript
    <3>4. QED
      BY <3>1, <3>2, <3>3 DEF SharedLimit
  <2>3. QED
    BY <2>1, <2>2
<1>12. touched' \in 0..time /\ taken' \in Nat
  BY <1>1, <1>3 DEF RunScript
<1>13. QED
  BY <1>2, <1>4, <1>5, <1>8, <1>10, <1>11, <1>12 DEF SkewCostBounded

\* What a request does to a local bucket keeps everything said of it.
LEMMA LocalStep ==
  ASSUME BucketIInv, NEW r \in Replica, AskLocal(r), UNCHANGED <<time, windowStart>>
  PROVE  /\ local' \in [Replica -> Bucket] /\ localTaken' \in [Replica -> Nat]
         /\ \A q \in Replica : local'[q].tokens <= Capacity
         /\ \A q \in Replica : Funded(local[q], localTaken[q])'
         /\ LocalLimit'
<1>1. /\ local[r] \in Bucket /\ localTaken[r] \in Nat /\ time \in Nat /\ windowStart \in Nat
      /\ time \in Clock
  BY DEF BucketIInv, BucketTypeOK, Clock
<1>2. PICK b \in Bucket : b = Took(local[r], time) /\ b.tokens <= Capacity
  BY <1>1, TookFacts
<1>3. PICK n \in Nat : n = localTaken[r] + Paid(local[r], time)
  BY <1>1, TookFunded DEF BucketIInv
<1>4. local' = [local EXCEPT ![r] = b] /\ localTaken' = [localTaken EXCEPT ![r] = n]
  BY <1>2, <1>3 DEF AskLocal
<1>5. /\ local' \in [Replica -> Bucket] /\ localTaken' \in [Replica -> Nat]
      /\ \A q \in Replica : local'[q].tokens <= Capacity
      /\ local'[r] = b /\ localTaken'[r] = n
      /\ \A q \in Replica : q # r => local'[q] = local[q] /\ localTaken'[q] = localTaken[q]
  BY <1>2, <1>4 DEF BucketIInv, BucketTypeOK
<1>6. \A later \in Ahead : n + Refilled(b, later) <= Capacity + Refill * (later - windowStart)
  BY <1>1, <1>2, <1>3, TookFunded DEF BucketIInv
<1>7. \A q \in Replica : Funded(local[q], localTaken[q])'
  BY <1>5, <1>6 DEF BucketIInv, Funded, Ahead
<1>8. n <= Capacity + Refill * (time - windowStart)
  BY <1>1, <1>3, TookFunded DEF BucketIInv, LocalLimit
<1>9. LocalLimit'
  BY <1>5, <1>8 DEF BucketIInv, LocalLimit
<1>10. QED
  BY <1>5, <1>7, <1>9

\* An expired bucket had filled up: a fresh one holds no more than it would.
LEMMA ExpireStep ==
  ASSUME BucketIInv, Expire
  PROVE  Funded(shared, taken)'
<1>1. /\ shared \in Bucket /\ shared.exists /\ time \in Nat /\ touched \in Nat /\ time <= LastSecond
      /\ shared.tokens \in Int /\ shared.updated \in Nat /\ windowStart \in Nat /\ taken \in Nat
      /\ shared.updated <= touched + MaxSkew /\ time >= touched + Expiry
      /\ shared.tokens >= -(Refill * MaxSkew)
  BY DEF BucketIInv, BucketTypeOK, Expire, Bucket, UpdatedRecently, SkewCostBounded
<1>2. ASSUME NEW when \in Ahead
      PROVE  taken + Capacity <= Capacity + Refill * (when - windowStart)
  <2>1. when \in Nat /\ when >= time
    BY <1>1 DEF Ahead
  <2>2. (Expiry - MaxSkew) * Refill <= (when - shared.updated) * Refill
    <3>1. Expiry - MaxSkew <= when - shared.updated /\ Expiry - MaxSkew \in Int /\ when - shared.updated \in Int
      BY <1>1, <2>1
    <3>2. QED
      BY <3>1, Linear
  <2>3. (Expiry - MaxSkew) * Refill - Refill * MaxSkew = Refill * (Expiry - 2 * MaxSkew)
    OBVIOUS
  <2>4. shared.tokens + (when - shared.updated) * Refill >= Capacity
    <3>1. (when - shared.updated) * Refill \in Int /\ (Expiry - MaxSkew) * Refill \in Int
          /\ Refill * MaxSkew \in Int /\ Refill * (Expiry - 2 * MaxSkew) \in Int
      BY <1>1, <2>1
    <3>2. QED
      BY <1>1, <2>2, <2>3, <3>1
  <2>5. Refilled(shared, when) = Capacity
    <3>1. (when - shared.updated) * Refill \in Int
      BY <1>1, <2>1
    <3>2. QED
      BY <1>1, <2>4, <3>1 DEF Refilled
  <2>6. taken + Refilled(shared, when) <= Capacity + Refill * (when - windowStart)
    BY DEF BucketIInv, Funded
  <2>7. QED
    BY <2>5, <2>6
<1>3. \A when \in Ahead : Refilled(Absent, when) = Capacity
  BY DEF Refilled, Absent
<1>4. QED
  BY <1>2, <1>3 DEF Expire, Funded, Ahead

\* As time passes, a funded bucket stays funded.
LEMMA LaterFunded ==
  ASSUME BucketTypeOK, Second, NEW b, NEW paid, Funded(b, paid), NEW when \in Ahead'
  PROVE  paid + Refilled(b, when) <= Capacity + Refill * (when - windowStart)
<1>1. when \in Ahead
  BY DEF BucketTypeOK, Second, Ahead
<1>2. QED
  BY <1>1 DEF Funded

\* Every step preserves the invariant.
LEMMA NextIInv == BucketIInv /\ [BucketNext]_bucketVars => BucketIInv'
<1> SUFFICES ASSUME BucketIInv, [BucketNext]_bucketVars PROVE BucketIInv'
  OBVIOUS
<1>1. ASSUME NEW when \in Clock, Check(when) PROVE BucketIInv'
  <2>1. /\ shared' \in Bucket /\ shared'.tokens <= Capacity /\ taken' \in Nat /\ touched' \in 0..time
        /\ Funded(shared, taken)' /\ UpdatedRecently' /\ DebtBounded' /\ SkewCostBounded' /\ SharedLimit'
    BY <1>1, ScriptStep DEF Check
  <2>2. BucketTypeOK'
    BY <1>1, <2>1 DEF Check, BucketIInv, BucketTypeOK
  <2>3. LocalLimit' /\ \A r \in Replica : Funded(local[r], localTaken[r])'
    BY <1>1 DEF Check, BucketIInv, LocalLimit, Funded, Ahead
  <2>4. QED
    BY <2>1, <2>2, <2>3 DEF BucketIInv
<1>2. ASSUME NEW r \in Replica, CheckDegraded(r) PROVE BucketIInv'
  <2>1. /\ local' \in [Replica -> Bucket] /\ localTaken' \in [Replica -> Nat]
        /\ \A q \in Replica : local'[q].tokens <= Capacity
        /\ \A q \in Replica : Funded(local[q], localTaken[q])'
        /\ LocalLimit'
    BY <1>2, LocalStep DEF CheckDegraded
  <2>2. BucketTypeOK'
    BY <1>2, <2>1 DEF CheckDegraded, BucketIInv, BucketTypeOK
  <2>3. /\ Funded(shared, taken)' /\ UpdatedRecently' /\ DebtBounded' /\ SkewCostBounded' /\ SharedLimit'
    BY <1>2 DEF CheckDegraded, BucketIInv, Funded, Ahead, UpdatedRecently, DebtBounded, SkewCostBounded, SharedLimit
  <2>4. QED
    BY <2>1, <2>2, <2>3 DEF BucketIInv
<1>3. ASSUME NEW r \in Replica, NEW when \in Clock, CheckAnswerLost(r, when) PROVE BucketIInv'
  <2>1. /\ shared' \in Bucket /\ shared'.tokens <= Capacity /\ taken' \in Nat /\ touched' \in 0..time
        /\ Funded(shared, taken)' /\ UpdatedRecently' /\ DebtBounded' /\ SkewCostBounded' /\ SharedLimit'
    BY <1>3, ScriptStep DEF CheckAnswerLost
  <2>2. /\ local' \in [Replica -> Bucket] /\ localTaken' \in [Replica -> Nat]
        /\ \A q \in Replica : local'[q].tokens <= Capacity
        /\ \A q \in Replica : Funded(local[q], localTaken[q])'
        /\ LocalLimit'
    BY <1>3, LocalStep DEF CheckAnswerLost
  <2>3. BucketTypeOK'
    BY <1>3, <2>1, <2>2 DEF CheckAnswerLost, BucketIInv, BucketTypeOK
  <2>4. QED
    BY <2>1, <2>2, <2>3 DEF BucketIInv
<1>4. ASSUME NEW r \in Replica, Restart(r) PROVE BucketIInv'
  <2>1. Absent \in Bucket /\ Absent.tokens <= Capacity /\ ~Absent.exists
    BY DEF Absent, Bucket
  <2>2. /\ local'[r] = Absent /\ localTaken'[r] = 0
        /\ \A q \in Replica : q # r => local'[q] = local[q] /\ localTaken'[q] = localTaken[q]
        /\ local' \in [Replica -> Bucket] /\ localTaken' \in [Replica -> Nat]
    BY <1>4, <2>1 DEF Restart, BucketIInv, BucketTypeOK
  <2>3. BucketTypeOK'
    BY <1>4, <2>1, <2>2 DEF Restart, BucketIInv, BucketTypeOK
  <2>4. \A when \in Ahead : 0 + Refilled(Absent, when) <= Capacity + Refill * (when - windowStart)
    BY <2>1, Linear DEF BucketIInv, BucketTypeOK, Ahead, Refilled
  <2>5. \A q \in Replica : Funded(local[q], localTaken[q])'
    BY <1>4, <2>2, <2>4 DEF Restart, BucketIInv, Funded, Ahead
  <2>6. 0 <= Capacity + Refill * (time - windowStart)
    BY Linear DEF BucketIInv, BucketTypeOK
  <2>7. LocalLimit'
    BY <1>4, <2>2, <2>6 DEF Restart, BucketIInv, LocalLimit
  <2>8. /\ Funded(shared, taken)' /\ UpdatedRecently' /\ DebtBounded' /\ SkewCostBounded' /\ SharedLimit'
    BY <1>4 DEF Restart, BucketIInv, Funded, Ahead, UpdatedRecently, DebtBounded, SkewCostBounded, SharedLimit
  <2>9. QED
    BY <2>3, <2>5, <2>7, <2>8 DEF BucketIInv
<1>5. ASSUME Expire PROVE BucketIInv'
  <2>1. Absent \in Bucket /\ Absent.tokens = Capacity /\ ~Absent.exists
    BY DEF Absent, Bucket
  <2>2. BucketTypeOK'
    BY <1>5, <2>1 DEF Expire, BucketIInv, BucketTypeOK
  <2>3. UpdatedRecently' /\ DebtBounded'
    BY <1>5, <2>1 DEF Expire, UpdatedRecently, DebtBounded
  <2>4. SkewCostBounded'
    BY <1>5, <2>1, Linear DEF Expire, SkewCostBounded
  <2>5. SharedLimit' /\ LocalLimit' /\ \A r \in Replica : Funded(local[r], localTaken[r])'
    BY <1>5 DEF Expire, BucketIInv, SharedLimit, LocalLimit, Funded, Ahead
  <2>6. QED
    BY <1>5, <2>2, <2>3, <2>4, <2>5, ExpireStep DEF BucketIInv
<1>6. ASSUME Second PROVE BucketIInv'
  <2>1. BucketTypeOK'
    BY <1>6 DEF Second, BucketIInv, BucketTypeOK
  <2>2. Funded(shared, taken)'
    BY <1>6, LaterFunded DEF Second, BucketIInv, Funded
  <2>3. \A r \in Replica : Funded(local[r], localTaken[r])'
    BY <1>6, LaterFunded DEF Second, BucketIInv, Funded
  <2>4. UpdatedRecently' /\ SkewCostBounded'
    BY <1>6 DEF Second, BucketIInv, UpdatedRecently, SkewCostBounded
  <2>5. /\ time \in Nat /\ time' = time + 1 /\ windowStart \in Nat
        /\ shared.updated \in Nat /\ shared.tokens \in Int
    BY <1>6 DEF Second, BucketIInv, BucketTypeOK, Bucket
  <2>6. (time' - shared.updated) * Refill = (time - shared.updated) * Refill + Refill
    <3>1. time' - shared.updated = (time - shared.updated) + 1
      BY <2>5
    <3>2. ((time - shared.updated) + 1) * Refill = (time - shared.updated) * Refill + Refill
      BY <2>5
    <3>3. QED
      BY <3>1, <3>2
  <2>7. DebtBounded'
    <3>1. (time - shared.updated) * Refill \in Int
      BY <2>5
    <3>2. QED
      BY <1>6, <2>5, <2>6, <3>1 DEF Second, BucketIInv, DebtBounded
  <2>8. /\ Refill * (time' - windowStart + MaxSkew) = Refill * (time - windowStart + MaxSkew) + Refill
        /\ Refill * (time' - windowStart) = Refill * (time - windowStart) + Refill
        /\ Refill * (time - windowStart + MaxSkew) \in Int /\ Refill * (time - windowStart) \in Int
    BY <2>5
  <2>9. SharedLimit' /\ LocalLimit'
    BY <1>6, <2>8 DEF Second, BucketIInv, BucketTypeOK, SharedLimit, LocalLimit
  <2>10. QED
    BY <2>1, <2>2, <2>3, <2>4, <2>7, <2>9 DEF BucketIInv
<1>7. ASSUME OpenWindow PROVE BucketIInv'
  <2>1. BucketTypeOK'
    BY <1>7 DEF OpenWindow, BucketIInv, BucketTypeOK
  <2>2. ASSUME NEW b \in Bucket, NEW when \in Ahead
        PROVE  0 + Refilled(b, when) <= Capacity + Refill * (when - time)
    <3>1. when \in Nat /\ when >= time /\ time \in Nat
      BY DEF Ahead, BucketIInv, BucketTypeOK
    <3>2. Refill * (when - time) \in Nat
      BY <3>1
    <3>3. QED
      BY <3>1, <3>2, RefilledFacts
  <2>3. Funded(shared, taken)' /\ \A r \in Replica : Funded(local[r], localTaken[r])'
    BY <1>7, <2>2 DEF OpenWindow, BucketIInv, BucketTypeOK, Funded, Ahead
  <2>4. UpdatedRecently' /\ DebtBounded' /\ SkewCostBounded'
    BY <1>7 DEF OpenWindow, BucketIInv, UpdatedRecently, DebtBounded, SkewCostBounded
  <2>5. 0 <= Capacity + Refill * (time - time + MaxSkew) /\ 0 <= Capacity + Refill * (time - time)
    BY Linear DEF BucketIInv, BucketTypeOK
  <2>6. SharedLimit' /\ LocalLimit'
    <3>1. time' = time /\ windowStart' = time /\ taken' = 0 /\ \A r \in Replica : localTaken'[r] = 0
      BY <1>7 DEF OpenWindow
    <3>2. QED
      BY <2>5, <3>1 DEF SharedLimit, LocalLimit
  <2>7. QED
    BY <2>1, <2>3, <2>4, <2>6 DEF BucketIInv
<1>8. CASE UNCHANGED bucketVars
  BY <1>8 DEF bucketVars, BucketIInv, BucketTypeOK, Funded, Ahead, UpdatedRecently, DebtBounded, SkewCostBounded,
              SharedLimit, LocalLimit
<1>9. QED
  BY <1>1, <1>2, <1>3, <1>4, <1>5, <1>6, <1>7, <1>8 DEF BucketNext

-----------------------------------------------------------------------------
(* The theorems. *)

\* BucketIInv is an invariant of the limiter.
THEOREM BucketInvariant == BucketSpec => []BucketIInv
<1>1. QED
  BY InitBucketIInv, NextIInv, PTL DEF BucketSpec

\* No window of time sees more taken from the shared bucket than its limit and the skew allow.
THEOREM SharedRate == BucketSpec => []SharedLimit
<1>1. BucketIInv => SharedLimit
  BY DEF BucketIInv
<1>2. QED
  BY BucketInvariant, <1>1, PTL

\* Nor more from a replica's own bucket than its limit.
THEOREM LocalRate == BucketSpec => []LocalLimit
<1>1. BucketIInv => LocalLimit
  BY DEF BucketIInv
<1>2. QED
  BY BucketInvariant, <1>1, PTL

\* Disagreeing clocks cost a user at most the tokens of the time they are apart.
THEOREM SkewCost == BucketSpec => []SkewCostBounded
<1>1. BucketIInv => SkewCostBounded
  BY DEF BucketIInv
<1>2. QED
  BY BucketInvariant, <1>1, PTL

-----------------------------------------------------------------------------
(* retry_after. *)

\* What rounding down loses is less than the divisor.
LEMMA Division ==
  \A a \in Int : /\ a \div Refill \in Int
                 /\ (a \div Refill) * Refill <= a
                 /\ a < (a \div Refill) * Refill + Refill
BY BucketAssumption

\* What a bucket holds some seconds after it was written.
LEMMA Waited ==
  ASSUME NEW b \in Bucket, b.exists, NEW w \in Int
  PROVE  Allowed(b, b.updated + w) <=> b.tokens + w * Refill >= Cost
<1>1. b.tokens \in Int /\ b.updated \in Nat /\ w * Refill \in Int
  BY Linear DEF Bucket
<1>2. (b.updated + w) - b.updated = w
  BY <1>1
<1>3. Refilled(b, b.updated + w) = IF b.tokens + w * Refill <= Capacity THEN b.tokens + w * Refill
                                                                        ELSE Capacity
  BY <1>1, <1>2 DEF Refilled
<1>4. QED
  BY <1>1, <1>3 DEF Allowed

\* The script's hint is exact: enough, and not a second too long.
LEMMA HintExact ==
  ASSUME NEW t \in Int
  PROVE  /\ RetryAfter(t) \in Int
         /\ t + RetryAfter(t) * Refill >= Cost
         /\ ~(t + (RetryAfter(t) - 1) * Refill >= Cost)
<1> DEFINE a == Cost - t + Refill - 1
           w == a \div Refill
<1>1. a \in Int
  OBVIOUS
<1>2. w \in Int /\ w * Refill <= a /\ a < w * Refill + Refill
  BY <1>1, Division
<1>3. w * Refill \in Int /\ (w - 1) * Refill = w * Refill - Refill
  BY <1>2, Linear
<1> HIDE DEF w
<1>4. t + w * Refill >= Cost /\ ~(t + (w - 1) * Refill >= Cost)
  BY <1>2, <1>3
<1>5. QED
  BY <1>2, <1>4 DEF RetryAfter, w

\* The local bucket's hint is enough.
LEMMA LocalHintSuffices ==
  ASSUME NEW t \in Int
  PROVE  LocalRetryAfter(t) \in Int /\ t + LocalRetryAfter(t) * Refill >= Cost
<1> DEFINE a == Cost - t
           w == a \div Refill
<1>1. a \in Int
  OBVIOUS
<1>2. w \in Int /\ a < w * Refill + Refill
  BY <1>1, Division
<1>3. w * Refill \in Int /\ (w + 1) * Refill = w * Refill + Refill
  BY <1>2, Linear
<1> HIDE DEF w
<1>4. t + (w + 1) * Refill >= Cost
  BY <1>2, <1>3
<1>5. QED
  BY <1>2, <1>4 DEF LocalRetryAfter, w

(***************************************************************************)
(* A client that waits as long as the 429 tells it is let in, from the     *)
(* shared bucket and from a replica's own, also when a clock that lags has *)
(* left the bucket below zero; the script never asks for a second more.    *)
(***************************************************************************)
THEOREM RetryAfterIsRight == BucketSpec => []RetryAfterSuffices
<1>1. BucketTypeOK => RetryAfterSuffices
  <2> SUFFICES ASSUME BucketTypeOK PROVE RetryAfterSuffices
    OBVIOUS
  <2>1. shared \in Bucket /\ shared.tokens \in Int /\ shared.updated \in Nat
    BY DEF BucketTypeOK, Bucket
  <2>2. ASSUME shared.exists
        PROVE  LET wait == RetryAfter(shared.tokens)
               IN  Allowed(shared, shared.updated + wait) /\ ~Allowed(shared, shared.updated + wait - 1)
    <3> DEFINE w == RetryAfter(shared.tokens)
    <3>1. w \in Int /\ shared.tokens + w * Refill >= Cost /\ ~(shared.tokens + (w - 1) * Refill >= Cost)
      BY <2>1, HintExact
    <3>2. shared.updated + w - 1 = shared.updated + (w - 1)
      BY <2>1, <3>1
    <3> HIDE DEF w
    <3>3. Allowed(shared, shared.updated + w) /\ ~Allowed(shared, shared.updated + (w - 1))
      BY <2>1, <2>2, <3>1, Waited
    <3>4. QED
      BY <3>2, <3>3 DEF w
  <2>3. ASSUME NEW r \in Replica, local[r].exists
        PROVE  Allowed(local[r], local[r].updated + LocalRetryAfter(local[r].tokens))
    <3>1. local[r] \in Bucket /\ local[r].tokens \in Int
      BY DEF BucketTypeOK, Bucket
    <3>2. QED
      BY <2>3, <3>1, LocalHintSuffices, Waited
  <2>4. QED
    BY <2>2, <2>3 DEF RetryAfterSuffices
<1>2. BucketIInv => BucketTypeOK
  BY DEF BucketIInv
<1>3. QED
  BY BucketInvariant, <1>1, <1>2, PTL
=============================================================================
