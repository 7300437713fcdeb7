------------------------------- MODULE Ledger -------------------------------
(***************************************************************************)
(* Ingestion: POST /transactions and POST /transactions/import write new   *)
(* ledger rows, their categorization jobs and the account's balance in one *)
(* database transaction, with the account row locked, and answer only once *)
(* it is committed.  Sessions of all replicas interleave; each may fail at *)
(* any point, and clients repeat requests whose answer they did not get.   *)
(*                                                                         *)
(* SQLAlchemy keeps the account in the session's identity map: `held` is   *)
(* the balance of that object, written back only by a flush, and `written` *)
(* is what the transaction's own flushes have made of the stored balance.  *)
(***************************************************************************)
EXTENDS Integers, Sequences, FiniteSetsExt

CONSTANTS Account, User, Session,
          OwnerOf,     \* the user an account belongs to
          ExtId,       \* external_tx_id values
          Amount,      \* amounts of the requests, in the smallest unit
          MaxRows,     \* rows an import may have (500 in the code)
          MaxBalance   \* the largest balance Numeric(18, 2) can store

ASSUME OwnerAssumption == OwnerOf \in [Account -> User]
ASSUME AmountAssumption == Amount \subseteq Int \ {0}
ASSUME ExtIdAssumption == IsFiniteSet(ExtId)   \* strings of at most 120 characters
ASSUME BoundAssumption == MaxBalance \in Nat /\ MaxRows \in Nat

VARIABLES balance,  \* accounts.balance
          ledger,   \* the transactions of an account, by external_tx_id
          session,  \* the request sessions
          created,  \* history: answers that announced a row as newly created
          told      \* history: the rows that answers have shown for an external_tx_id

vars == <<balance, ledger, session, created, told>>

\* A transaction, as its amount in the unit of its account: the code adds it whatever its currency.
Row == Amount
NoRow == 0

\* One line of a request: a row and its external_tx_id.
Line == [ext : ExtId, row : Row]
File == UNION {[1..n -> Line] : n \in 0..(MaxRows + 1)}

\* A session before its first statement, with the account as it was read, if it was.
Begun(pc, u, a, lines, b, read) ==
  [pc |-> pc, user |-> u, account |-> a, todo |-> lines,
   held |-> b, loaded |-> read, dirty |-> FALSE, written |-> 0, wrote |-> FALSE,
   fresh |-> {}, replies |-> {}]
Closed == Begun("closed", "none", "none", <<>>, 0, FALSE)

Keys(lines) == {line.ext : line \in lines}

\* The account row is locked from the first get(for_update=True) to the session's end.
Locked(a) == \E s \in Session : session[s].account = a /\ session[s].pc \in {"ingesting", "more"}

Init ==
  /\ balance = [a \in Account |-> 0]
  /\ ledger = [a \in Account |-> [x \in ExtId |-> NoRow]]
  /\ session = [s \in Session |-> Closed]
  /\ created = [a \in Account |-> [x \in ExtId |-> 0]]
  /\ told = [a \in Account |-> [x \in ExtId |-> {}]]

-----------------------------------------------------------------------------
\* A validated POST /transactions: one line, no account loaded yet.
Create(s, u, a, line) ==
  /\ session[s].pc = "closed"
  /\ session' = [session EXCEPT ![s] = Begun("locking", u, a, <<line>>, 0, FALSE)]
  /\ UNCHANGED <<balance, ledger, created, told>>

\* parse_csv: at least one row, at most MaxRows, and no external_tx_id twice.
ValidFile(file) ==
  /\ Len(file) \in 1..MaxRows
  /\ \A i, j \in 1..Len(file) : file[i].ext = file[j].ext => i = j

(***************************************************************************)
(* POST /transactions/import reads the account without a lock, to check    *)
(* its owner and to know its currency, and parses the whole file before    *)
(* the first write.  The account stays in the identity map as it was read. *)
(***************************************************************************)
Import(s, u, a, file) ==
  /\ session[s].pc = "closed"
  /\ OwnerOf[a] = u
  /\ ValidFile(file)
  /\ session' = [session EXCEPT ![s] = Begun("locking", u, a, file, balance[a], TRUE)]
  /\ UNCHANGED <<balance, ledger, created, told>>

\* flush(): the dirty balance becomes the transaction's own version of the row.
Flushed(c) ==
  IF c.dirty THEN [c EXCEPT !.written = c.held, !.wrote = TRUE, !.dirty = FALSE] ELSE c

\* Mutant: without populate_existing an object that is already loaded keeps its balance.
ReloadedOnce(c) ==
  IF c.loaded THEN c ELSE [c EXCEPT !.held = balance[c.account], !.loaded = TRUE]

\* The SELECT ... FOR UPDATE overwrites the object in the identity map (populate_existing).
Reloaded(c) ==
  [c EXCEPT !.held = IF c.wrote THEN c.written ELSE balance[c.account], !.loaded = TRUE]

\* A flush that would store a balance out of range raises.
InRange(c) == c.dirty => c.held \in -MaxBalance..MaxBalance

\* Mutant: the import's first read takes a share lock, which the row lock then waits for.
LockAfterReaders(s) ==
  LET c == session[s] IN
  /\ \/ c.pc = "locking" /\ ~\E t \in Session \ {s} : session[t].loaded
     \/ c.pc = "more" /\ c.todo # <<>>
  /\ InRange(c)
  /\ session' = [session EXCEPT ![s] = IF OwnerOf[c.account] = c.user
                                       THEN [Reloaded(Flushed(c)) EXCEPT !.pc = "ingesting"]
                                       ELSE Closed]
  /\ UNCHANGED <<balance, ledger, created, told>>

(***************************************************************************)
(* load_owned_account(for_update=True), once per line: flush, wait for the *)
(* row's lock unless this session has it already, reload.  Another user's  *)
(* account ends the request.                                               *)
(***************************************************************************)
LockAccount(s) ==
  LET c == session[s] IN
  /\ \/ c.pc = "locking" /\ ~Locked(c.account)
     \/ c.pc = "more" /\ c.todo # <<>>
  /\ InRange(c)
  /\ session' = [session EXCEPT ![s] = IF OwnerOf[c.account] = c.user
                                       THEN [Reloaded(Flushed(c)) EXCEPT !.pc = "ingesting"]
                                       ELSE Closed]
  /\ UNCHANGED <<balance, ledger, created, told>>

\* Mutant: the lookup misses the committed rows.
ExistingOwn(c, x) ==
  IF \E line \in c.fresh : line.ext = x
  THEN (CHOOSE line \in c.fresh : line.ext = x).row
  ELSE NoRow

\* What the session's transaction sees under an external_tx_id: its own rows, and committed ones.
Existing(c, x) ==
  IF \E line \in c.fresh : line.ext = x
  THEN (CHOOSE line \in c.fresh : line.ext = x).row
  ELSE ledger[c.account][x]

\* adjust_balance on the object in the identity map.
Adjusted(c, amount) == [c EXCEPT !.held = @ + amount, !.dirty = TRUE]

\* ingest_transaction on the next line: a replay, or a new row with its job and audit entry.
IngestLine(s) ==
  LET c == session[s]
      line == Head(c.todo)
      rest == [c EXCEPT !.pc = "more", !.todo = Tail(@)]
      old == Existing(c, line.ext)
  IN
  /\ c.pc = "ingesting"
  /\ session' = [session EXCEPT ![s] =
       IF old # NoRow
       THEN [rest EXCEPT !.replies = @ \cup {[ext |-> line.ext, row |-> old, new |-> FALSE]}]
       ELSE [Adjusted(rest, line.row) EXCEPT
               !.fresh = @ \cup {line},
               !.replies = @ \cup {[ext |-> line.ext, row |-> line.row, new |-> TRUE]}]]
  /\ UNCHANGED <<balance, ledger, created, told>>

\* session.commit(): flush, and everything becomes visible at once.
Committed(s) ==
  LET c == Flushed(session[s]) IN
  /\ InRange(session[s])
  /\ balance' = IF c.wrote THEN [balance EXCEPT ![c.account] = c.written] ELSE balance
  /\ ledger' = [ledger EXCEPT ![c.account] =
                  [x \in ExtId |-> IF x \in Keys(c.fresh) THEN Existing(c, x) ELSE @[x]]]

\* The answer: 202 for new rows, 200 for a replay, ids and counts for an import.
Answer(s) ==
  LET c == session[s] IN
  /\ created' = [created EXCEPT ![c.account] =
       [x \in ExtId |-> @[x] + Cardinality({r \in c.replies : r.ext = x /\ r.new})]]
  /\ told' = [told EXCEPT ![c.account] =
       [x \in ExtId |-> @[x] \cup {r.row : r \in {q \in c.replies : q.ext = x}}]]

\* Mutant: the answer leaves before the commit, which may then fail.
AnswerThenCommit(s, answered) ==
  /\ session[s].pc = "more"
  /\ session[s].todo = <<>>
  /\ Answer(s)
  /\ IF answered THEN Committed(s) ELSE UNCHANGED <<balance, ledger>>
  /\ session' = [session EXCEPT ![s] = Closed]

\* The request commits; the client gets the answer, or the connection breaks first.
Commit(s, answered) ==
  /\ session[s].pc = "more"
  /\ session[s].todo = <<>>
  /\ Committed(s)
  /\ IF answered THEN Answer(s) ELSE UNCHANGED <<created, told>>
  /\ session' = [session EXCEPT ![s] = Closed]

\* The session is rolled back: an exception, a refused flush, a lost connection or a crash.
Rollback(s) ==
  /\ session[s].pc # "closed"
  /\ session' = [session EXCEPT ![s] = Closed]
  /\ UNCHANGED <<balance, ledger, created, told>>

Request(s) ==
  \E u \in User, a \in Account :
    \/ \E line \in Line : Create(s, u, a, line)
    \/ \E file \in File : Import(s, u, a, file)

\* A flush out of range leaves nothing but the rollback.
Proceed(s) ==
  \/ IngestLine(s)
  \/ \E answered \in BOOLEAN : Commit(s, answered)
  \/ ~InRange(session[s]) /\ Rollback(s)

Next == \E s \in Session : Request(s) \/ LockAccount(s) \/ Proceed(s) \/ Rollback(s)

Spec == Init /\ [][Next]_vars

\* A session that runs goes on, and PostgreSQL's lock queue serves the ones that wait.
FairSpec == Spec /\ \A s \in Session : WF_vars(Proceed(s)) /\ SF_vars(LockAccount(s))

-----------------------------------------------------------------------------
Reply == [ext : ExtId, row : Row, new : BOOLEAN]
SessionState ==
  [pc : {"closed", "locking", "ingesting", "more"},
   user : User \cup {"none"}, account : Account \cup {"none"}, todo : Seq(Line),
   held : Int, loaded : BOOLEAN, dirty : BOOLEAN,
   written : -MaxBalance..MaxBalance, wrote : BOOLEAN,
   fresh : SUBSET Line, replies : SUBSET Reply]

TypeOK ==
  /\ balance \in [Account -> -MaxBalance..MaxBalance]
  /\ ledger \in [Account -> [ExtId -> Row \cup {NoRow}]]
  /\ created \in [Account -> [ExtId -> Nat]]
  /\ told \in [Account -> [ExtId -> SUBSET Row]]
  /\ session \in [Session -> SessionState]

\* The sum of an account's rows.
Sum(rows) == MapThenSumSet(LAMBDA x : rows[x], ExtId)

(***************************************************************************)
(* The balance is the sum of the committed rows, whatever requests ran     *)
(* side by side or failed half-way: no increment is lost to a balance read *)
(* before the lock, or to one not flushed before the next line's reload.   *)
(***************************************************************************)
BalanceIsLedgerSum == \A a \in Account : balance[a] = Sum(ledger[a])

(***************************************************************************)
(* An answer is a promise: every row shown to a client is the committed    *)
(* row of its external_tx_id, and at most one answer ever announced it as  *)
(* new, however often and with whatever amounts the request is repeated.   *)
(***************************************************************************)
AnswersAreDurable ==
  \A a \in Account, x \in ExtId :
    /\ told[a][x] \subseteq {ledger[a][x]}
    /\ created[a][x] <= 1

(***************************************************************************)
(* Ledger rows are never rewritten: a replay with another amount leaves    *)
(* the row, and so the balance, as it was.                                 *)
(***************************************************************************)
RowsAreFinal ==
  [][\A a \in Account, x \in ExtId :
       ledger[a][x] # NoRow => ledger'[a][x] = ledger[a][x]]_vars

\* Every request ends: sessions that wait for an account do not wait for each other.
RequestsEnd == \A s \in Session : session[s].pc # "closed" ~> session[s].pc = "closed"

-----------------------------------------------------------------------------
(* The inductive invariant behind the safety properties, in parts: of a    *)
(* session c, and of the whole.                                            *)

\* A session that holds its account's lock.
Works(c) == c.pc \in {"ingesting", "more"}

\* An open request has an account, and a line to go on with unless it may commit.
Ready(c) == c.account \in Account /\ (c.pc # "more" => c.todo # <<>>)

\* A request that waits for the lock has written nothing.
NothingYet(c) == c.fresh = {} /\ c.replies = {} /\ ~c.dirty /\ ~c.wrote

\* A session inserts only what is not committed, and nothing twice.
FreshIsNew(c) ==
  \A line \in c.fresh :
    /\ ledger[c.account][line.ext] = NoRow
    /\ \A other \in c.fresh : other.ext = line.ext => other = line

\* What a session will answer is what its transaction sees; it announces only its own rows.
RepliesHold(c) ==
  \A r \in c.replies :
    /\ r.row = Existing(c, r.ext)
    /\ r.new => r.ext \in Keys(c.fresh)

\* The balance and the rows as a session's transaction has them.
Current(c) ==
  IF c.dirty THEN c.held ELSE IF c.wrote THEN c.written ELSE balance[c.account]
Seen(c) == [x \in ExtId |-> Existing(c, x)]

\* They agree, and the object in the identity map is current whenever a line is added to it.
BalanceInHand(c) ==
  /\ Current(c) = Sum(Seen(c))
  /\ c.pc = "ingesting" => c.held = Current(c)

Sound(c) ==
  /\ c.pc # "closed" => Ready(c)
  /\ c.pc = "locking" => NothingYet(c)
  /\ Works(c) => FreshIsNew(c) /\ RepliesHold(c) /\ BalanceInHand(c)

\* The lock admits one session to an account.
OneWriter ==
  \A s, t \in Session :
    Works(session[s]) /\ Works(session[t]) /\ session[s].account = session[t].account => s = t

\* What has been shown or announced is in the ledger.
AnnouncedIsStored ==
  \A a \in Account, x \in ExtId :
    ledger[a][x] = NoRow => told[a][x] = {} /\ created[a][x] = 0

IInv ==
  /\ TypeOK
  /\ \A s \in Session : Sound(session[s])
  /\ OneWriter
  /\ AnnouncedIsStored
  /\ AnswersAreDurable
  /\ BalanceIsLedgerSum
=============================================================================
