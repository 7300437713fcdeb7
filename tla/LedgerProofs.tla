---------------------------- MODULE LedgerProofs ----------------------------
(***************************************************************************)
(* Proofs about Ledger, for any accounts, users, request sessions, amounts *)
(* and bounds, and any finite set of external_tx_id values.                *)
(***************************************************************************)
EXTENDS Ledger, FiniteSetTheorems, WellFoundedInduction, TLAPS

USE OwnerAssumption, AmountAssumption, ExtIdAssumption, BoundAssumption

-----------------------------------------------------------------------------
(* The sum of an account's rows.  Sum is a fold, that is a recursive function *)
(* on the subsets of ExtId: it exists, by induction on their size, and two    *)
(* sums that differ in one row take the rows in the same order.               *)

\* Induction on the naturals, for a set of them.
LEMMA Induction ==
  ASSUME NEW T \in SUBSET Nat, 0 \in T, \A n \in T : n + 1 \in T
  PROVE  \A n \in Nat : n \in T
<1> SUFFICES ASSUME NEW k \in Nat, k \notin T
             PROVE  FALSE
  OBVIOUS
<1> DEFINE Missing == Nat \ T
<1>1. PICK n \in Missing : \A m \in Missing : ~(<<m, n>> \in OpToRel(<, Nat))
  <2>1. Missing \subseteq Nat /\ Missing # {}
    OBVIOUS
  <2>2. QED
    BY <2>1, NatLessThanWellFounded, WFMin
<1>2. n # 0 /\ n - 1 \in Nat /\ n - 1 < n
  OBVIOUS
<1>3. n - 1 \in T
  BY <1>1, <1>2 DEF OpToRel
<1>4. (n - 1) + 1 = n
  OBVIOUS
<1>5. QED
  BY <1>3, <1>4

\* The row a fold takes next, the sets of at most n rows, and one step of the fold.
Pick(s) == CHOOSE x \in s : TRUE
Small(n) == {s \in SUBSET ExtId : Cardinality(s) <= n}
Adding(f, g, s) == IF s = {} THEN 0 ELSE f[Pick(s)] + g[s \ {Pick(s)}]

\* A set without the row taken from it is a smaller one.
LEMMA Smaller ==
  ASSUME NEW s \in SUBSET ExtId, s # {}
  PROVE  /\ Pick(s) \in s
         /\ s \ {Pick(s)} \in SUBSET ExtId
         /\ Cardinality(s) \in Nat /\ Cardinality(s \ {Pick(s)}) \in Nat
         /\ Cardinality(s) = Cardinality(s \ {Pick(s)}) + 1
<1>1. Pick(s) \in s
  BY DEF Pick
<1>2. IsFiniteSet(s)
  BY FS_Subset
<1>3. Cardinality(s) \in Nat /\ Cardinality(s \ {Pick(s)}) = Cardinality(s) - 1
  BY <1>1, <1>2, FS_RemoveElement, FS_CardinalityType
<1>4. IsFiniteSet(s \ {Pick(s)}) /\ Cardinality(s \ {Pick(s)}) \in Nat
  BY <1>2, FS_RemoveElement, FS_CardinalityType
<1>5. QED
  BY <1>1, <1>3, <1>4

\* The only set of no rows is the empty one.
LEMMA OnlyEmpty == \A s \in Small(0) : s = {}
<1> SUFFICES ASSUME NEW s \in SUBSET ExtId, Cardinality(s) <= 0, s # {}
             PROVE  FALSE
  BY DEF Small
<1>1. /\ Cardinality(s) \in Nat /\ Cardinality(s \ {Pick(s)}) \in Nat
      /\ Cardinality(s) = Cardinality(s \ {Pick(s)}) + 1
  BY Smaller
<1>2. QED
  BY <1>1

\* The fold's function exists on the sets of at most n rows.
LEMMA PartialSums ==
  ASSUME NEW f
  PROVE  \A n \in Nat : \E g : g = [s \in Small(n) |-> Adding(f, g, s)]
<1> DEFINE Has(n) == \E g : g = [s \in Small(n) |-> Adding(f, g, s)]
           T == {n \in Nat : Has(n)}
<1>1. 0 \in T
  <2> DEFINE g == [s \in Small(0) |-> 0]
  <2>1. \A s \in Small(0) : s = {}
    BY OnlyEmpty
  <2>2. g = [s \in Small(0) |-> Adding(f, g, s)]
    BY <2>1 DEF Adding
  <2>3. QED
    BY <2>2
<1>2. ASSUME NEW n \in T
      PROVE  n + 1 \in T
  <2>1. n \in Nat
    OBVIOUS
  <2>2. PICK g : g = [s \in Small(n) |-> Adding(f, g, s)]
    OBVIOUS
  <2> DEFINE h == [s \in Small(n + 1) |-> Adding(f, g, s)]
  <2>3. \A s \in Small(n) : s \in Small(n + 1) /\ h[s] = g[s]
    <3>1. \A s \in Small(n) : s \in Small(n + 1)
      <4> SUFFICES ASSUME NEW s \in Small(n) PROVE Cardinality(s) <= n + 1
        BY DEF Small
      <4>1. IsFiniteSet(s) /\ Cardinality(s) <= n
        BY FS_Subset DEF Small
      <4>2. Cardinality(s) \in Nat
        BY <4>1, FS_CardinalityType
      <4>3. QED
        BY <2>1, <4>1, <4>2
    <3>2. \A s \in Small(n) : g[s] = Adding(f, g, s)
      BY <2>2
    <3>3. QED
      BY <3>1, <3>2
  <2>4. \A s \in Small(n + 1) : Adding(f, g, s) = Adding(f, h, s)
    <3> SUFFICES ASSUME NEW s \in Small(n + 1), s # {}
                 PROVE  g[s \ {Pick(s)}] = h[s \ {Pick(s)}]
      BY DEF Adding
    <3>1. s \ {Pick(s)} \in Small(n)
      <4>1. s \in SUBSET ExtId /\ Cardinality(s) <= n + 1
        BY DEF Small
      <4>2. QED
        BY <2>1, <4>1, Smaller DEF Small
    <3>2. QED
      BY <2>3, <3>1
  <2>5. h = [s \in Small(n + 1) |-> Adding(f, h, s)]
    BY <2>4
  <2> HIDE DEF h
  <2>6. QED
    BY <2>1, <2>5
<1> HIDE DEF Has
<1>3. \A n \in Nat : n \in T
  BY <1>1, <1>2, Induction
<1>4. QED
  BY <1>3 DEF Has

\* And so on all of them, which is what Sum computes.
LEMMA SumUnfolds ==
  ASSUME NEW f
  PROVE  \E g : g = [s \in SUBSET ExtId |-> Adding(f, g, s)] /\ Sum(f) = g[ExtId]
<1>1. \A s \in SUBSET ExtId : Cardinality(s) <= Cardinality(ExtId)
  BY FS_Subset
<1>2. Cardinality(ExtId) \in Nat /\ Small(Cardinality(ExtId)) = SUBSET ExtId
  BY <1>1, FS_CardinalityType DEF Small
<1>3. \E g : g = [s \in SUBSET ExtId |-> Adding(f, g, s)]
  <2>1. \E g : g = [s \in Small(Cardinality(ExtId)) |-> Adding(f, g, s)]
    BY <1>2, PartialSums
  <2>2. QED
    BY <1>2, <2>1
<1>4. Sum(f) = (CHOOSE g : g = [s \in SUBSET ExtId |-> Adding(f, g, s)])[ExtId]
  BY DEF Sum, MapThenSumSet, MapThenFoldSet, Pick, Adding
<1> DEFINE g == CHOOSE g : g = [s \in SUBSET ExtId |-> Adding(f, g, s)]
<1>5. g = [s \in SUBSET ExtId |-> Adding(f, g, s)]
  BY <1>3
<1> HIDE DEF g
<1>6. QED
  BY <1>4, <1>5 DEF g

\* A fact about every finite set of rows, by induction on its size.
LEMMA BySize ==
  ASSUME NEW G \in SUBSET (SUBSET ExtId), {} \in G,
         \A s \in SUBSET ExtId : s # {} /\ s \ {Pick(s)} \in G => s \in G
  PROVE  ExtId \in G
<1> DEFINE T == {n \in Nat : Small(n) \subseteq G}
<1>1. 0 \in T
  BY OnlyEmpty
<1>2. ASSUME NEW n \in T
      PROVE  n + 1 \in T
  <2> SUFFICES ASSUME NEW s \in Small(n + 1), s # {}
               PROVE  s \in G
    <3>1. n + 1 \in Nat
      OBVIOUS
    <3>2. QED
      BY <3>1
  <2>1. s \in SUBSET ExtId /\ Cardinality(s) <= n + 1
    BY DEF Small
  <2>2. s \ {Pick(s)} \in Small(n)
    BY <2>1, Smaller DEF Small
  <2>3. QED
    BY <2>1, <2>2
<1>3. \A n \in Nat : n \in T
  BY <1>1, <1>2, Induction
<1>4. Cardinality(ExtId) \in Nat /\ ExtId \in Small(Cardinality(ExtId))
  BY FS_CardinalityType DEF Small
<1>5. QED
  BY <1>3, <1>4

\* No rows sum to nothing.
LEMMA SumOfNone == Sum([x \in ExtId |-> NoRow]) = 0
<1> DEFINE f == [x \in ExtId |-> NoRow]
<1>1. PICK g : g = [s \in SUBSET ExtId |-> Adding(f, g, s)] /\ Sum(f) = g[ExtId]
  BY SumUnfolds
<1> DEFINE G == {s \in SUBSET ExtId : g[s] = 0}
<1>2. {} \in G
  BY <1>1 DEF Adding
<1>3. ASSUME NEW s \in SUBSET ExtId, s # {}, s \ {Pick(s)} \in G
      PROVE  s \in G
  <2>1. Pick(s) \in ExtId
    BY <1>3, Smaller
  <2>2. g[s] = f[Pick(s)] + g[s \ {Pick(s)}]
    BY <1>1, <1>3 DEF Adding
  <2>3. f[Pick(s)] = 0 /\ g[s \ {Pick(s)}] = 0
    BY <1>3, <2>1 DEF NoRow
  <2>4. QED
    BY <2>2, <2>3
<1>4. ExtId \in G
  BY <1>2, <1>3, BySize
<1>5. QED
  BY <1>1, <1>4

\* A sum of integers is one.
LEMMA SumType ==
  ASSUME NEW f \in [ExtId -> Int]
  PROVE  Sum(f) \in Int
<1>1. PICK g : g = [s \in SUBSET ExtId |-> Adding(f, g, s)] /\ Sum(f) = g[ExtId]
  BY SumUnfolds
<1> DEFINE G == {s \in SUBSET ExtId : g[s] \in Int}
<1>2. {} \in G
  BY <1>1 DEF Adding
<1>3. ASSUME NEW s \in SUBSET ExtId, s # {}, s \ {Pick(s)} \in G
      PROVE  s \in G
  <2>1. Pick(s) \in ExtId
    BY <1>3, Smaller
  <2>2. g[s] = f[Pick(s)] + g[s \ {Pick(s)}]
    BY <1>1, <1>3 DEF Adding
  <2>3. QED
    BY <1>3, <2>1, <2>2
<1>4. ExtId \in G
  BY <1>2, <1>3, BySize
<1>5. QED
  BY <1>1, <1>4

\* A row where there was none adds its amount.
LEMMA SumOfOneMore ==
  ASSUME NEW f \in [ExtId -> Int], NEW h \in [ExtId -> Int], NEW x \in ExtId,
         f[x] = 0, \A y \in ExtId : y # x => h[y] = f[y]
  PROVE  Sum(h) = Sum(f) + h[x]
<1>1. PICK p : p = [s \in SUBSET ExtId |-> Adding(f, p, s)] /\ Sum(f) = p[ExtId]
  BY SumUnfolds
<1>2. PICK q : q = [s \in SUBSET ExtId |-> Adding(h, q, s)] /\ Sum(h) = q[ExtId]
  BY SumUnfolds
<1> DEFINE Part(s) == IF x \in s THEN h[x] ELSE 0
           G == {s \in SUBSET ExtId : p[s] \in Int /\ q[s] = p[s] + Part(s)}
<1>3. {} \in G
  BY <1>1, <1>2 DEF Adding
<1>4. ASSUME NEW s \in SUBSET ExtId, s # {}, s \ {Pick(s)} \in G
      PROVE  s \in G
  <2> DEFINE y == Pick(s)
             t == s \ {y}
  <2>1. y \in s /\ y \in ExtId
    BY <1>4, Smaller
  <2>2. p[s] = f[y] + p[t]
    BY <1>1, <1>4 DEF Adding
  <2>3. q[s] = h[y] + q[t]
    BY <1>2, <1>4 DEF Adding
  <2>4. p[t] \in Int /\ q[t] = p[t] + Part(t) /\ t \in SUBSET ExtId
    BY <1>4
  <2>5. f[y] \in Int /\ h[y] \in Int /\ h[x] \in Int
    BY <2>1
  <2>6. CASE y = x
    <3>1. Part(t) = 0 /\ Part(s) = h[x] /\ f[y] = 0 /\ h[y] = h[x]
      BY <2>1, <2>6
    <3>2. QED
      BY <2>2, <2>3, <2>4, <2>5, <3>1
  <2>7. CASE y # x
    <3>1. Part(t) = Part(s) /\ h[y] = f[y] /\ Part(s) \in Int
      BY <2>1, <2>5, <2>7
    <3>2. QED
      BY <2>2, <2>3, <2>4, <2>5, <3>1
  <2>8. QED
    BY <2>6, <2>7
<1>5. ExtId \in G
  BY <1>3, <1>4, BySize
<1>6. QED
  BY <1>1, <1>2, <1>5

-----------------------------------------------------------------------------
(* What the session's statements do to a well-formed session. *)

\* A closed session holds nothing.
LEMMA ClosedState == Closed \in SessionState /\ Closed.pc = "closed"
BY DEF Closed, Begun, SessionState

\* An accepted request waits for the lock and has written nothing.
LEMMA BegunState ==
  ASSUME NEW u \in User, NEW a \in Account, NEW lines \in Seq(Line), lines # <<>>,
         NEW b \in Int, NEW read \in BOOLEAN
  PROVE  LET d == Begun("locking", u, a, lines, b, read)
         IN  /\ d \in SessionState
             /\ d.pc = "locking" /\ d.account = a /\ d.todo # <<>>
             /\ d.fresh = {} /\ d.replies = {} /\ ~d.dirty /\ ~d.wrote
BY DEF Begun, SessionState

\* A valid file has a line.
LEMMA FileHasLines ==
  ASSUME NEW file \in File, ValidFile(file)
  PROVE  file \in Seq(Line) /\ file # <<>>
<1>1. PICK n \in 0..(MaxRows + 1) : file \in [1..n -> Line]
  BY DEF File
<1>2. n \in Nat /\ file \in Seq(Line)
  BY <1>1
<1>3. Len(file) # 0
  BY DEF ValidFile
<1>4. QED
  BY <1>2, <1>3

\* A flush makes the held balance the transaction's own and leaves the rest.
LEMMA FlushedState ==
  ASSUME NEW c \in SessionState, InRange(c)
  PROVE  LET d == Flushed(c) IN
         /\ d \in SessionState
         /\ d.pc = c.pc /\ d.user = c.user /\ d.account = c.account /\ d.todo = c.todo
         /\ d.fresh = c.fresh /\ d.replies = c.replies
         /\ ~d.dirty
         /\ c.dirty => d.wrote /\ d.written = c.held
         /\ ~c.dirty => d.wrote = c.wrote /\ d.written = c.written
<1>1. CASE ~c.dirty
  BY <1>1 DEF Flushed, SessionState
<1>2. CASE c.dirty
  <2> DEFINE e == [c EXCEPT !.written = c.held]
             f == [e EXCEPT !.wrote = TRUE]
             g == [f EXCEPT !.dirty = FALSE]
  <2>1. Flushed(c) = g
    BY <1>2 DEF Flushed, SessionState
  <2>2. e \in SessionState
    BY <1>2 DEF InRange, SessionState
  <2>3. f \in SessionState
    BY <2>2 DEF SessionState
  <2>4. g \in SessionState
    BY <2>3 DEF SessionState
  <2>5. QED
    BY <1>2, <2>1, <2>4 DEF SessionState
<1>3. QED
  BY <1>1, <1>2

\* The locking read after a flush: the held balance is the current one.
LEMMA LockedState ==
  ASSUME TypeOK, NEW c \in SessionState, InRange(c), c.account \in Account
  PROVE  LET d == [Reloaded(Flushed(c)) EXCEPT !.pc = "ingesting"] IN
         /\ d \in SessionState
         /\ d.pc = "ingesting" /\ d.account = c.account /\ d.todo = c.todo
         /\ d.fresh = c.fresh /\ d.replies = c.replies
         /\ ~d.dirty
         /\ Current(d) = Current(c) /\ d.held = Current(d)
<1> DEFINE e == Flushed(c)
           b == IF e.wrote THEN e.written ELSE balance[e.account]
           f == [e EXCEPT !.held = b]
           g == [f EXCEPT !.loaded = TRUE]
           h == [g EXCEPT !.pc = "ingesting"]
<1>1. /\ e \in SessionState
      /\ e.account = c.account /\ e.todo = c.todo
      /\ e.fresh = c.fresh /\ e.replies = c.replies
      /\ ~e.dirty
      /\ c.dirty => e.wrote /\ e.written = c.held
      /\ ~c.dirty => e.wrote = c.wrote /\ e.written = c.written
  BY FlushedState
<1>2. [Reloaded(e) EXCEPT !.pc = "ingesting"] = h
  BY <1>1 DEF Reloaded, SessionState
<1>3. b = Current(c) /\ b \in Int
  BY <1>1 DEF Current, SessionState, TypeOK
<1> HIDE DEF e, b
<1>4. f \in SessionState /\ f.held = b
  BY <1>1, <1>3 DEF SessionState
<1>5. g \in SessionState
  BY <1>4 DEF SessionState
<1>6. h \in SessionState
  BY <1>5 DEF SessionState
<1>7. /\ h.pc = "ingesting" /\ h.account = e.account /\ h.todo = e.todo /\ h.held = b
      /\ h.fresh = e.fresh /\ h.replies = e.replies
      /\ h.dirty = e.dirty /\ h.wrote = e.wrote /\ h.written = e.written
  BY <1>1 DEF SessionState
<1> HIDE DEF h
<1>8. Current(h) = b
  BY <1>1, <1>7 DEF Current, b
<1>9. QED
  BY <1>1, <1>2, <1>3, <1>6, <1>7, <1>8 DEF e

\* A replayed line: its answer is added.
LEMMA ReplayState ==
  ASSUME NEW c \in SessionState, c.todo # <<>>, NEW r \in Reply
  PROVE  LET d == [[c EXCEPT !.pc = "more", !.todo = Tail(@)] EXCEPT !.replies = @ \cup {r}] IN
         /\ d \in SessionState
         /\ d.pc = "more" /\ d.account = c.account
         /\ d.fresh = c.fresh /\ d.replies = c.replies \cup {r}
         /\ d.held = c.held /\ d.dirty = c.dirty /\ d.wrote = c.wrote /\ d.written = c.written
<1> DEFINE e == [c EXCEPT !.pc = "more"]
           f == [e EXCEPT !.todo = Tail(@)]
           g == [f EXCEPT !.replies = @ \cup {r}]
<1>1. [[c EXCEPT !.pc = "more", !.todo = Tail(@)] EXCEPT !.replies = @ \cup {r}] = g
  BY DEF SessionState
<1>2. e \in SessionState /\ Tail(e.todo) \in Seq(Line)
  BY DEF SessionState
<1>3. f \in SessionState
  BY <1>2 DEF SessionState
<1>4. g \in SessionState
  BY <1>3 DEF SessionState
<1>5. QED
  BY <1>1, <1>4 DEF SessionState

\* A new line: its row and its answer are added, and its amount to the held balance.
Inserted(c, line, r) ==
  [Adjusted([c EXCEPT !.pc = "more", !.todo = Tail(@)], line.row) EXCEPT
     !.fresh = @ \cup {line}, !.replies = @ \cup {r}]

LEMMA NewLineState ==
  ASSUME NEW c \in SessionState, c.todo # <<>>, NEW line \in Line, NEW r \in Reply
  PROVE  LET d == Inserted(c, line, r) IN
         /\ d \in SessionState
         /\ d.pc = "more" /\ d.account = c.account
         /\ d.fresh = c.fresh \cup {line} /\ d.replies = c.replies \cup {r}
         /\ d.held = c.held + line.row /\ d.dirty
<1> DEFINE e == [c EXCEPT !.pc = "more"]
           f == [e EXCEPT !.todo = Tail(@)]
           g == [f EXCEPT !.held = @ + line.row]
           h == [g EXCEPT !.dirty = TRUE]
           i == [h EXCEPT !.fresh = @ \cup {line}]
           j == [i EXCEPT !.replies = @ \cup {r}]
<1>1. Inserted(c, line, r) = j
  BY DEF SessionState, Inserted, Adjusted
<1>2. e \in SessionState /\ Tail(e.todo) \in Seq(Line) /\ e.held \in Int
  BY DEF SessionState
<1>3. f \in SessionState
  BY <1>2 DEF SessionState
<1>4. f.held + line.row \in Int
  BY <1>3 DEF SessionState, Line, Row
<1>5. g \in SessionState
  BY <1>3, <1>4 DEF SessionState
<1>6. h \in SessionState
  BY <1>5 DEF SessionState
<1>7. /\ h.pc = "more" /\ h.account = c.account /\ h.fresh = c.fresh /\ h.replies = c.replies
      /\ h.held = c.held + line.row /\ h.dirty
  BY DEF SessionState
<1> HIDE DEF h
<1>8. i \in SessionState
  BY <1>6 DEF SessionState
<1>9. j \in SessionState
  BY <1>8 DEF SessionState
<1>10. /\ j.pc = h.pc /\ j.account = h.account /\ j.held = h.held /\ j.dirty = h.dirty
       /\ j.fresh = h.fresh \cup {line} /\ j.replies = h.replies \cup {r}
  BY <1>6 DEF SessionState
<1> HIDE DEF j
<1>11. QED
  BY <1>1, <1>7, <1>9, <1>10

-----------------------------------------------------------------------------
(* What a transaction sees. *)

\* Its own row, where it has one.
LEMMA ExistingOwnRow ==
  ASSUME NEW c, FreshIsNew(c), NEW line \in c.fresh
  PROVE  Existing(c, line.ext) = line.row
<1> DEFINE own == CHOOSE other \in c.fresh : other.ext = line.ext
<1>1. own \in c.fresh /\ own.ext = line.ext
  OBVIOUS
<1>2. own = line
  BY <1>1 DEF FreshIsNew
<1>3. QED
  BY <1>2 DEF Existing

\* The committed one elsewhere.
LEMMA ExistingCommitted ==
  ASSUME NEW c, NEW x, x \notin Keys(c.fresh)
  PROVE  Existing(c, x) = ledger[c.account][x]
BY DEF Existing, Keys

\* In any case a row or none.
LEMMA ExistingType ==
  ASSUME TypeOK, NEW c \in SessionState, c.account \in Account, NEW x \in ExtId
  PROVE  Existing(c, x) \in Row \cup {NoRow}
<1>1. CASE x \in Keys(c.fresh)
  <2>1. (CHOOSE line \in c.fresh : line.ext = x) \in c.fresh
    BY <1>1 DEF Keys
  <2>2. c.fresh \subseteq Line
    BY DEF SessionState
  <2>3. QED
    BY <1>1, <2>1, <2>2 DEF Existing, Keys, Line
<1>2. CASE x \notin Keys(c.fresh)
  BY <1>2, ExistingCommitted DEF TypeOK
<1>3. QED
  BY <1>1, <1>2

\* What a session has seen stays true while its account's row and rows are left alone.
LEMMA SoundKept ==
  ASSUME NEW c, Sound(c),
         c.account \in Account =>
           balance'[c.account] = balance[c.account] /\ ledger'[c.account] = ledger[c.account]
  PROVE  Sound(c)'
<1>1. CASE c.pc = "closed"
  BY <1>1 DEF Sound, Works
<1>2. CASE c.pc # "closed"
  <2>1. c.account \in Account
    BY <1>2 DEF Sound, Ready
  <2>2. \A x : Existing(c, x)' = Existing(c, x)
    BY <2>1 DEF Existing
  <2>3. Seen(c)' = Seen(c) /\ Current(c)' = Current(c)
    BY <2>1, <2>2 DEF Seen, Current
  <2>4. BalanceInHand(c) => BalanceInHand(c)'
    BY <2>3 DEF BalanceInHand
  <2>5. RepliesHold(c) => RepliesHold(c)'
    BY <2>2 DEF RepliesHold
  <2>6. FreshIsNew(c) => FreshIsNew(c)'
    BY <2>1 DEF FreshIsNew
  <2>7. QED
    BY <2>4, <2>5, <2>6 DEF Sound, Ready, NothingYet, Works
<1>3. QED
  BY <1>1, <1>2

-----------------------------------------------------------------------------
(* The invariant holds initially, and every step keeps it. *)

LEMMA InitIInv == Init => IInv
<1> SUFFICES ASSUME Init
             PROVE  IInv
  OBVIOUS
<1>1. TypeOK
  BY ClosedState DEF Init, TypeOK, NoRow
<1>2. \A s \in Session : session[s].pc = "closed"
  BY ClosedState DEF Init
<1>3. (\A s \in Session : Sound(session[s])) /\ OneWriter
  BY <1>2 DEF Sound, Works, OneWriter
<1>4. AnnouncedIsStored /\ AnswersAreDurable
  BY DEF Init, AnnouncedIsStored, AnswersAreDurable
<1>5. BalanceIsLedgerSum
  BY SumOfNone DEF Init, BalanceIsLedgerSum
<1>6. QED
  BY <1>1, <1>3, <1>4, <1>5 DEF IInv

\* A step of one session that commits nothing, to a sound state of its own.
LEMMA OwnStep ==
  ASSUME IInv, NEW s \in Session, NEW d \in SessionState, Sound(d),
         session' = [session EXCEPT ![s] = d],
         UNCHANGED <<balance, ledger, created, told>>,
         Works(d) => \A t \in Session \ {s} :
                       ~(Works(session[t]) /\ session[t].account = d.account)
  PROVE  IInv'
<1> USE DEF IInv
<1>1. session'[s] = d /\ \A t \in Session \ {s} : session'[t] = session[t]
  BY DEF TypeOK
<1>2. TypeOK'
  BY DEF TypeOK
<1>3. \A c : Sound(c) => Sound(c)'
  BY SoundKept
<1>4. ASSUME NEW t \in Session
      PROVE  Sound(session[t])'
  <2>1. PICK c : c = session'[t]
    OBVIOUS
  <2>2. Sound(c)
    BY <1>1, <2>1
  <2>3. Sound(c)'
    BY <1>3, <2>2
  <2>4. QED
    BY <2>1, <2>3 DEF Sound, Ready, NothingYet, Works, FreshIsNew, RepliesHold, BalanceInHand,
                     Current, Seen, Existing
<1>5. OneWriter'
  BY <1>1 DEF OneWriter, Works
<1>6. AnnouncedIsStored' /\ AnswersAreDurable' /\ BalanceIsLedgerSum'
  BY DEF AnnouncedIsStored, AnswersAreDurable, BalanceIsLedgerSum
<1>7. QED
  BY <1>2, <1>4, <1>5, <1>6

\* A session that ends without a commit.
LEMMA ClosingKeeps ==
  ASSUME IInv, NEW s \in Session, session' = [session EXCEPT ![s] = Closed],
         UNCHANGED <<balance, ledger, created, told>>
  PROVE  IInv'
<1>1. Sound(Closed) /\ ~Works(Closed)
  BY ClosedState DEF Sound, Works
<1>2. QED
  BY <1>1, ClosedState, OwnStep

\* A request that has been accepted.
LEMMA BegunKeeps ==
  ASSUME IInv, NEW s \in Session, NEW u \in User, NEW a \in Account,
         NEW lines \in Seq(Line), lines # <<>>, NEW b \in Int, NEW read \in BOOLEAN,
         session' = [session EXCEPT ![s] = Begun("locking", u, a, lines, b, read)],
         UNCHANGED <<balance, ledger, created, told>>
  PROVE  IInv'
<1> DEFINE d == Begun("locking", u, a, lines, b, read)
<1>1. /\ d \in SessionState
      /\ d.pc = "locking" /\ d.account = a /\ d.todo # <<>>
      /\ d.fresh = {} /\ d.replies = {} /\ ~d.dirty /\ ~d.wrote
  BY BegunState
<1> HIDE DEF d
<1>2. Sound(d) /\ ~Works(d)
  BY <1>1 DEF Sound, Ready, NothingYet, Works
<1>3. QED
  BY <1>1, <1>2, OwnStep DEF d

LEMMA RequestKeeps ==
  ASSUME IInv, NEW s \in Session, Request(s)
  PROVE  IInv'
<1>1. PICK u \in User, a \in Account :
        \/ \E line \in Line : Create(s, u, a, line)
        \/ \E file \in File : Import(s, u, a, file)
  BY DEF Request
<1>2. ASSUME NEW line \in Line, Create(s, u, a, line)
      PROVE  IInv'
  <2>1. <<line>> \in Seq(Line) /\ <<line>> # <<>>
    OBVIOUS
  <2>2. PICK lines : lines = <<line>>
    OBVIOUS
  <2>3. lines \in Seq(Line) /\ lines # <<>>
    BY <2>1, <2>2
  <2>4. session' = [session EXCEPT ![s] = Begun("locking", u, a, lines, 0, FALSE)]
    BY <1>2, <2>2 DEF Create
  <2>5. UNCHANGED <<balance, ledger, created, told>>
    BY <1>2 DEF Create
  <2>6. QED
    <3>1. FALSE \in BOOLEAN /\ 0 \in Int
      OBVIOUS
    <3>2. QED
      BY ONLY IInv, <2>3, <2>4, <2>5, <3>1, BegunKeeps, ZenonT(30)
<1>3. ASSUME NEW file \in File, Import(s, u, a, file)
      PROVE  IInv'
  <2>1. file \in Seq(Line) /\ file # <<>>
    BY <1>3, FileHasLines DEF Import
  <2>2. PICK b \in Int : b = balance[a]
    BY DEF IInv, TypeOK
  <2>3. QED
    BY <1>3, <2>1, <2>2, BegunKeeps DEF Import
<1>4. QED
  BY <1>1, <1>2, <1>3

LEMMA LockAccountKeeps ==
  ASSUME IInv, NEW s \in Session, LockAccount(s)
  PROVE  IInv'
<1>1. PICK c \in SessionState : c = session[s]
  BY DEF IInv, TypeOK
<1>2. CASE OwnerOf[c.account] # c.user
  BY <1>1, <1>2, ClosingKeeps DEF LockAccount
<1>3. CASE OwnerOf[c.account] = c.user
  <2>1. PICK d : d = [Reloaded(Flushed(c)) EXCEPT !.pc = "ingesting"]
    OBVIOUS
  <2>2. Sound(c) /\ c.account \in Account /\ InRange(c) /\ c.pc \in {"locking", "more"}
    BY <1>1 DEF LockAccount, IInv, Sound, Ready
  <2>3. /\ d \in SessionState
        /\ d.pc = "ingesting" /\ d.account = c.account /\ d.todo = c.todo
        /\ d.fresh = c.fresh /\ d.replies = c.replies
        /\ Current(d) = Current(c) /\ d.held = Current(d)
    BY <2>1, <2>2, LockedState DEF IInv
  <2>4. \A x : Existing(d, x) = Existing(c, x)
    BY <2>3 DEF Existing
  <2>5. Ready(d)
    BY <1>1, <2>2, <2>3 DEF Ready, LockAccount, IInv, Sound
  <2>6. CASE c.pc = "more"
    <3>1. FreshIsNew(c) /\ RepliesHold(c) /\ BalanceInHand(c)
      BY <2>2, <2>6 DEF Sound, Works
    <3>2. FreshIsNew(d)
      BY <2>3, <3>1 DEF FreshIsNew
    <3>3. RepliesHold(d)
      BY <2>3, <2>4, <3>1 DEF RepliesHold
    <3>4. Seen(d) = Seen(c)
      BY <2>4 DEF Seen
    <3>5. BalanceInHand(d)
      BY <2>3, <3>1, <3>4 DEF BalanceInHand
    <3>6. Sound(d)
      BY <2>3, <2>5, <3>2, <3>3, <3>5 DEF Sound
    <3>7. \A t \in Session \ {s} : ~(Works(session[t]) /\ session[t].account = d.account)
      BY <1>1, <2>3, <2>6 DEF IInv, OneWriter, Works
    <3>8. QED
      BY <1>1, <1>3, <2>1, <2>3, <3>6, <3>7, OwnStep DEF LockAccount
  <2>7. CASE c.pc = "locking"
    <3>1. NothingYet(c)
      BY <2>2, <2>7 DEF Sound
    <3>2. FreshIsNew(d) /\ RepliesHold(d)
      BY <2>3, <3>1 DEF NothingYet, FreshIsNew, RepliesHold
    <3>3. Seen(d) = ledger[d.account]
      <4>1. \A x \in ExtId : Existing(d, x) = ledger[d.account][x]
        BY <2>3, <3>1 DEF NothingYet, Existing
      <4>2. ledger[d.account] \in [ExtId -> Row \cup {NoRow}]
        BY <2>2, <2>3 DEF IInv, TypeOK
      <4>3. QED
        BY <4>1, <4>2 DEF Seen
    <3>4. Current(d) = balance[d.account]
      BY <2>3, <3>1 DEF NothingYet, Current
    <3>5. BalanceInHand(d)
      BY <2>2, <2>3, <3>3, <3>4 DEF BalanceInHand, IInv, BalanceIsLedgerSum
    <3>6. Sound(d)
      BY <2>3, <2>5, <3>2, <3>5 DEF Sound
    <3>7. \A t \in Session \ {s} : ~(Works(session[t]) /\ session[t].account = d.account)
      BY <1>1, <2>3, <2>7 DEF LockAccount, Locked, Works
    <3>8. QED
      BY <1>1, <1>3, <2>1, <2>3, <3>6, <3>7, OwnStep DEF LockAccount
  <2>8. QED
    BY <2>2, <2>6, <2>7
<1>4. QED
  BY <1>2, <1>3

\* A line whose external_tx_id the transaction sees already.
LEMMA ReplayKeeps ==
  ASSUME IInv, NEW s \in Session, IngestLine(s),
         Existing(session[s], Head(session[s].todo).ext) # NoRow
  PROVE  IInv'
<1>1. PICK c \in SessionState : c = session[s]
  BY DEF IInv, TypeOK
<1>2. /\ Sound(c) /\ c.pc = "ingesting" /\ Works(c)
      /\ c.account \in Account /\ c.todo # <<>>
  BY <1>1 DEF IngestLine, IInv, Sound, Ready, Works
<1>3. PICK line \in Line : line = Head(c.todo)
  BY <1>2 DEF SessionState
<1>4. PICK old \in Row : old = Existing(c, line.ext)
  BY <1>1, <1>2, <1>3, ExistingType DEF IInv, Line
<1>5. PICK r \in Reply : r = [ext |-> line.ext, row |-> old, new |-> FALSE]
  BY <1>3, <1>4 DEF Reply, Line
<1>6. PICK d : d = [[c EXCEPT !.pc = "more", !.todo = Tail(@)] EXCEPT !.replies = @ \cup {r}]
  OBVIOUS
<1>7. session' = [session EXCEPT ![s] = d] /\ UNCHANGED <<balance, ledger, created, told>>
  BY <1>1, <1>3, <1>4, <1>5, <1>6 DEF IngestLine
<1>8. /\ d \in SessionState
      /\ d.pc = "more" /\ d.account = c.account
      /\ d.fresh = c.fresh /\ d.replies = c.replies \cup {r}
      /\ d.held = c.held /\ d.dirty = c.dirty /\ d.wrote = c.wrote /\ d.written = c.written
  BY <1>2, <1>6, ReplayState
<1>9. Existing(d, r.ext) = old /\ \A x : Existing(d, x) = Existing(c, x)
  BY <1>4, <1>5, <1>8 DEF Existing
<1>10. FreshIsNew(d)
  BY <1>2, <1>8 DEF FreshIsNew, Sound
<1>11. RepliesHold(d)
  BY <1>2, <1>5, <1>8, <1>9 DEF RepliesHold, Sound
<1>12. BalanceInHand(d)
  <2>1. Seen(d) = Seen(c)
    BY <1>9 DEF Seen
  <2>2. Current(d) = Current(c)
    BY <1>8 DEF Current
  <2>3. QED
    BY <1>2, <1>8, <2>1, <2>2 DEF BalanceInHand, Sound
<1>13. Sound(d)
  BY <1>2, <1>8, <1>10, <1>11, <1>12 DEF Sound, Ready
<1>14. \A t \in Session \ {s} : ~(Works(session[t]) /\ session[t].account = d.account)
  BY <1>1, <1>2, <1>8 DEF IInv, OneWriter
<1>15. QED
  BY <1>7, <1>8, <1>13, <1>14, OwnStep

\* A line with a new external_tx_id.
LEMMA NewLineKeeps ==
  ASSUME IInv, NEW s \in Session, IngestLine(s),
         Existing(session[s], Head(session[s].todo).ext) = NoRow
  PROVE  IInv'
<1>1. PICK c \in SessionState : c = session[s]
  BY DEF IInv, TypeOK
<1>2. /\ Sound(c) /\ c.pc = "ingesting" /\ Works(c)
      /\ c.account \in Account /\ c.todo # <<>>
  BY <1>1 DEF IngestLine, IInv, Sound, Ready, Works
<1>3. PICK line \in Line : line = Head(c.todo)
  BY <1>2 DEF SessionState
<1>4. PICK r \in Reply : r = [ext |-> line.ext, row |-> line.row, new |-> TRUE]
  BY <1>3 DEF Reply, Line
<1>5. PICK d : d = Inserted(c, line, r)
  OBVIOUS
<1>6. session' = [session EXCEPT ![s] = d] /\ UNCHANGED <<balance, ledger, created, told>>
  BY <1>1, <1>3, <1>4, <1>5 DEF IngestLine, Inserted
<1>7. /\ d \in SessionState
      /\ d.pc = "more" /\ d.account = c.account
      /\ d.fresh = c.fresh \cup {line} /\ d.replies = c.replies \cup {r}
      /\ d.held = c.held + line.row /\ d.dirty
  BY <1>2, <1>5, NewLineState
<1>8. FreshIsNew(c) /\ RepliesHold(c) /\ BalanceInHand(c) /\ c.fresh \subseteq Line
  BY <1>2 DEF Sound, SessionState
<1>9. line.ext \in ExtId /\ line.row \in Row /\ line.row \in Int \ {0}
  BY DEF Line, Row
<1>10. line.ext \notin Keys(c.fresh) /\ ledger[c.account][line.ext] = NoRow
  <2>1. ASSUME NEW own \in c.fresh, own.ext = line.ext
        PROVE  FALSE
    <3>1. Existing(c, own.ext) = own.row
      BY <1>8, ExistingOwnRow
    <3>2. own.row # NoRow
      BY <1>8 DEF Line, Row, NoRow
    <3>3. QED
      BY <1>1, <1>3, <2>1, <3>1, <3>2
  <2>2. line.ext \notin Keys(c.fresh)
    BY <2>1 DEF Keys
  <2>3. QED
    BY <1>1, <1>3, <2>2, ExistingCommitted
<1>11. FreshIsNew(d)
  BY <1>7, <1>8, <1>10 DEF FreshIsNew, Keys
<1>12. Existing(d, line.ext) = line.row
  BY <1>7, <1>11, ExistingOwnRow
<1>13. ASSUME NEW x, x # line.ext
       PROVE  Existing(d, x) = Existing(c, x)
  <2>1. CASE x \in Keys(c.fresh)
    <3>1. PICK own \in c.fresh : own.ext = x
      BY <2>1 DEF Keys
    <3>2. Existing(c, own.ext) = own.row
      BY <1>8, ExistingOwnRow
    <3>3. own \in d.fresh
      BY <1>7
    <3>4. Existing(d, own.ext) = own.row
      BY <1>11, <3>3, ExistingOwnRow
    <3>5. QED
      BY <3>1, <3>2, <3>4
  <2>2. CASE x \notin Keys(c.fresh)
    <3>1. x \notin Keys(d.fresh)
      BY <1>7, <1>13, <2>2 DEF Keys
    <3>2. Existing(d, x) = ledger[d.account][x]
      BY <3>1, ExistingCommitted
    <3>3. Existing(c, x) = ledger[c.account][x]
      BY <2>2, ExistingCommitted
    <3>4. QED
      BY <1>7, <3>2, <3>3
  <2>3. QED
    BY <2>1, <2>2
<1>14. RepliesHold(d)
  <2> SUFFICES ASSUME NEW q \in d.replies
               PROVE  q.row = Existing(d, q.ext) /\ (q.new => q.ext \in Keys(d.fresh))
    BY DEF RepliesHold
  <2>1. CASE q = r
    BY <1>4, <1>7, <1>12, <2>1 DEF Keys
  <2>2. CASE q # r
    <3>1. q \in c.replies
      BY <1>7, <2>2
    <3>2. q.row = Existing(c, q.ext) /\ (q.new => q.ext \in Keys(c.fresh))
      BY <1>8, <3>1 DEF RepliesHold
    <3>3. q.ext # line.ext
      <4>1. q.row \in Row
        BY <3>1 DEF SessionState, Reply
      <4>2. q.row # NoRow
        BY <4>1 DEF Row, NoRow
      <4>3. QED
        BY <1>1, <1>3, <3>2, <4>2
    <3>4. QED
      BY <1>7, <1>13, <3>2, <3>3 DEF Keys
  <2>3. QED
    BY <2>1, <2>2
<1>15. BalanceInHand(d)
  <2>1. Seen(c) \in [ExtId -> Int] /\ Seen(d) \in [ExtId -> Int]
    <3>1. Row \cup {NoRow} \subseteq Int
      BY DEF Row, NoRow
    <3>2. \A x \in ExtId : Existing(c, x) \in Row \cup {NoRow}
      BY <1>2, ExistingType DEF IInv
    <3>3. d.account \in Account
      BY <1>2, <1>7
    <3>4. \A x \in ExtId : Existing(d, x) \in Row \cup {NoRow}
      BY <1>7, <3>3, ExistingType DEF IInv
    <3>5. QED
      BY <3>1, <3>2, <3>4 DEF Seen
  <2>2. Seen(c)[line.ext] = 0 /\ Seen(d)[line.ext] = line.row
    BY <1>1, <1>3, <1>9, <1>12 DEF Seen, NoRow
  <2>3. \A y \in ExtId : y # line.ext => Seen(d)[y] = Seen(c)[y]
    BY <1>13 DEF Seen
  <2>4. Sum(Seen(d)) = Sum(Seen(c)) + line.row
    <3>1. PICK f \in [ExtId -> Int], h \in [ExtId -> Int] : f = Seen(c) /\ h = Seen(d)
      BY <2>1
    <3>2. f[line.ext] = 0 /\ h[line.ext] = line.row /\ \A y \in ExtId : y # line.ext => h[y] = f[y]
      BY <2>2, <2>3, <3>1
    <3>3. Sum(h) = Sum(f) + h[line.ext]
      BY <1>9, <3>2, SumOfOneMore
    <3>4. QED
      BY <3>1, <3>2, <3>3
  <2>5. Current(d) = c.held + line.row
    BY <1>7 DEF Current
  <2>6. c.held = Sum(Seen(c))
    BY <1>2, <1>8 DEF BalanceInHand
  <2>7. QED
    BY <1>7, <2>4, <2>5, <2>6 DEF BalanceInHand
<1>16. Sound(d)
  BY <1>2, <1>7, <1>11, <1>14, <1>15 DEF Sound, Ready
<1>17. \A t \in Session \ {s} : ~(Works(session[t]) /\ session[t].account = d.account)
  BY <1>1, <1>2, <1>7 DEF IInv, OneWriter
<1>18. QED
  BY <1>6, <1>7, <1>16, <1>17, OwnStep

LEMMA IngestLineKeeps ==
  ASSUME IInv, NEW s \in Session, IngestLine(s)
  PROVE  IInv'
BY ReplayKeeps, NewLineKeeps

-----------------------------------------------------------------------------
(* The commit. *)

\* The account gets the balance and the rows of the transaction; the others keep theirs.
LEMMA CommittedState ==
  ASSUME IInv, NEW s \in Session, Works(session[s]), Committed(s),
         NEW c \in SessionState, c = session[s]
  PROVE  /\ Sound(c) /\ c.account \in Account
         /\ balance' \in [Account -> -MaxBalance..MaxBalance]
         /\ ledger' \in [Account -> [ExtId -> Row \cup {NoRow}]]
         /\ balance'[c.account] = Current(c)
         /\ ledger'[c.account] = Seen(c)
         /\ \A a \in Account : a # c.account => balance'[a] = balance[a] /\ ledger'[a] = ledger[a]
         /\ \A a \in Account, x \in ExtId : ledger[a][x] # NoRow => ledger'[a][x] = ledger[a][x]
<1>1. PICK e : e = Flushed(c)
  OBVIOUS
<1>2. Sound(c) /\ c.account \in Account /\ FreshIsNew(c) /\ InRange(c)
  BY DEF IInv, Sound, Ready, Works, Committed
<1>3. /\ e \in SessionState /\ e.account = c.account /\ e.fresh = c.fresh
      /\ c.dirty => e.wrote /\ e.written = c.held
      /\ ~c.dirty => e.wrote = c.wrote /\ e.written = c.written
  BY <1>1, <1>2, FlushedState
<1>4. \A x : Existing(e, x) = Existing(c, x)
  BY <1>3 DEF Existing
<1>5. balance' = IF e.wrote THEN [balance EXCEPT ![e.account] = e.written] ELSE balance
  BY <1>1 DEF Committed
<1>6. ledger' = [ledger EXCEPT ![e.account] =
                   [x \in ExtId |-> IF x \in Keys(e.fresh) THEN Existing(e, x)
                                    ELSE ledger[e.account][x]]]
  BY <1>1 DEF Committed
<1>7. [x \in ExtId |-> IF x \in Keys(e.fresh) THEN Existing(e, x) ELSE ledger[e.account][x]]
        = Seen(c)
  <2>1. \A x \in ExtId : (IF x \in Keys(e.fresh) THEN Existing(e, x) ELSE ledger[e.account][x])
                           = Existing(c, x)
    BY <1>3, <1>4, ExistingCommitted
  <2>2. QED
    BY <2>1 DEF Seen
<1>8. Seen(c) \in [ExtId -> Row \cup {NoRow}]
  BY <1>2, ExistingType DEF IInv, Seen
<1>9. balance' \in [Account -> -MaxBalance..MaxBalance] /\ balance'[c.account] = Current(c)
  BY <1>2, <1>3, <1>5 DEF IInv, TypeOK, SessionState, Current
<1>10. /\ ledger' \in [Account -> [ExtId -> Row \cup {NoRow}]]
       /\ ledger'[c.account] = Seen(c)
       /\ \A a \in Account : a # c.account => ledger'[a] = ledger[a]
  BY <1>2, <1>3, <1>6, <1>7, <1>8 DEF IInv, TypeOK
<1>11. \A a \in Account : a # c.account => balance'[a] = balance[a]
  BY <1>2, <1>3, <1>5 DEF IInv, TypeOK
<1>12. ASSUME NEW a \in Account, NEW x \in ExtId, ledger[a][x] # NoRow
       PROVE  ledger'[a][x] = ledger[a][x]
  <2>1. CASE a # c.account
    BY <1>10, <2>1
  <2>2. CASE a = c.account
    <3>1. x \notin Keys(c.fresh)
      BY <1>2, <1>12, <2>2 DEF FreshIsNew, Keys
    <3>2. Existing(c, x) = ledger[c.account][x]
      BY <3>1, ExistingCommitted
    <3>3. QED
      BY <1>10, <2>2, <3>2 DEF Seen
  <2>3. QED
    BY <2>1, <2>2
<1>13. QED
  BY <1>2, <1>9, <1>10, <1>11, <1>12

\* The commit leaves every session sound: those that wait for its account have seen nothing of it.
LEMMA CommitSessions ==
  ASSUME IInv, NEW s \in Session, Works(session[s]), Committed(s),
         session' = [session EXCEPT ![s] = Closed]
  PROVE  /\ session' \in [Session -> SessionState]
         /\ \A t \in Session : Sound(session[t])'
         /\ OneWriter'
<1>1. PICK c \in SessionState : c = session[s]
  BY DEF IInv, TypeOK
<1>2. session'[s] = Closed /\ \A t \in Session \ {s} : session'[t] = session[t]
  BY DEF IInv, TypeOK
<1>3. session' \in [Session -> SessionState]
  BY ClosedState DEF IInv, TypeOK
<1>4. OneWriter'
  BY <1>2, ClosedState DEF IInv, OneWriter, Works
<1>5. ASSUME NEW t \in Session
      PROVE  Sound(session[t])'
  <2>1. CASE t = s
    BY <1>2, <2>1, ClosedState DEF Sound, Works
  <2>2. CASE t # s
    <3>1. PICK d : d = session[t]
      OBVIOUS
    <3>2. Sound(d) /\ session'[t] = d
      BY <1>2, <2>2, <3>1 DEF IInv
    <3>3. CASE ~Works(d)
      BY <3>2, <3>3 DEF Sound, Works, Ready, NothingYet
    <3>4. CASE Works(d)
      <4>1. d.account # c.account /\ d.account \in Account
        BY <1>1, <2>2, <3>1, <3>2, <3>4 DEF IInv, OneWriter, Sound, Ready, Works
      <4>2. balance'[d.account] = balance[d.account] /\ ledger'[d.account] = ledger[d.account]
        BY <1>1, <4>1, CommittedState
      <4>3. Sound(d)'
        BY <3>2, <4>2, SoundKept
      <4>4. QED
        BY <3>2, <4>3 DEF Sound, Ready, NothingYet, Works, FreshIsNew, RepliesHold,
                         BalanceInHand, Current, Seen, Existing
    <3>5. QED
      BY <3>3, <3>4
  <2>3. QED
    BY <2>1, <2>2
<1>6. QED
  BY <1>3, <1>4, <1>5

\* The balance of every account is still the sum of its rows.
LEMMA CommitBalance ==
  ASSUME IInv, NEW s \in Session, Works(session[s]), Committed(s)
  PROVE  BalanceIsLedgerSum'
<1>1. PICK c \in SessionState : c = session[s]
  BY DEF IInv, TypeOK
<1>2. /\ Sound(c) /\ c.account \in Account
      /\ balance'[c.account] = Current(c)
      /\ ledger'[c.account] = Seen(c)
      /\ \A a \in Account : a # c.account => balance'[a] = balance[a] /\ ledger'[a] = ledger[a]
  BY <1>1, CommittedState
<1>3. Current(c) = Sum(Seen(c))
  BY <1>1, <1>2 DEF Sound, BalanceInHand
<1>4. \A a \in Account : balance[a] = Sum(ledger[a])
  BY DEF IInv, BalanceIsLedgerSum
<1>5. \A a \in Account : balance'[a] = Sum(ledger'[a])
  BY <1>2, <1>3, <1>4
<1>6. QED
  BY <1>5 DEF BalanceIsLedgerSum

\* What a session is about to announce as new: one answer at most, for a row not yet stored.
LEMMA NewReplies ==
  ASSUME NEW c \in SessionState, FreshIsNew(c), RepliesHold(c), NEW x \in ExtId
  PROVE  LET N == {r \in c.replies : r.ext = x /\ r.new} IN
         /\ Cardinality(N) \in 0..1
         /\ Cardinality(N) = 1 => ledger[c.account][x] = NoRow /\ Existing(c, x) \in Row
<1> DEFINE N == {r \in c.replies : r.ext = x /\ r.new}
<1>1. CASE N = {}
  BY <1>1, FS_EmptySet
<1>2. CASE N # {}
  <2>1. PICK q \in N : TRUE
    BY <1>2
  <2>2. \A r \in N : r \in Reply /\ r.row = Existing(c, x) /\ r.ext = x /\ r.new
    BY DEF RepliesHold, SessionState
  <2>3. \A r \in N : r = q
    BY <2>1, <2>2 DEF Reply
  <2>4. N = {q}
    BY <2>1, <2>3
  <2>5. Cardinality(N) = 1
    BY <2>4, FS_Singleton
  <2>6. x \in Keys(c.fresh)
    BY <2>1 DEF RepliesHold
  <2>7. ledger[c.account][x] = NoRow
    BY <2>6 DEF FreshIsNew, Keys
  <2>8. Existing(c, x) \in Row
    BY <2>1, <2>2 DEF Reply
  <2> HIDE DEF N
  <2>9. Cardinality(N) \in 0..1
    BY <2>5
  <2>10. QED
    BY <2>7, <2>8, <2>9 DEF N
<1>3. QED
  BY <1>1, <1>2

\* What the answers have shown is in the ledger after a commit, this session's included.
LEMMA CommitAnswers ==
  ASSUME IInv, NEW s \in Session, Works(session[s]), Committed(s),
         NEW answered \in BOOLEAN,
         IF answered THEN Answer(s) ELSE UNCHANGED <<created, told>>
  PROVE  /\ created' \in [Account -> [ExtId -> Nat]]
         /\ told' \in [Account -> [ExtId -> SUBSET Row]]
         /\ AnnouncedIsStored' /\ AnswersAreDurable'
<1>1. PICK c \in SessionState : c = session[s]
  BY DEF IInv, TypeOK
<1>2. /\ Sound(c) /\ c.account \in Account
      /\ ledger' \in [Account -> [ExtId -> Row \cup {NoRow}]]
      /\ ledger'[c.account] = Seen(c)
      /\ \A a \in Account : a # c.account => ledger'[a] = ledger[a]
      /\ \A a \in Account, x \in ExtId : ledger[a][x] # NoRow => ledger'[a][x] = ledger[a][x]
  BY <1>1, CommittedState
<1>3. FreshIsNew(c) /\ RepliesHold(c) /\ c.replies \subseteq Reply
  BY <1>1, <1>2 DEF Sound, SessionState
<1>4. /\ created \in [Account -> [ExtId -> Nat]] /\ told \in [Account -> [ExtId -> SUBSET Row]]
      /\ AnnouncedIsStored /\ AnswersAreDurable
  BY DEF IInv, TypeOK
\* What was promised before is kept.
<1>5. ASSUME NEW a \in Account, NEW x \in ExtId
      PROVE  /\ told[a][x] \subseteq {ledger'[a][x]}
             /\ created[a][x] <= 1
             /\ ledger'[a][x] = NoRow => /\ ledger[a][x] = NoRow
                                         /\ told[a][x] = {} /\ created[a][x] = 0
  BY <1>2, <1>4 DEF AnnouncedIsStored, AnswersAreDurable
<1>6. CASE ~answered
  <2>1. created' = created /\ told' = told
    BY <1>6
  <2>2. AnnouncedIsStored'
    BY <1>5, <2>1 DEF AnnouncedIsStored
  <2>3. AnswersAreDurable'
    BY <1>5, <2>1 DEF AnswersAreDurable
  <2>4. QED
    BY <1>4, <2>1, <2>2, <2>3
<1>7. CASE answered
  <2> DEFINE N(x) == {r \in c.replies : r.ext = x /\ r.new}
             Shown(x) == {r.row : r \in {q \in c.replies : q.ext = x}}
             A == c.account
             news == [x \in ExtId |-> created[A][x] + Cardinality(N(x))]
             tells == [x \in ExtId |-> told[A][x] \cup Shown(x)]
  <2>1. created' = [created EXCEPT ![A] = news] /\ told' = [told EXCEPT ![A] = tells]
    BY <1>1, <1>7 DEF Answer
  <2>2. ASSUME NEW x \in ExtId
        PROVE  /\ Cardinality(N(x)) \in 0..1
               /\ Cardinality(N(x)) = 1 => ledger[A][x] = NoRow /\ ledger'[A][x] \in Row
               /\ Shown(x) \subseteq Row
               /\ Shown(x) \subseteq {ledger'[A][x]}
    <3>1. /\ Cardinality(N(x)) \in 0..1
          /\ Cardinality(N(x)) = 1 => ledger[A][x] = NoRow /\ Existing(c, x) \in Row
      BY <1>3, NewReplies
    <3>2. ledger'[A][x] = Existing(c, x)
      BY <1>2 DEF Seen
    <3>3. \A r \in c.replies : r.ext = x => r.row = Existing(c, x) /\ r.row \in Row
      BY <1>3 DEF RepliesHold, Reply
    <3>4. QED
      BY <3>1, <3>2, <3>3
  <2> HIDE DEF N, Shown
  <2>3. news \in [ExtId -> Nat] /\ tells \in [ExtId -> SUBSET Row]
    <3>1. \A x \in ExtId : created[A][x] \in Nat /\ told[A][x] \subseteq Row
      BY <1>2, <1>4
    <3>2. \A x \in ExtId : created[A][x] + Cardinality(N(x)) \in Nat
      BY <2>2, <3>1
    <3>3. QED
      BY <2>2, <3>1, <3>2
  <2>4. ASSUME NEW x \in ExtId
        PROVE  /\ tells[x] \subseteq {ledger'[A][x]}
               /\ news[x] <= 1
               /\ ledger'[A][x] = NoRow => tells[x] = {} /\ news[x] = 0
    <3>1. created[A][x] \in Nat
      BY <1>2, <1>4
    <3>2. Cardinality(N(x)) = 1 => created[A][x] = 0 /\ ledger'[A][x] # NoRow
      BY <1>2, <1>4, <2>2 DEF AnnouncedIsStored, Row, NoRow
    <3>3. news[x] <= 1
      BY <1>2, <1>5, <2>2, <3>1, <3>2
    <3>4. ledger'[A][x] = NoRow => news[x] = 0
      BY <1>2, <1>5, <2>2, <3>1, <3>2
    <3>5. tells[x] \subseteq {ledger'[A][x]}
      BY <1>2, <1>5, <2>2
    <3>6. ledger'[A][x] = NoRow => tells[x] = {}
      <4> SUFFICES ASSUME ledger'[A][x] = NoRow, NEW v \in tells[x]
                   PROVE  FALSE
        OBVIOUS
      <4>1. v = NoRow
        BY <3>5
      <4>2. v \in Row
        BY <2>3
      <4>3. QED
        BY <4>1, <4>2 DEF Row, NoRow
    <3>7. QED
      BY <3>3, <3>4, <3>5, <3>6
  <2> HIDE DEF news, tells
  <2>5. /\ created' \in [Account -> [ExtId -> Nat]]
        /\ told' \in [Account -> [ExtId -> SUBSET Row]]
        /\ created'[A] = news /\ told'[A] = tells
        /\ \A a \in Account : a # A => created'[a] = created[a] /\ told'[a] = told[a]
    BY <1>2, <1>4, <2>1, <2>3
  <2>6. AnnouncedIsStored'
    BY <1>5, <2>4, <2>5 DEF AnnouncedIsStored
  <2>7. AnswersAreDurable'
    BY <1>5, <2>4, <2>5 DEF AnswersAreDurable
  <2>8. QED
    BY <2>5, <2>6, <2>7
<1>8. QED
  BY <1>6, <1>7

LEMMA CommitKeeps ==
  ASSUME IInv, NEW s \in Session, NEW answered \in BOOLEAN, Commit(s, answered)
  PROVE  IInv'
<1>1. Works(session[s]) /\ Committed(s) /\ session' = [session EXCEPT ![s] = Closed]
  BY DEF Commit, Works
<1>2. IF answered THEN Answer(s) ELSE UNCHANGED <<created, told>>
  BY DEF Commit
<1>3. PICK c \in SessionState : c = session[s]
  BY DEF IInv, TypeOK
<1>4. /\ balance' \in [Account -> -MaxBalance..MaxBalance]
      /\ ledger' \in [Account -> [ExtId -> Row \cup {NoRow}]]
  BY <1>1, <1>3, CommittedState
<1>5. TypeOK' /\ AnnouncedIsStored' /\ AnswersAreDurable'
  BY <1>1, <1>2, <1>4, CommitSessions, CommitAnswers DEF TypeOK
<1>6. QED
  BY <1>1, <1>5, CommitSessions, CommitBalance DEF IInv

-----------------------------------------------------------------------------
LEMMA NextIInv == IInv /\ [Next]_vars => IInv'
<1> SUFFICES ASSUME IInv, [Next]_vars
             PROVE  IInv'
  OBVIOUS
<1>1. ASSUME NEW s \in Session, Request(s)
      PROVE  IInv'
  BY <1>1, RequestKeeps
<1>2. ASSUME NEW s \in Session, LockAccount(s)
      PROVE  IInv'
  BY <1>2, LockAccountKeeps
<1>3. ASSUME NEW s \in Session, IngestLine(s)
      PROVE  IInv'
  BY <1>3, IngestLineKeeps
<1>4. ASSUME NEW s \in Session, NEW answered \in BOOLEAN, Commit(s, answered)
      PROVE  IInv'
  BY <1>4, CommitKeeps
<1>5. ASSUME NEW s \in Session, Rollback(s)
      PROVE  IInv'
  BY <1>5, ClosingKeeps DEF Rollback
<1>6. CASE UNCHANGED vars
  <2> USE <1>6 DEF vars, IInv
  <2>1. TypeOK' /\ AnnouncedIsStored' /\ AnswersAreDurable' /\ BalanceIsLedgerSum'
    BY DEF TypeOK, AnnouncedIsStored, AnswersAreDurable, BalanceIsLedgerSum
  <2>2. OneWriter'
    BY DEF OneWriter, Works
  <2>3. ASSUME NEW t \in Session
        PROVE  Sound(session[t])'
    BY DEF Sound, Ready, NothingYet, Works, FreshIsNew, RepliesHold, BalanceInHand,
           Current, Seen, Existing
  <2>4. QED
    BY <2>1, <2>2, <2>3
<1>7. QED
  BY <1>1, <1>2, <1>3, <1>4, <1>5, <1>6 DEF Next, Proceed

\* The parts of IInv hold in every reachable state of the ingestion.
THEOREM Invariant == Spec => []IInv
<1>1. QED
  BY InitIInv, NextIInv, PTL DEF Spec

(***************************************************************************)
(* However many requests write to an account side by side, fail half-way   *)
(* or are repeated, its balance is the sum of its committed rows.          *)
(***************************************************************************)
THEOREM BalancesAddUp == Spec => []BalanceIsLedgerSum
<1>1. IInv => BalanceIsLedgerSum
  BY DEF IInv
<1>2. QED
  BY <1>1, Invariant, PTL

\* Every row an answer has shown is committed and stays so, and is announced as new at most once.
THEOREM AnswersHold == Spec => []AnswersAreDurable
<1>1. IInv => AnswersAreDurable
  BY DEF IInv
<1>2. QED
  BY <1>1, Invariant, PTL

\* Two sessions never work on one account: what the lock in load_owned_account is for.
THEOREM LockExcludes == Spec => []OneWriter
<1>1. IInv => OneWriter
  BY DEF IInv
<1>2. QED
  BY <1>1, Invariant, PTL

\* No step rewrites a committed row: a replay with another amount changes nothing.
THEOREM RowsStay == Spec => RowsAreFinal
<1>1. IInv /\ [Next]_vars =>
        [\A a \in Account, x \in ExtId : ledger[a][x] # NoRow => ledger'[a][x] = ledger[a][x]]_vars
  <2> SUFFICES ASSUME IInv, Next, NEW a \in Account, NEW x \in ExtId, ledger[a][x] # NoRow
               PROVE  ledger'[a][x] = ledger[a][x]
    OBVIOUS
  <2>1. CASE ledger' = ledger
    BY <2>1
  <2>2. CASE \E s \in Session, answered \in BOOLEAN : Commit(s, answered)
    <3>1. PICK s \in Session, answered \in BOOLEAN : Commit(s, answered)
      BY <2>2
    <3>2. Works(session[s]) /\ Committed(s)
      BY <3>1 DEF Commit, Works
    <3>3. PICK c \in SessionState : c = session[s]
      BY DEF IInv, TypeOK
    <3>4. QED
      BY <3>2, <3>3, CommittedState
  <2>3. QED
    BY <2>1, <2>2 DEF Next, Request, Create, Import, LockAccount, Proceed, IngestLine, Rollback
<1>2. QED
  BY <1>1, Invariant, PTL DEF Spec, RowsAreFinal
=============================================================================
