--------------------------- MODULE DashboardProofs ---------------------------
(***************************************************************************)
(* What a user of the dashboard sees.                                      *)
(*                                                                         *)
(* The first part is about Reports, the figures, pages, answers and budget *)
(* alerts that the services read out of a ledger that keeps changing.  It  *)
(* needs sums over finite sets, the order of sorted rows and the calendar, *)
(* which come first; then an invariant of the budgets and one of the       *)
(* request being answered, which says at every point of a request what has *)
(* been read and what is still to come.                                    *)
(*                                                                         *)
(* The second part is about Workspace, the browser tab: which loads and    *)
(* writes can be under way, what their answers may still change, and that  *)
(* an idempotency key stands for one wish of the user's.                   *)
(***************************************************************************)
EXTENDS Reports, Workspace, FiniteSetTheorems, SequenceTheorems, WellFoundedInduction, TLAPS

-----------------------------------------------------------------------------
(* Induction on finite sets, and sums over them. *)

\* A set of naturals has a least element.
LEMMA LeastNat ==
  ASSUME NEW T \in SUBSET Nat, T # {}
  PROVE  \E n \in T : \A m \in T : n <= m
<1>1. PICK n \in T : \A m \in T : ~(<<m, n>> \in OpToRel(<, Nat))
  <2>1. T \subseteq Nat /\ T # {}
    OBVIOUS
  <2>2. QED
    BY <2>1, NatLessThanWellFounded, WFMin
<1>2. \A m \in T : ~(m < n)
  BY <1>1 DEF OpToRel
<1>3. QED
  BY <1>2

\* A fact about every finite set follows for a set from its proper subsets.
LEMMA BySubsets ==
  ASSUME NEW S, IsFiniteSet(S), NEW G,
         \A s \in SUBSET S : (\A t \in SUBSET s : t # s => t \in G) => s \in G
  PROVE  S \in G
<1> SUFFICES ASSUME S \notin G PROVE FALSE
  OBVIOUS
<1> DEFINE Bad == {s \in SUBSET S : s \notin G}
           Sizes == {Cardinality(s) : s \in Bad}
<1>1. \A s \in SUBSET S : IsFiniteSet(s) /\ Cardinality(s) \in Nat
  BY FS_Subset, FS_CardinalityType
<1>2. Sizes \subseteq Nat /\ Sizes # {}
  BY <1>1
<1>3. PICK n \in Sizes : \A m \in Sizes : n <= m
  BY <1>2, LeastNat
<1>4. PICK s \in Bad : Cardinality(s) = n
  BY <1>3
<1>5. PICK t \in SUBSET s : t # s /\ t \notin G
  BY <1>4
<1>6. Cardinality(t) <= Cardinality(s) /\ Cardinality(t) # Cardinality(s)
  BY <1>1, <1>5, FS_Subset
<1>7. Cardinality(t) \in Sizes
  BY <1>5
<1>8. QED
  BY <1>1, <1>3, <1>4, <1>5, <1>6, <1>7

\* What a row adds to a sum, the row a fold takes next, and one step of the fold.
Spent(t) == -Row[t].amount
Picked(s) == CHOOSE x \in s : TRUE
AddUp(g, s) == IF s = {} THEN 0 ELSE Spent(Picked(s)) + g[s \ {Picked(s)}]
Folds(g, S) == g = [s \in SUBSET S |-> AddUp(g, s)]

\* Two folds agree on the sets that both are defined for.
LEMMA FoldsAgree ==
  ASSUME NEW S, IsFiniteSet(S), NEW T \in SUBSET S, NEW g, NEW h, Folds(g, S), Folds(h, T)
  PROVE  g[T] = h[T]
<1> DEFINE G == {s \in SUBSET T : g[s] = h[s]}
<1>1. ASSUME NEW s \in SUBSET T, \A t \in SUBSET s : t # s => t \in G
      PROVE  s \in G
  <2>1. g[s] = AddUp(g, s) /\ h[s] = AddUp(h, s)
    BY DEF Folds
  <2>2. CASE s = {}
    BY <2>1, <2>2 DEF AddUp
  <2>3. CASE s # {}
    <3>1. Picked(s) \in s
      BY <2>3 DEF Picked
    <3>2. s \ {Picked(s)} \in G
      BY <1>1, <3>1
    <3>3. QED
      BY <2>1, <2>3, <3>2 DEF AddUp
  <2>4. QED
    BY <2>2, <2>3
<1>2. IsFiniteSet(T)
  BY FS_Subset
<1> HIDE DEF G
<1>3. T \in G
  BY <1>1, <1>2, BySubsets
<1>4. QED
  BY <1>3 DEF G

\* The fold over a finite set exists.
LEMMA FoldExists ==
  ASSUME NEW S, IsFiniteSet(S)
  PROVE  \E g : Folds(g, S)
<1> DEFINE G == {s \in SUBSET S : \E g : Folds(g, s)}
<1>1. ASSUME NEW s \in SUBSET S, \A t \in SUBSET s : t # s => t \in G
      PROVE  s \in G
  <2> DEFINE Of(t) == CHOOSE g : Folds(g, t)
             h == [t \in SUBSET s |-> IF t = {} THEN 0 ELSE Spent(Picked(t)) + Of(t \ {Picked(t)})[t \ {Picked(t)}]]
  <2>1. \A t \in SUBSET s : t # s => Folds(Of(t), t)
    BY <1>1
  <2>2. \A t \in SUBSET s : IsFiniteSet(t)
    BY FS_Subset
  <2>3. ASSUME NEW t \in SUBSET s, t # s
        PROVE  h[t] = Of(t)[t]
    <3>1. CASE t = {}
      <4>1. Folds(Of(t), t)
        BY <2>1, <2>3
      <4> HIDE DEF Of
      <4>2. Of(t)[t] = 0
        BY <3>1, <4>1 DEF Folds, AddUp
      <4>3. QED
        BY <3>1, <4>2
    <3>2. CASE t # {}
      <4> DEFINE r == t \ {Picked(t)}
      <4>1. Picked(t) \in t /\ r \in SUBSET t /\ r \in SUBSET s /\ r # s
        BY <2>3, <3>2 DEF Picked
      <4>2. Folds(Of(t), t) /\ Folds(Of(r), r)
        BY <2>1, <2>3, <4>1
      <4> HIDE DEF Of, r
      <4>3. Of(t)[r] = Of(r)[r]
        BY <2>2, <4>1, <4>2, FoldsAgree
      <4>4. Of(t)[t] = Spent(Picked(t)) + Of(t)[r]
        BY <3>2, <4>2 DEF Folds, AddUp, r
      <4>5. h[t] = Spent(Picked(t)) + Of(r)[r]
        BY <3>2 DEF r
      <4>6. QED
        BY <4>3, <4>4, <4>5
    <3>3. QED
      BY <3>1, <3>2
  <2> HIDE DEF Of
  <2>4. ASSUME NEW t \in SUBSET s
        PROVE  h[t] = AddUp(h, t)
    <3>1. CASE t = {}
      BY <3>1 DEF AddUp
    <3>2. CASE t # {}
      <4> DEFINE r == t \ {Picked(t)}
      <4>1. Picked(t) \in t /\ r \in SUBSET s /\ r # s
        BY <3>2 DEF Picked
      <4>2. h[r] = Of(r)[r]
        BY <2>3, <4>1
      <4>3. h[t] = Spent(Picked(t)) + Of(r)[r]
        BY <3>2
      <4> HIDE DEF h
      <4>4. AddUp(h, t) = Spent(Picked(t)) + h[r]
        BY <3>2 DEF AddUp
      <4>5. QED
        BY <4>2, <4>3, <4>4
    <3>3. QED
      BY <3>1, <3>2
  <2>5. h = [t \in SUBSET s |-> h[t]]
    OBVIOUS
  <2> HIDE DEF h
  <2>6. Folds(h, s)
    BY <2>4, <2>5 DEF Folds
  <2>7. QED
    BY <2>6
<1> HIDE DEF G
<1>2. S \in G
  BY <1>1, BySubsets
<1>3. QED
  BY <1>2 DEF G

\* What is spent is the sum over the rows, taken in any order.
LEMMA SpendFolds ==
  ASSUME NEW S, IsFiniteSet(S)
  PROVE  \E g : Folds(g, S) /\ Spend(S) = g[S]
<1> DEFINE g == CHOOSE f : f = [s \in SUBSET S |-> AddUp(f, s)]
<1>1. Spend(S) = g[S]
  BY DEF Spend, MapThenSumSet, MapThenFoldSet, Picked, AddUp, Spent
<1>2. Folds(g, S)
  BY FoldExists DEF Folds
<1>3. QED
  BY <1>1, <1>2

\* Spend adds one row to the sum of the others.
LEMMA SpendStep ==
  ASSUME NEW S, IsFiniteSet(S)
  PROVE  /\ S = {} => Spend(S) = 0
         /\ S # {} => /\ Picked(S) \in S
                      /\ Spend(S) = Spent(Picked(S)) + Spend(S \ {Picked(S)})
<1>1. PICK g : Folds(g, S) /\ Spend(S) = g[S]
  BY SpendFolds
<1>2. CASE S = {}
  BY <1>1, <1>2 DEF Folds, AddUp
<1>3. CASE S # {}
  <2> DEFINE T == S \ {Picked(S)}
  <2>1. Picked(S) \in S
    BY <1>3 DEF Picked
  <2>2. IsFiniteSet(T) /\ T \in SUBSET S
    BY FS_Subset
  <2> HIDE DEF T
  <2>3. PICK h : Folds(h, T) /\ Spend(T) = h[T]
    BY <2>2, SpendFolds
  <2>4. g[T] = h[T]
    BY <1>1, <2>2, <2>3, FoldsAgree
  <2>5. g[S] = Spent(Picked(S)) + g[T]
    BY <1>1, <1>3 DEF Folds, AddUp, T
  <2>6. QED
    BY <1>1, <1>3, <2>1, <2>3, <2>4, <2>5 DEF T
<1>4. QED
  BY <1>2, <1>3

\* Sums are integers, and any row may be taken out first.
LEMMA SpendRemoves ==
  ASSUME NEW S \in SUBSET Tx, IsFiniteSet(S)
  PROVE  /\ Spend(S) \in Int
         /\ \A x \in S : Spend(S) = Spent(x) + Spend(S \ {x})
<1> DEFINE Fine(s) == Spend(s) \in Int /\ \A x \in s : Spend(s) = Spent(x) + Spend(s \ {x})
           G == {s \in SUBSET S : Fine(s)}
<1>0. \A x \in Tx : Spent(x) \in Int
  BY RowAssumption DEF Spent
<1>1. ASSUME NEW s \in SUBSET S, \A t \in SUBSET s : t # s => t \in G
      PROVE  s \in G
  <2>0. \A t \in SUBSET s : IsFiniteSet(t)
    BY FS_Subset
  <2>1. CASE s = {}
    <3>1. Spend(s) = 0
      BY <2>0, <2>1, SpendStep
    <3>2. QED
      BY <2>1, <3>1
  <2>2. CASE s # {}
    <3> DEFINE y == Picked(s)
    <3>1. y \in s /\ Spend(s) = Spent(y) + Spend(s \ {y})
      BY <2>0, <2>2, SpendStep
    <3> HIDE DEF y
    <3>2. s \ {y} \in G /\ Spent(y) \in Int
      BY <1>0, <1>1, <3>1
    <3>3. Spend(s) \in Int
      BY <3>1, <3>2
    <3>4. ASSUME NEW x \in s, x # y
          PROVE  Spend(s) = Spent(x) + Spend(s \ {x})
      <4>1. s \ {x} \in G /\ x \in s \ {y} /\ y \in s \ {x} /\ Spent(x) \in Int
        BY <1>0, <1>1, <3>1, <3>4
      <4>2. (s \ {x}) \ {y} = (s \ {y}) \ {x} /\ (s \ {x}) \ {y} \in G
        BY <1>1, <3>1
      <4>3. Spend(s \ {y}) = Spent(x) + Spend((s \ {y}) \ {x})
        BY <3>2, <4>1
      <4>4. Spend(s \ {x}) = Spent(y) + Spend((s \ {x}) \ {y})
        BY <4>1
      <4>5. Spend((s \ {x}) \ {y}) \in Int
        BY <4>2
      <4>6. QED
        BY <3>1, <3>2, <4>1, <4>2, <4>3, <4>4, <4>5
    <3>5. QED
      BY <3>1, <3>3, <3>4
  <2>3. QED
    BY <2>1, <2>2
<1> HIDE DEF G
<1>2. S \in G
  BY <1>1, BySubsets
<1>3. QED
  BY <1>2 DEF G

\* More outflows are more spending.
LEMMA SpendGrows ==
  ASSUME NEW B \in SUBSET Tx, IsFiniteSet(B), NEW A \in SUBSET B, \A t \in B : Row[t].amount < 0
  PROVE  Spend(A) <= Spend(B) /\ Spend(A) \in Int /\ Spend(B) \in Int
<1> DEFINE G == {s \in SUBSET B : \A a \in SUBSET s : Spend(a) <= Spend(s)}
<1>0. \A x \in B : Spent(x) \in Int /\ Spent(x) >= 0
  BY RowAssumption DEF Spent
<1>1. ASSUME NEW s \in SUBSET B, \A t \in SUBSET s : t # s => t \in G
      PROVE  s \in G
  <2>0. \A t \in SUBSET s : IsFiniteSet(t) /\ t \in SUBSET Tx
    BY FS_Subset
  <2>1. \A t \in SUBSET s : Spend(t) \in Int
    BY <2>0, SpendRemoves
  <2> SUFFICES ASSUME NEW a \in SUBSET s
               PROVE  Spend(a) <= Spend(s)
    OBVIOUS
  <2>2. CASE a = s
    BY <2>1, <2>2
  <2>3. CASE a # s
    <3>1. PICK x \in s : x \notin a
      BY <2>3
    <3>2. a \in SUBSET (s \ {x}) /\ s \ {x} \in G /\ Spent(x) \in Int /\ Spent(x) >= 0
      BY <1>0, <1>1, <3>1
    <3>3. Spend(s) = Spent(x) + Spend(s \ {x})
      BY <2>0, <3>1, SpendRemoves
    <3>4. Spend(a) <= Spend(s \ {x}) /\ Spend(a) \in Int /\ Spend(s \ {x}) \in Int
      BY <2>1, <3>2
    <3>5. QED
      BY <3>2, <3>3, <3>4
  <2>4. QED
    BY <2>2, <2>3
<1> HIDE DEF G
<1>2. B \in G
  BY <1>1, BySubsets
<1>3. Spend(A) \in Int /\ Spend(B) \in Int
  BY FS_Subset, SpendRemoves
<1>4. QED
  BY <1>2, <1>3 DEF G
-----------------------------------------------------------------------------
(* The ledger and the budget rule. *)

\* The first of the month is the last month start there is up to a time.
LEMMA MonthStart ==
  ASSUME NEW x \in Int, NEW n \in MonthStarts, n <= x
  PROVE  /\ month_start(x) \in MonthStarts /\ month_start(x) \in Nat /\ month_start(x) <= x
         /\ \A m \in MonthStarts : m <= x => m <= month_start(x)
<1> DEFINE M == {m \in MonthStarts : m <= x}
           D == {x - m : m \in M}
<1>1. \A m \in MonthStarts : m \in Nat
  BY MonthAssumption
<1>2. D \subseteq Nat /\ D # {}
  BY <1>1
<1>3. PICK d \in D : \A e \in D : d <= e
  BY <1>2, LeastNat
<1>4. PICK m \in M : d = x - m
  BY <1>3
<1>5. ASSUME NEW k \in M
      PROVE  m >= k
  <2>1. x - k \in D /\ k \in Nat /\ m \in Nat
    BY <1>1
  <2>2. d <= x - k
    BY <1>3, <2>1
  <2>3. QED
    BY <1>4, <2>1, <2>2
<1>6. Max(M) \in M /\ \A k \in M : Max(M) >= k
  BY <1>4, <1>5 DEF Max
<1>7. month_start(x) = Max(M)
  BY DEF month_start
<1> HIDE DEF M
<1>8. Max(M) \in MonthStarts /\ Max(M) <= x /\ \A k \in MonthStarts : k <= x => k \in M
  BY <1>6 DEF M
<1>9. \A k \in M : k \in Nat
  BY <1>1 DEF M
<1>10. QED
  BY <1>1, <1>6, <1>7, <1>8, <1>9

\* The rows that count for the budget of a row: those of earlier times that are
\* categorized, and those of its own time that are handled.
Counted(t) == Row[t].amount < 0 /\ t \notin late \cup corrected /\ event[t] # None
KeyOf(t) == BudgetKey(t, event[t])
UpTo(t) ==
  {u \in Tx : /\ Counted(u) /\ KeyOf(u) = KeyOf(t)
              /\ Row[u].at < Row[t].at \/ (u \in handled /\ Row[u].at = Row[t].at)}

\* The ledger is well formed; the category of a row is the one of its event unless it was corrected.
LedgerTypeOK ==
  /\ now \in FirstNow..MaxTime
  /\ committed \in SUBSET Tx /\ IsFiniteSet(committed)
  /\ category \in [Tx -> Category \cup {None}] /\ event \in [Tx -> Category \cup {None}]
  /\ \A t \in Tx : event[t] # None => t \in committed /\ (t \in corrected \/ category[t] = event[t])
  /\ \A t \in handled : t \in Tx /\ event[t] # None

\* Without its alert, a budget is kept up to the time of every row whose event was handled.
BudgetsWatched == \A t \in handled : KeyOf(t) \notin alerts => Spend(UpTo(t)) < BudgetLimit

\* The ledger begins empty.
LEMMA InitLedger == Init => LedgerTypeOK /\ BudgetsWatched
<1> SUFFICES ASSUME Init PROVE LedgerTypeOK /\ BudgetsWatched
  OBVIOUS
<1>1. IsFiniteSet({})
  BY FS_EmptySet
<1>2. LedgerTypeOK
  BY <1>1 DEF Init, LedgerTypeOK
<1>3. BudgetsWatched
  BY DEF Init, BudgetsWatched
<1>4. QED
  BY <1>2, <1>3

\* Requests leave the ledger alone.
LEMMA RequestReads ==
  Request \/ Query \/ SummaryFails \/ Page \/ Finish \/ (\E greeting \in BOOLEAN : Reply(greeting))
    => UNCHANGED <<now, ledgerVars>>
<1> DEFINE Same == UNCHANGED <<now, ledgerVars>>
<1>1. \A kind, period, ids, currency, cat, w, todo : Begin(kind, period, ids, currency, cat, w, todo) => Same
  BY DEF Begin
<1> HIDE DEF Same
<1>2. \A kind, period, ids, requested, reference : Summarize(kind, period, ids, requested, reference) => Same
  BY <1>1 DEF Summarize
<1>3. /\ \A period : LoadPeriod(period) => Same
      /\ \A period, a, requested, asOf : GetSummary(period, a, requested, asOf) => Same
  BY <1>2 DEF LoadPeriod, GetSummary
<1>4. \A period, a, requested, n : GetTrends(period, a, requested, n) => Same
  BY <1>1 DEF GetTrends
<1>5. \A mention, followUp, heard, m, requested, cat, wantsLargest :
        Retrieve(mention, followUp, heard, m, requested, cat, wantsLargest) => Same
  BY DEF Retrieve, Begin, Same
<1>6. \A a, cat : ListTransactions(a, cat) => Same
  BY <1>1 DEF ListTransactions
<1>7. Request => Same
  BY <1>3, <1>4, <1>5, <1>6 DEF Request
<1>8. QED
  BY <1>7 DEF Query, SummaryFails, Page, Finish, Reply, Same

\* Every step keeps the types of the ledger.
LEMMA LedgerTypeKept == LedgerTypeOK /\ [Next]_vars => LedgerTypeOK'
<1> SUFFICES ASSUME LedgerTypeOK, [Next]_vars PROVE LedgerTypeOK'
  OBVIOUS
<1> USE DEF LedgerTypeOK
<1>0. None \notin Category
  BY NoneAssumption
<1>1. ASSUME NEW t \in Tx, Commit(t) PROVE LedgerTypeOK'
  <2>1. IsFiniteSet(committed')
    BY <1>1, FS_AddElement DEF Commit
  <2>2. QED
    BY <1>1, <2>1 DEF Commit
<1>2. ASSUME NEW t \in Tx, Enrich(t) PROVE LedgerTypeOK'
  <2>1. PICK c \in Category : /\ t \in committed /\ event[t] = None
                              /\ category' = [category EXCEPT ![t] = c]
                              /\ event' = [event EXCEPT ![t] = c]
    BY <1>2, RowAssumption DEF Enrich
  <2>2. UNCHANGED <<now, committed, handled, corrected>>
    BY <1>2 DEF Enrich
  <2>3. QED
    BY <1>0, <2>1, <2>2
<1>3. ASSUME NEW t \in Tx, Handle(t) PROVE LedgerTypeOK'
  BY <1>3 DEF Handle
<1>4. ASSUME NEW t \in Tx, NEW c \in Category, Correct(t, c) PROVE LedgerTypeOK'
  BY <1>4 DEF Correct
<1>5. CASE UNCHANGED <<now, ledgerVars>>
  BY <1>5 DEF ledgerVars
<1>6. QED
  BY <1>1, <1>2, <1>3, <1>4, <1>5, RequestReads DEF Next, vars

\* The account of a row is one of its owner's.
LEMMA AccountOfOwner ==
  ASSUME NEW t \in Tx
  PROVE  Row[t].account \in AccountIds(OwnerOf(Row[t].account))
<1> DEFINE i == CHOOSE j \in DOMAIN Accounts : Accounts[j].id = Row[t].account
<1>1. i \in DOMAIN Accounts /\ Accounts[i].id = Row[t].account
  BY RowAssumption
<1>2. OwnerOf(Row[t].account) = Accounts[i].owner
  BY DEF OwnerOf
<1> HIDE DEF i
<1>3. QED
  BY <1>1, <1>2 DEF AccountIds

\* The rows OverBudget adds up.
MonthToDate(t) ==
  {u \in spend_by_category(AccountIds(OwnerOf(Row[t].account)),
                           [from |-> month_start(Row[t].at), to |-> Row[t].at], Row[t].currency) :
     category[u] = event[t]}

\* What counts for a row's budget is among them, and finite.
LEMMA CountedInMonth ==
  ASSUME LedgerTypeOK, NEW t \in Tx, NEW u \in Tx, event[t] # None,
         Counted(u), KeyOf(u) = KeyOf(t), Row[u].at <= Row[t].at
  PROVE  u \in MonthToDate(t)
<1>1. /\ OwnerOf(Row[u].account) = OwnerOf(Row[t].account) /\ Row[u].currency = Row[t].currency
      /\ event[u] = event[t] /\ month_start(Row[u].at) = month_start(Row[t].at)
  BY DEF KeyOf, BudgetKey
<1>2. u \in committed /\ category[u] = event[u]
  BY DEF LedgerTypeOK, Counted
<1>3. Row[u].account \in AccountIds(OwnerOf(Row[t].account))
  BY <1>1, AccountOfOwner
<1>4. month_start(Row[u].at) <= Row[u].at
  BY MonthStart, RowAssumption
<1>5. InWindow(u, [from |-> month_start(Row[t].at), to |-> Row[t].at])
  BY <1>1, <1>4 DEF InWindow
<1>6. QED
  BY <1>1, <1>2, <1>3, <1>5 DEF MonthToDate, spend_by_category, Outflows, Selected, Counted

\* What the budget rule adds up is a finite set of outflows.
LEMMA MonthIsFinite ==
  ASSUME LedgerTypeOK, NEW t \in Tx
  PROVE  /\ MonthToDate(t) \in SUBSET Tx /\ IsFiniteSet(MonthToDate(t))
         /\ \A u \in MonthToDate(t) : Row[u].amount < 0
         /\ OverBudget(t) <=> Spend(MonthToDate(t)) >= BudgetLimit
<1>1. MonthToDate(t) \in SUBSET committed
  BY DEF MonthToDate, spend_by_category, Outflows, Selected
<1>2. IsFiniteSet(MonthToDate(t)) /\ committed \in SUBSET Tx
  BY <1>1, FS_Subset DEF LedgerTypeOK
<1>3. \A u \in MonthToDate(t) : Row[u].amount < 0
  BY DEF MonthToDate, spend_by_category, Outflows
<1>4. OverBudget(t) <=> Spend(MonthToDate(t)) >= BudgetLimit
  BY DEF OverBudget, MonthToDate
<1>5. QED
  BY <1>1, <1>2, <1>3, <1>4

\* So are the rows that count up to a row.
LEMMA UpToIsFinite ==
  ASSUME LedgerTypeOK, NEW t \in Tx
  PROVE  UpTo(t) \in SUBSET Tx /\ IsFiniteSet(UpTo(t)) /\ \A u \in UpTo(t) : Row[u].amount < 0
<1>1. UpTo(t) \in SUBSET committed
  BY DEF UpTo, Counted, LedgerTypeOK
<1>2. IsFiniteSet(UpTo(t)) /\ committed \in SUBSET Tx
  BY <1>1, FS_Subset DEF LedgerTypeOK
<1>3. \A u \in UpTo(t) : Row[u].amount < 0
  BY DEF UpTo, Counted
<1>4. QED
  BY <1>1, <1>2, <1>3

\* A budget that was kept is kept when no more rows count.
LEMMA FewerRows ==
  ASSUME LedgerTypeOK, NEW t \in Tx, NEW S \in SUBSET UpTo(t), Spend(UpTo(t)) < BudgetLimit
  PROVE  Spend(S) < BudgetLimit
<1>1. Spend(S) <= Spend(UpTo(t)) /\ Spend(S) \in Int /\ Spend(UpTo(t)) \in Int
  BY UpToIsFinite, SpendGrows
<1>2. BudgetLimit \in Int
  BY ReportsAssumption
<1>3. QED
  BY <1>1, <1>2

\* Handling an event raises the alert or finds the budget kept; nothing else adds to what counts.
LEMMA BudgetsKept == LedgerTypeOK /\ BudgetsWatched /\ [Next]_vars => BudgetsWatched'
<1> SUFFICES ASSUME LedgerTypeOK, BudgetsWatched, [Next]_vars PROVE BudgetsWatched'
  OBVIOUS
<1>0. BudgetLimit \in Int /\ \A t \in Tx : Row[t].at \in Int
  BY ReportsAssumption, RowAssumption
<1>a. ASSUME NEW v \in handled, KeyOf(v) \notin alerts, UpTo(v)' \subseteq UpTo(v)
      PROVE  Spend(UpTo(v)') < BudgetLimit
  BY <1>a, FewerRows DEF BudgetsWatched, LedgerTypeOK
<1>1. ASSUME NEW t \in Tx, Commit(t) PROVE BudgetsWatched'
  BY <1>1 DEF Commit, BudgetsWatched, KeyOf, UpTo, Counted
<1>2. ASSUME NEW t \in Tx, Enrich(t) PROVE BudgetsWatched'
  <2>1. PICK c : /\ event[t] = None /\ event' = [event EXCEPT ![t] = c]
                 /\ late' = IF \E u \in handled : BudgetKey(u, event[u]) = BudgetKey(t, c) /\ Row[u].at > Row[t].at
                            THEN late \cup {t} ELSE late
                 /\ UNCHANGED <<handled, alerts, corrected>>
    BY <1>2 DEF Enrich
  <2> SUFFICES ASSUME NEW v \in handled, KeyOf(v)' \notin alerts
               PROVE  Spend(UpTo(v)') < BudgetLimit
    BY <2>1 DEF BudgetsWatched
  <2>2. v \in Tx /\ v # t /\ KeyOf(v)' = KeyOf(v)
    BY <2>1 DEF LedgerTypeOK, KeyOf
  <2>3. ASSUME NEW u \in UpTo(v)' PROVE u \in UpTo(v)
    <3>1. /\ u \in Tx /\ Counted(u)' /\ KeyOf(u)' = KeyOf(v)
          /\ Row[u].at < Row[v].at \/ (u \in handled /\ Row[u].at = Row[v].at)
      BY <2>1, <2>2, <2>3 DEF UpTo
    <3>2. u # t
      <4> SUFFICES ASSUME u = t PROVE FALSE
        OBVIOUS
      <4>1. t \notin handled
        BY <2>1 DEF LedgerTypeOK
      <4>2. BudgetKey(v, event[v]) = BudgetKey(t, c)
        BY <2>1, <3>1 DEF KeyOf, LedgerTypeOK
      <4>3. Row[v].at > Row[t].at
        BY <1>0, <2>2, <3>1, <4>1
      <4>4. t \in late'
        BY <2>1, <4>2, <4>3
      <4>5. QED
        BY <3>1, <4>4 DEF Counted
    <3>3. event'[u] = event[u] /\ late \subseteq late'
      BY <2>1, <3>2 DEF LedgerTypeOK
    <3>4. QED
      BY <2>1, <3>1, <3>3 DEF UpTo, Counted, KeyOf
  <2>4. QED
    BY <1>a, <2>2, <2>3
<1>3. ASSUME NEW t \in Tx, Handle(t) PROVE BudgetsWatched'
  <2>1. /\ event[t] # None /\ handled' = handled \cup {t}
        /\ alerts' = IF OverBudget(t) THEN alerts \cup {KeyOf(t)} ELSE alerts
        /\ UNCHANGED <<event, late, corrected>>
    BY <1>3 DEF Handle, KeyOf
  <2>2. \A u \in Tx : KeyOf(u)' = KeyOf(u) /\ (Counted(u)' <=> Counted(u))
    BY <2>1 DEF KeyOf, Counted
  <2> SUFFICES ASSUME NEW v \in handled \cup {t}, KeyOf(v) \notin alerts'
               PROVE  Spend(UpTo(v)') < BudgetLimit
    BY <2>1 DEF BudgetsWatched, KeyOf
  <2>3. v \in Tx /\ event[v] # None /\ KeyOf(v) \notin alerts
    BY <2>1 DEF LedgerTypeOK
  <2>4. CASE KeyOf(v) = KeyOf(t) /\ Row[v].at = Row[t].at
    <3>1. ~OverBudget(t)
      BY <2>1, <2>4
    <3>2. UpTo(v)' \in SUBSET MonthToDate(t)
      <4> SUFFICES ASSUME NEW u \in UpTo(v)' PROVE u \in MonthToDate(t)
        OBVIOUS
      <4>1. u \in Tx /\ Counted(u) /\ KeyOf(u) = KeyOf(t) /\ (Row[u].at < Row[t].at \/ Row[u].at = Row[t].at)
        BY <2>2, <2>3, <2>4 DEF UpTo
      <4>2. Row[u].at <= Row[t].at
        BY <1>0, <4>1
      <4>3. QED
        BY <2>1, <4>1, <4>2, CountedInMonth
    <3> DEFINE A == UpTo(v)'
    <3> HIDE DEF A
    <3>3. A \in SUBSET MonthToDate(t)
      BY <3>2 DEF A
    <3>4. /\ MonthToDate(t) \in SUBSET Tx /\ IsFiniteSet(MonthToDate(t))
          /\ \A u \in MonthToDate(t) : Row[u].amount < 0
          /\ ~(Spend(MonthToDate(t)) >= BudgetLimit)
      BY <3>1, MonthIsFinite
    <3>5. /\ Spend(A) <= Spend(MonthToDate(t))
          /\ Spend(A) \in Int /\ Spend(MonthToDate(t)) \in Int
      BY <3>3, <3>4, SpendGrows
    <3>6. QED
      BY <1>0, <3>4, <3>5 DEF A
  <2>5. CASE ~(KeyOf(v) = KeyOf(t) /\ Row[v].at = Row[t].at)
    <3>1. v \in handled
      BY <2>5
    <3>2. UpTo(v)' \subseteq UpTo(v)
      BY <2>1, <2>2, <2>3, <2>5 DEF UpTo
    <3>3. QED
      BY <1>a, <2>3, <3>1, <3>2
  <2>6. QED
    BY <2>4, <2>5
<1>4. ASSUME NEW t \in Tx, NEW c \in Category, Correct(t, c) PROVE BudgetsWatched'
  <2>1. corrected \subseteq corrected' /\ UNCHANGED <<event, handled, alerts, late>>
    BY <1>4 DEF Correct
  <2> SUFFICES ASSUME NEW v \in handled, KeyOf(v) \notin alerts
               PROVE  Spend(UpTo(v)') < BudgetLimit
    BY <2>1 DEF BudgetsWatched, KeyOf
  <2>2. UpTo(v)' \subseteq UpTo(v)
    BY <2>1 DEF UpTo, KeyOf, Counted
  <2>3. QED
    BY <1>a, <2>2
<1>5. CASE UNCHANGED <<now, ledgerVars>>
  BY <1>5 DEF ledgerVars, BudgetsWatched, KeyOf, UpTo, Counted
<1>6. QED
  BY <1>1, <1>2, <1>3, <1>4, <1>5, RequestReads DEF Next, vars

\* A finite set of rows that is not empty has a latest one.
LEMMA LatestRow ==
  ASSUME NEW S \in SUBSET Tx, IsFiniteSet(S), S # {}
  PROVE  \E t \in S : \A u \in S : Row[u].at <= Row[t].at
<1> DEFINE Has(s) == s # {} => \E t \in s : \A u \in s : Row[u].at <= Row[t].at
           G == {s \in SUBSET S : Has(s)}
<1>1. ASSUME NEW s \in SUBSET S, \A t \in SUBSET s : t # s => t \in G
      PROVE  s \in G
  <2> SUFFICES ASSUME s # {} PROVE \E t \in s : \A u \in s : Row[u].at <= Row[t].at
    OBVIOUS
  <2>0. \A t \in s : Row[t].at \in Nat
    BY RowAssumption
  <2>1. PICK x \in s : TRUE
    OBVIOUS
  <2>2. s \ {x} \in G
    BY <1>1, <2>1
  <2>3. CASE s = {x}
    BY <2>0, <2>3
  <2>4. CASE s # {x}
    <3>1. PICK t \in s \ {x} : \A u \in s \ {x} : Row[u].at <= Row[t].at
      BY <2>1, <2>2, <2>4
    <3>2. CASE Row[x].at <= Row[t].at
      BY <3>1, <3>2
    <3>3. CASE Row[t].at < Row[x].at
      <4>1. \A u \in s : Row[u].at <= Row[x].at
        BY <2>0, <2>1, <3>1, <3>3
      <4>2. QED
        BY <4>1
    <3>4. QED
      BY <2>0, <2>1, <3>2, <3>3
  <2>5. QED
    BY <2>3, <2>4
<1> HIDE DEF G
<1>2. S \in G
  BY <1>1, BySubsets
<1>3. QED
  BY <1>2 DEF G

\* At the latest row of a month, keeping the budget is keeping it for all of them.
LEMMA BudgetsRaised == LedgerTypeOK /\ BudgetsWatched => BudgetRaised
<1> SUFFICES ASSUME LedgerTypeOK, BudgetsWatched,
                    NEW k \in {BudgetKey(t, event[t]) : t \in handled}
             PROVE  LET R == {t \in handled : BudgetKey(t, event[t]) = k /\ Row[t].amount < 0}
                    IN  R \cap (late \cup corrected) = {} /\ Spend(R) >= BudgetLimit => k \in alerts
  BY DEF BudgetRaised
<1> DEFINE R == {t \in handled : BudgetKey(t, event[t]) = k /\ Row[t].amount < 0}
<1> SUFFICES ASSUME R \cap (late \cup corrected) = {}, Spend(R) >= BudgetLimit, k \notin alerts
             PROVE  FALSE
  OBVIOUS
<1>1. R \in SUBSET committed /\ committed \in SUBSET Tx
  BY DEF LedgerTypeOK
<1>2. R \in SUBSET Tx /\ IsFiniteSet(R)
  BY <1>1, FS_Subset DEF LedgerTypeOK
<1>3. R # {}
  <2> SUFFICES ASSUME R = {} PROVE FALSE
    OBVIOUS
  <2>1. Spend(R) = 0
    BY <1>2, SpendStep
  <2>2. QED
    BY <2>1, ReportsAssumption
<1>4. PICK t \in R : \A u \in R : Row[u].at <= Row[t].at
  <2> HIDE DEF R
  <2>1. QED
    BY <1>2, <1>3, LatestRow
<1>5. R \in SUBSET UpTo(t)
  <2> SUFFICES ASSUME NEW u \in R PROVE u \in UpTo(t)
    OBVIOUS
  <2>1. u \in Tx /\ u \in handled /\ Counted(u) /\ KeyOf(u) = KeyOf(t)
    BY <1>2 DEF LedgerTypeOK, Counted, KeyOf
  <2>2. Row[u].at < Row[t].at \/ Row[u].at = Row[t].at
    BY <1>1, <1>4, RowAssumption
  <2>3. QED
    BY <2>1, <2>2 DEF UpTo
<1>6. t \in Tx /\ KeyOf(t) = k /\ t \in handled
  BY <1>1 DEF KeyOf
<1>7. Spend(UpTo(t)) < BudgetLimit
  BY <1>6 DEF BudgetsWatched
<1> HIDE DEF R
<1>8. Spend(R) < BudgetLimit
  BY <1>5, <1>6, <1>7, FewerRows
<1>9. Spend(R) \in Int /\ BudgetLimit \in Int
  BY <1>2, SpendRemoves, ReportsAssumption
<1>10. QED
  BY <1>8, <1>9

-----------------------------------------------------------------------------
(* ORDER BY and LIMIT. *)

\* A strict order in which any two of a set's elements compare.
Orders(R, S) ==
  /\ \A a, b \in S : a # b => <<a, b>> \in R \/ <<b, a>> \in R
  /\ \A a, b, c \in S : <<a, b>> \in R /\ <<b, c>> \in R => <<a, c>> \in R
Follow(s, R) == \A i, j \in DOMAIN s : i < j => <<s[i], s[j]>> \in R

\* A finite set has a last element.
LEMMA LastOne ==
  ASSUME NEW S, IsFiniteSet(S), S # {}, NEW R, Orders(R, S)
  PROVE  \E x \in S : \A y \in S \ {x} : <<y, x>> \in R
<1> DEFINE Has(s) == s # {} => \E x \in s : \A y \in s \ {x} : <<y, x>> \in R
           G == {s \in SUBSET S : Has(s)}
<1>1. ASSUME NEW s \in SUBSET S, \A t \in SUBSET s : t # s => t \in G
      PROVE  s \in G
  <2> SUFFICES ASSUME s # {} PROVE \E x \in s : \A y \in s \ {x} : <<y, x>> \in R
    OBVIOUS
  <2>1. PICK w \in s : TRUE
    OBVIOUS
  <2>2. s \ {w} \in G
    BY <1>1, <2>1
  <2>3. CASE s = {w}
    BY <2>3
  <2>4. CASE s # {w}
    <3>1. PICK x \in s \ {w} : \A y \in (s \ {w}) \ {x} : <<y, x>> \in R
      BY <2>1, <2>2, <2>4
    <3>2. CASE <<w, x>> \in R
      BY <3>1, <3>2
    <3>3. CASE <<x, w>> \in R
      <4>1. \A y \in s \ {w} : <<y, w>> \in R
        BY <3>1, <3>3 DEF Orders
      <4>2. QED
        BY <4>1
    <3>4. QED
      BY <3>1, <3>2, <3>3 DEF Orders
  <2>5. QED
    BY <2>3, <2>4
<1> HIDE DEF G
<1>2. S \in G
  BY <1>1, BySubsets
<1>3. QED
  BY <1>2 DEF G

\* A finite set can be sorted.
LEMMA SortExists ==
  ASSUME NEW S, IsFiniteSet(S), NEW R, Orders(R, S)
  PROVE  \E s \in SetToSeqs(S) : Follow(s, R)
<1> DEFINE G == {r \in SUBSET S : \E s \in SetToSeqs(r) : Follow(s, R)}
<1>1. ASSUME NEW r \in SUBSET S, \A t \in SUBSET r : t # r => t \in G
      PROVE  r \in G
  <2>0. IsFiniteSet(r) /\ Orders(R, r)
    BY FS_Subset DEF Orders
  <2>1. CASE r = {}
    <3> DEFINE s == [i \in 1..0 |-> 0]
    <3>1. Cardinality(r) = 0 /\ 1..0 = {}
      BY <2>1, FS_EmptySet
    <3>2. s \in SetToSeqs(r) /\ Follow(s, R)
      BY <3>1 DEF SetToSeqs, Follow
    <3>3. QED
      BY <3>2
  <2>2. CASE r # {}
    <3>1. PICK x \in r : \A y \in r \ {x} : <<y, x>> \in R
      BY <2>0, <2>2, LastOne
    <3>2. PICK q \in SetToSeqs(r \ {x}) : Follow(q, R)
      BY <1>1, <3>1
    <3> DEFINE n == Cardinality(r)
               s == [i \in 1..n |-> IF i = n THEN x ELSE q[i]]
    <3>3. n \in Nat /\ Cardinality(r \ {x}) = n - 1
      BY <2>0, <3>1, FS_RemoveElement, FS_CardinalityType
    <3> HIDE DEF n
    <3>4. /\ q \in [1..(n - 1) -> r \ {x}]
          /\ \A i, j \in 1..(n - 1) : i # j => q[i] # q[j]
      BY <3>2, <3>3 DEF SetToSeqs
    <3>5. s \in [1..n -> r]
      BY <3>1, <3>3, <3>4
    <3>6. \A i, j \in 1..n : i # j => s[i] # s[j]
      BY <3>1, <3>3, <3>4
    <3>7. s \in SetToSeqs(r)
      BY <3>5, <3>6 DEF SetToSeqs, n
    <3>8. Follow(s, R)
      <4> SUFFICES ASSUME NEW i \in 1..n, NEW j \in 1..n, i < j
                   PROVE  <<s[i], s[j]>> \in R
        BY DEF Follow
      <4>1. i \in 1..(n - 1) /\ q[i] \in r \ {x} /\ s[i] = q[i]
        BY <3>3, <3>4
      <4>2. CASE j = n
        BY <3>1, <4>1, <4>2
      <4>3. CASE j # n
        BY <3>2, <3>3, <3>4, <4>1, <4>3 DEF Follow
      <4>4. QED
        BY <4>2, <4>3
    <3>9. QED
      BY <3>7, <3>8
  <2>3. QED
    BY <2>1, <2>2
<1> HIDE DEF G
<1>2. S \in G
  BY <1>1, BySubsets
<1>3. QED
  BY <1>2 DEF G

\* Sorted lists every row, in the order.
LEMMA SortedRows ==
  ASSUME NEW S \in SUBSET Tx, IsFiniteSet(S), NEW R, Orders(R, S)
  PROVE  /\ Sorted(S, R) \in Seq(S) /\ Follow(Sorted(S, R), R)
         /\ \A t \in S : \E i \in 1..Len(Sorted(S, R)) : Sorted(S, R)[i] = t
<1> DEFINE s == Sorted(S, R)
           n == Cardinality(S)
<1>1. s \in SetToSeqs(S) /\ Follow(s, R)
  BY SortExists DEF Sorted, Follow
<1> HIDE DEF s
<1>2. n \in Nat
  BY FS_CardinalityType
<1>3. s \in [1..n -> S] /\ \A i, j \in 1..n : i # j => s[i] # s[j]
  BY <1>1 DEF SetToSeqs
<1>4. s \in Injection(1..n, S)
  BY <1>3 DEF Injection, IsInjective
<1>5. IsFiniteSet(1..n) /\ Cardinality(1..n) = n
  BY <1>2, FS_Interval
<1> HIDE DEF n
<1>6. s \in Surjection(1..n, S)
  BY <1>4, <1>5, FS_Injection DEF n
<1>7. \A t \in S : \E i \in 1..n : s[i] = t
  BY <1>6 DEF Surjection
<1>8. s \in Seq(S) /\ Len(s) = n
  BY <1>2, <1>3
<1>9. QED
  BY <1>1, <1>7, <1>8 DEF s

\* No two rows are equally new, and newer is transitive.
LEMMA NewestOrders == ASSUME NEW S \in SUBSET Tx PROVE Orders(NewestFirst, S)
<1>1. \A t \in S : t \in Tx /\ t \in Nat /\ Row[t].at \in Nat
  BY ReportsAssumption, RowAssumption
<1>2. \A a, b \in S : a # b => Newest(a, b) \/ Newest(b, a)
  BY <1>1 DEF Newest
<1>3. \A a, b, c \in S : Newest(a, b) /\ Newest(b, c) => Newest(a, c)
  BY <1>1 DEF Newest
<1>4. QED
  BY <1>1, <1>2, <1>3 DEF Orders, NewestFirst

\* The same of larger.
LEMMA LargestOrders == ASSUME NEW S \in SUBSET Tx PROVE Orders(LargestFirst, S)
<1>1. \A t \in S : t \in Tx /\ t \in Nat /\ Row[t].at \in Nat /\ Row[t].amount \in Int
  BY ReportsAssumption, RowAssumption
<1>2. \A a, b \in S : a # b => Larger(a, b) \/ Larger(b, a)
  BY <1>1 DEF Larger
<1>3. \A a, b, c \in S : Larger(a, b) /\ Larger(b, c) => Larger(a, c)
  BY <1>1 DEF Larger
<1>4. QED
  BY <1>1, <1>2, <1>3 DEF Orders, LargestFirst

\* LIMIT keeps the first rows.
LEMMA FirstRowsOf ==
  ASSUME NEW S, NEW s \in Seq(S), NEW n \in Nat
  PROVE  /\ FirstRows(s, n) \in Seq(S)
         /\ Len(FirstRows(s, n)) = IF n <= Len(s) THEN n ELSE Len(s)
         /\ \A i \in 1..Len(FirstRows(s, n)) : FirstRows(s, n)[i] = s[i]
<1> DEFINE k == IF n <= Len(s) THEN n ELSE Len(s)
<1>0. Len(s) \in Nat
  BY LenProperties
<1>1. k \in Nat /\ k <= Len(s)
  BY <1>0
<1>2. Min({n, Len(s)}) = k
  BY <1>0 DEF Min
<1>3. FirstRows(s, n) = SubSeq(s, 1, k)
  BY <1>2 DEF FirstRows
<1> HIDE DEF k
<1>4. \A i \in 1..k : i \in 1..Len(s)
  BY <1>0, <1>1
<1>5. /\ SubSeq(s, 1, k) \in Seq(S) /\ Len(SubSeq(s, 1, k)) = k
      /\ \A i \in 1..k : SubSeq(s, 1, k)[i] = s[i]
  BY <1>0, <1>1, <1>4, SubSeqProperties
<1>6. QED
  BY <1>3, <1>5 DEF k

\* The rows a page selects from.
PageRows(ids, w, cat, cursor) == {t \in Selected(ids, w, cat) : AfterCursor(t, cursor)}

\* A statement selects finitely many rows.
LEMMA SelectedIsFinite ==
  ASSUME LedgerTypeOK, NEW ids, NEW w, NEW cat, NEW S \in SUBSET Selected(ids, w, cat)
  PROVE  S \in SUBSET Tx /\ IsFiniteSet(S)
<1>1. S \in SUBSET committed /\ committed \in SUBSET Tx /\ IsFiniteSet(committed)
  BY DEF Selected, LedgerTypeOK
<1>2. QED
  BY <1>1, FS_Subset

InOrder(s) == \A i, j \in DOMAIN s : i < j => Newest(s[i], s[j])

\* list_page: the first rows after the cursor; the next cursor is the last of
\* them, and no row down to it is missing.
LEMMA PageOfRows ==
  ASSUME LedgerTypeOK, NEW ids, NEW w, NEW cat, NEW cursor
  PROVE  LET S == PageRows(ids, w, cat, cursor)
             result == list_page(ids, w, cat, cursor)
         IN  /\ result.items \in Seq(S) /\ S \in SUBSET Tx /\ InOrder(result.items)
             /\ result.next \in Tx \cup {None}
             /\ result.next # None => result.items # <<>> /\ result.next = result.items[Len(result.items)]
             /\ \A t \in S : result.next = None \/ ~Newest(result.next, t) => t \in ToSet(result.items)
<1> DEFINE S == PageRows(ids, w, cat, cursor)
           s == Sorted(S, NewestFirst)
           R == FirstRows(s, PageSize + 1)
           p == FirstRows(R, PageSize)
           next == IF Len(R) > PageSize THEN p[PageSize] ELSE None
<1>1. PageSize \in Nat \ {0} /\ None \notin Tx
  BY ReportsAssumption, NoneAssumption
<1>2. S \in SUBSET Tx /\ IsFiniteSet(S)
  BY SelectedIsFinite DEF PageRows
<1>3. list_page(ids, w, cat, cursor) = [items |-> p, next |-> next]
  BY DEF list_page, PageRows
<1> HIDE DEF S
<1>4. /\ s \in Seq(S) /\ Follow(s, NewestFirst)
      /\ \A t \in S : \E i \in 1..Len(s) : s[i] = t
  BY <1>2, SortedRows, NewestOrders
<1> HIDE DEF s
<1>5. /\ R \in Seq(S) /\ Len(R) = (IF PageSize + 1 <= Len(s) THEN PageSize + 1 ELSE Len(s))
      /\ \A i \in 1..Len(R) : R[i] = s[i]
  BY <1>1, <1>4, FirstRowsOf
<1> HIDE DEF R
<1>6. /\ p \in Seq(S) /\ Len(p) = (IF PageSize <= Len(R) THEN PageSize ELSE Len(R))
      /\ \A i \in 1..Len(p) : p[i] = R[i]
  BY <1>1, <1>5, FirstRowsOf
<1> HIDE DEF p
<1>7. Len(s) \in Nat /\ Len(R) \in Nat /\ Len(p) \in Nat /\ DOMAIN p = 1..Len(p) /\ DOMAIN s = 1..Len(s)
  BY <1>4, <1>5, <1>6, LenProperties
<1>8. /\ Len(p) <= Len(s) /\ Len(p) <= PageSize
      /\ Len(p) < Len(s) => Len(p) = PageSize /\ Len(R) > PageSize
      /\ Len(R) > PageSize => Len(p) = PageSize
      /\ \A i \in 1..Len(p) : p[i] = s[i] /\ i \in 1..Len(s)
  <2>1. /\ Len(p) <= Len(s) /\ Len(p) <= PageSize /\ Len(p) <= Len(R)
        /\ Len(p) < Len(s) => Len(p) = PageSize /\ Len(R) > PageSize
        /\ Len(R) > PageSize => Len(p) = PageSize
    <3>1. Len(R) = IF PageSize + 1 <= Len(s) THEN PageSize + 1 ELSE Len(s)
      BY <1>5
    <3>2. Len(p) = IF PageSize <= Len(R) THEN PageSize ELSE Len(R)
      BY <1>6
    <3>3. PageSize \in Nat /\ Len(s) \in Nat /\ Len(R) \in Nat
      BY <1>1, <1>7
    <3>4. QED
      BY <3>1, <3>2, <3>3
  <2>2. \A i \in 1..Len(p) : i \in 1..Len(R) /\ i \in 1..Len(s)
    BY <1>7, <2>1
  <2>3. QED
    BY <1>5, <1>6, <2>1, <2>2
<1>9. \A i, j \in 1..Len(s) : i < j => Newest(s[i], s[j])
  BY <1>4, <1>7 DEF Follow, NewestFirst
<1>10. InOrder(p)
  BY <1>7, <1>8, <1>9 DEF InOrder
<1>11. /\ next \in Tx \cup {None}
       /\ next # None => p # <<>> /\ next = p[Len(p)]
  <2>1. CASE Len(R) > PageSize
    <3>1. Len(p) = PageSize /\ PageSize \in 1..Len(p)
      BY <1>1, <1>8, <2>1
    <3>2. p[PageSize] \in S /\ p # <<>>
      BY <1>6, <3>1, ElementOfSeq
    <3>3. QED
      BY <1>2, <2>1, <3>1, <3>2
  <2>2. CASE ~(Len(R) > PageSize)
    BY <2>2
  <2>3. QED
    BY <2>1, <2>2
<1>12. ASSUME NEW t \in S, next = None \/ ~Newest(next, t)
       PROVE  t \in ToSet(p)
  <2>1. PICK i \in 1..Len(s) : s[i] = t
    BY <1>4
  <2>2. i \in 1..Len(p)
    <3> SUFFICES ASSUME i > Len(p) PROVE FALSE
      BY <1>7, <2>1
    <3>1. Len(p) = PageSize /\ Len(R) > PageSize
      BY <1>7, <1>8, <2>1
    <3>2. PageSize \in 1..Len(p) /\ PageSize \in 1..Len(s) /\ PageSize < i
      BY <1>1, <1>7, <1>8, <3>1
    <3>3. next = s[PageSize] /\ Newest(s[PageSize], t)
      BY <1>8, <1>9, <2>1, <3>1, <3>2
    <3>4. p[PageSize] \in S
      BY <1>6, <3>2, ElementOfSeq
    <3>5. next # None
      BY <1>1, <1>2, <1>8, <3>2, <3>3, <3>4
    <3>6. QED
      BY <1>12, <3>3, <3>5
  <2>3. p[i] = t
    BY <1>8, <2>1, <2>2
  <2>4. QED
    BY <1>7, <2>2, <2>3 DEF ToSet
<1> HIDE DEF next
<1>13. QED
  BY <1>2, <1>3, <1>6, <1>10, <1>11, <1>12 DEF S

\* Some of the largest rows are quoted, and no row that is larger than one of them is left out.
Quotes(l, t) == LET quoted == ToSet(FirstRows(l, 3))
                IN  l # <<>> /\ (t \in quoted \/ \A u \in quoted : Larger(u, t))

\* An outflow is among the rows quoted of the largest, or all of these are larger.
LEMMA LargestQuoted ==
  ASSUME LedgerTypeOK, NEW ids, NEW w, NEW currency, NEW cat,
         NEW t \in Outflows(ids, w, cat), Row[t].currency = currency
  PROVE  Quotes(largest_outflows(ids, w, currency, cat), t)
<1> DEFINE S == {u \in Outflows(ids, w, cat) : Row[u].currency = currency}
           s == Sorted(S, LargestFirst)
           l == FirstRows(s, LargestLimit)
           q == FirstRows(l, 3)
<1>1. LargestLimit \in Nat \ {0}
  BY ReportsAssumption
<1>2. S \in SUBSET Tx /\ IsFiniteSet(S) /\ t \in S
  BY SelectedIsFinite DEF Outflows
<1>3. largest_outflows(ids, w, currency, cat) = l
  BY DEF largest_outflows
<1> HIDE DEF S
<1>4. /\ s \in Seq(S) /\ Follow(s, LargestFirst)
      /\ \E i \in 1..Len(s) : s[i] = t
  BY <1>2, SortedRows, LargestOrders
<1> HIDE DEF s
<1>5. /\ l \in Seq(S) /\ Len(l) = (IF LargestLimit <= Len(s) THEN LargestLimit ELSE Len(s))
      /\ \A i \in 1..Len(l) : l[i] = s[i]
  BY <1>1, <1>4, FirstRowsOf
<1> HIDE DEF l
<1>6. /\ q \in Seq(S) /\ Len(q) = (IF 3 <= Len(l) THEN 3 ELSE Len(l))
      /\ \A i \in 1..Len(q) : q[i] = l[i]
  BY <1>5, FirstRowsOf
<1> HIDE DEF q
<1>7. Len(s) \in Nat /\ Len(l) \in Nat /\ Len(q) \in Nat /\ DOMAIN q = 1..Len(q) /\ DOMAIN s = 1..Len(s)
  BY <1>4, <1>5, <1>6, LenProperties
<1>8. /\ Len(q) <= Len(s)
      /\ \A i \in 1..Len(q) : q[i] = s[i] /\ i \in 1..Len(s)
  BY <1>1, <1>5, <1>6, <1>7
<1>9. PICK i \in 1..Len(s) : s[i] = t
  BY <1>4
<1>10. l # <<>>
  <2>1. Len(l) > 0
    BY <1>1, <1>5, <1>7, <1>9
  <2>2. QED
    BY <2>1
<1>11. CASE i <= Len(q)
  <2>1. i \in DOMAIN q /\ q[i] = t
    BY <1>7, <1>8, <1>9, <1>11
  <2>2. QED
    BY <1>3, <1>10, <2>1 DEF Quotes, ToSet, q
<1>12. CASE i > Len(q)
  <2>1. ASSUME NEW u \in ToSet(q) PROVE Larger(u, t)
    <3>1. PICK j \in 1..Len(q) : q[j] = u
      BY <1>7, <2>1 DEF ToSet
    <3>2. s[j] = u /\ j \in 1..Len(s) /\ j < i
      BY <1>7, <1>8, <1>12, <3>1
    <3>3. QED
      BY <1>4, <1>7, <1>9, <3>2 DEF Follow, LargestFirst
  <2>2. QED
    BY <1>3, <1>10, <2>1 DEF Quotes, q
<1>13. QED
  BY <1>7, <1>9, <1>11, <1>12

-----------------------------------------------------------------------------
(* The request being answered. *)

Fields == {"pc", "kind", "period", "ids", "currency", "cat", "todo", "got", "focus", "window",
           "asOf", "items", "cursor", "page", "says"}
Totals == {"summary", "dashboard"} \cup Chats
Statement(op) == [op |-> op, w |-> reader.window]

\* A request is a record, its statements, results and pages are sequences, and where it stands
\* says what it may still have to do.
ReaderTypeOK ==
  /\ DOMAIN reader = Fields
  /\ reader.todo \in Seq(ToSet(reader.todo)) /\ reader.got \in Seq(ToSet(reader.got))
  /\ reader.items \in Seq(Tx) /\ reader.cursor \in Tx \cup {None} /\ reader.page \in Nat
  /\ before \subseteq committed
  /\ reader.pc = "reading" <=> reader.todo # <<>>
  /\ reader.pc = "answering" => reader.kind \in Chats
  /\ reader.pc = "listing" => reader.kind \in {"list", "dashboard"}
  /\ reader.kind = "list" => reader.pc \in {"listing", "done"}
  /\ reader.kind = "dashboard" => reader.cat = None

\* The rows that were there all along, those of the category asked for, and the outflows among
\* them in the currency asked for.
InView == Steady(reader.window, None)
OfCategory == Steady(reader.window, reader.cat)
Outflow(t) == Row[t].amount < 0 /\ Row[t].currency = reader.currency

\* The pages so far are in order and end at the cursor, and nothing owed is missing above it.
Owed == OfCategory \cup (IF reader.kind = "dashboard" THEN reader.got[1] ELSE {})
PagesSoFar ==
  /\ InOrder(reader.items)
  /\ reader.page = 0 => reader.items = <<>> /\ reader.cursor = None
  /\ reader.page > 0 => \A t \in Owed : Reached(t) => t \in ToSet(reader.items)
  /\ reader.page > 0 => reader.pc \in {"listing", "done"}
  /\ reader.cursor # None => reader.items # <<>> /\ reader.cursor = reader.items[Len(reader.items)]
  /\ reader.pc = "listing" /\ reader.page > 0 => reader.cursor # None
  /\ reader.pc = "done" /\ reader.kind \in {"list", "dashboard"} => reader.page > 0

\* The statements of a summary or a chat that are still to run, in their order.
Figures == reader.kind \in Totals /\ ~(reader.kind \in Chats /\ reader.pc = "done")
Script ==
  Figures =>
    /\ Len(reader.got) + Len(reader.todo) >= 2
    /\ Len(reader.got) = 0 => reader.todo[1] = Statement("spend") /\ reader.todo[2] = Statement("currencies")
    /\ Len(reader.got) = 1 => reader.todo[1] = Statement("currencies")
    /\ reader.kind = "chat with largest" /\ reader.todo # <<>> =>
         reader.todo[Len(reader.todo)] = Statement("largest")

\* What was read of the total, the category, the currencies and the largest rows.
TotalRead ==
  Figures /\ Len(reader.got) >= 1 =>
    /\ \A t \in reader.got[1] : t \in committed /\ Row[t].account \in reader.ids /\ InWindow(t, reader.window)
    /\ \A t \in InView : Outflow(t) => t \in reader.got[1]
    /\ \A t \in OfCategory : Outflow(t) /\ reader.cat # None => t \in reader.focus
CurrenciesRead ==
  Figures /\ Len(reader.got) >= 2 =>
    \A t \in InView : Row[t].amount < 0 => Row[t].currency \in reader.got[2]
LargestRead ==
  Figures /\ reader.kind = "chat with largest" /\ reader.todo = <<>> =>
    \A t \in OfCategory : Outflow(t) => Quotes(reader.got[Len(reader.got)], t)

\* What a chat has said about a row: its currency is left out, or it is in a sum, or quoted or smaller.
Said(t) ==
  \/ Row[t].currency \in reader.says.others
  \/ t \in reader.says.rows
  \/ reader.says.about = "largest" /\ \A u \in reader.says.rows : Larger(u, t)
SaysAll ==
  reader.kind \in Chats /\ reader.says # Silence =>
    \A t \in InView : Row[t].amount < 0 /\ (Row[t].currency # reader.currency \/ t \in OfCategory) => Said(t)

\* Every outflow of a trend was read or is in the window of a statement to come.
ToCome(t) == \E j \in DOMAIN reader.todo : reader.todo[j].op = "spend" /\ InWindow(t, reader.todo[j].w)
Counts(t) == \E i \in DOMAIN reader.got : t \in reader.got[i]
TrendsCovered == reader.kind = "trends" => \A t \in InView : Outflow(t) => Counts(t) \/ ToCome(t)

ReaderInv ==
  /\ ReaderTypeOK /\ PagesSoFar /\ Script
  /\ TotalRead /\ CurrenciesRead /\ LargestRead /\ SaysAll /\ TrendsCovered

\* The invariants say what the properties say.
LEMMA ReaderProperties ==
  ReaderInv => PagesComplete /\ TotalsAreListed /\ SpendingAccountedFor /\ TrendsHaveNoGap
<1> SUFFICES ASSUME ReaderInv
             PROVE  PagesComplete /\ TotalsAreListed /\ SpendingAccountedFor /\ TrendsHaveNoGap
  OBVIOUS
<1>1. PagesComplete
  BY DEF ReaderInv, PagesSoFar, PagesComplete, InOrder, OfCategory, Owed, ListedWindow
<1>2. TotalsAreListed
  BY DEF ReaderInv, PagesSoFar, TotalsAreListed, Owed
<1>3. ASSUME reader.kind \in {"summary", "dashboard"}, Len(reader.got) >= 2,
             NEW t \in Steady(reader.window, None), Row[t].amount < 0
      PROVE  t \in reader.got[1] \/ Row[t].currency \in reader.got[2] \ {reader.currency}
  <2>1. Figures /\ Len(reader.got) \in Nat /\ t \in InView
    BY <1>3, LenProperties DEF Figures, Totals, Chats, InView, ReaderInv, ReaderTypeOK
  <2>2. Row[t].currency \in reader.got[2]
    BY <1>3, <2>1 DEF ReaderInv, CurrenciesRead
  <2>3. Outflow(t) => t \in reader.got[1]
    BY <1>3, <2>1 DEF ReaderInv, TotalRead
  <2>4. QED
    BY <1>3, <2>2, <2>3 DEF Outflow
<1>4. SpendingAccountedFor
  BY <1>3 DEF ReaderInv, SaysAll, Said, InView, OfCategory, SpendingAccountedFor
<1>5. TrendsHaveNoGap
  <2> SUFFICES ASSUME reader.pc = "done", reader.kind = "trends", NEW t \in InView, Outflow(t)
               PROVE  Counts(t)
    BY DEF TrendsHaveNoGap, InView, Outflow, Counts
  <2>1. reader.todo = <<>>
    BY DEF ReaderInv, ReaderTypeOK
  <2>2. ~ToCome(t)
    BY <2>1 DEF ToCome
  <2>3. QED
    BY <2>2 DEF ReaderInv, TrendsCovered
<1>6. QED
  BY <1>1, <1>2, <1>4, <1>5

\* While the ledger changes, a request keeps still, and no row becomes one that was there all along.
LEMMA LedgerStep ==
  ASSUME LedgerTypeOK, ReaderTypeOK, NEW t \in Tx,
         Commit(t) \/ Enrich(t) \/ Handle(t) \/ \E c \in Category : Correct(t, c)
  PROVE  /\ UNCHANGED <<reader, before>> /\ committed \subseteq committed'
         /\ InView' \subseteq InView /\ OfCategory' \subseteq OfCategory
<1>1. UNCHANGED <<reader, before>> /\ committed \subseteq committed'
  BY DEF Commit, Enrich, Handle, Correct
<1>2. moved \subseteq moved' /\ \A u \in Tx \ moved' : category'[u] = category[u]
  <2>1. ASSUME Enrich(t) PROVE moved \subseteq moved' /\ \A u \in Tx \ moved' : category'[u] = category[u]
    <3>1. PICK c : /\ category' = [category EXCEPT ![t] = c]
                   /\ moved' = IF category[t] = c THEN moved ELSE moved \cup {t}
      BY <2>1 DEF Enrich
    <3>2. QED
      BY <3>1 DEF LedgerTypeOK
  <2>2. ASSUME NEW c \in Category, Correct(t, c)
        PROVE  moved \subseteq moved' /\ \A u \in Tx \ moved' : category'[u] = category[u]
    BY <2>2 DEF Correct, LedgerTypeOK
  <2>3. QED
    BY <2>1, <2>2 DEF Commit, Handle
<1>3. before \subseteq Tx
  BY DEF ReaderTypeOK, LedgerTypeOK
<1>4. InView' \subseteq InView
  BY <1>1 DEF InView, Steady
<1>5. OfCategory' \subseteq OfCategory
  BY <1>1, <1>2, <1>3 DEF OfCategory, Steady
<1>6. QED
  BY <1>1, <1>4, <1>5

\* A step that leaves the request alone and adds no row to those that were there keeps its invariant.
LEMMA LedgerKeepsReader ==
  ASSUME ReaderInv, UNCHANGED <<reader, before>>, committed \subseteq committed',
         InView' \subseteq InView, OfCategory' \subseteq OfCategory
  PROVE  ReaderInv'
<1>1. ReaderTypeOK'
  BY DEF ReaderInv, ReaderTypeOK
<1>2. PagesSoFar'
  <2>1. Owed' \subseteq Owed /\ \A t : Reached(t)' <=> Reached(t)
    BY DEF Owed, Reached
  <2>2. QED
    BY <2>1 DEF ReaderInv, PagesSoFar
<1>3. Script'
  BY DEF ReaderInv, Script, Figures, Statement
<1>4. TotalRead'
  BY DEF ReaderInv, TotalRead, Figures, Outflow
<1>5. CurrenciesRead'
  BY DEF ReaderInv, CurrenciesRead, Figures
<1>6. LargestRead'
  BY DEF ReaderInv, LargestRead, Figures, Outflow
<1>7. SaysAll'
  BY DEF ReaderInv, SaysAll, Said
<1>8. TrendsCovered'
  BY DEF ReaderInv, TrendsCovered, Outflow, Counts, ToCome
<1>9. QED
  BY <1>1, <1>2, <1>3, <1>4, <1>5, <1>6, <1>7, <1>8 DEF ReaderInv

\* The empty sequence, and the only ones of no length.
LEMMA Nothing ==
  /\ Len(<<>>) = 0 /\ DOMAIN <<>> = {} /\ \A S : <<>> \in Seq(S)
  /\ \A S : \A s \in Seq(S) : s # <<>> <=> Len(s) >= 1
<1>1. Len(<<>>) = 0 /\ \A S : <<>> \in Seq(S)
  BY EmptySeq
<1>2. DOMAIN <<>> = 1..Len(<<>>)
  BY <1>1, LenProperties
<1>3. ASSUME NEW S, NEW s \in Seq(S) PROVE s # <<>> <=> Len(s) >= 1
  <2>1. s # <<>> => Len(s) \in Nat \ {0}
    BY EmptySeq
  <2>2. QED
    BY <1>1, <2>1
<1>4. QED
  BY <1>1, <1>2, <1>3

\* A request begins with nothing read, listed or said.
LEMMA BegunReader ==
  ASSUME NEW kind, NEW period, NEW ids, NEW currency, NEW cat, NEW w, NEW todo,
         Begin(kind, period, ids, currency, cat, w, todo)
  PROVE  /\ DOMAIN reader' = Fields
         /\ reader'.pc = (IF todo = <<>> THEN "listing" ELSE "reading")
         /\ reader'.kind = kind /\ reader'.ids = ids /\ reader'.currency = currency /\ reader'.cat = cat
         /\ reader'.window = w /\ reader'.todo = todo /\ reader'.got = <<>> /\ reader'.focus = {}
         /\ reader'.items = <<>> /\ reader'.cursor = None /\ reader'.page = 0 /\ reader'.says = Silence
         /\ before' = committed /\ committed' = committed
  BY DEF Begin, Idle, Fields, ledgerVars

\* The statements that a request of a kind begins with.
Plan(kind, cat, w, todo) ==
  /\ todo \in Seq(ToSet(todo))
  /\ kind = "list" <=> todo = <<>>
  /\ kind = "dashboard" => cat = None
  /\ kind \in Totals =>
       Len(todo) >= 2 /\ todo[1] = [op |-> "spend", w |-> w] /\ todo[2] = [op |-> "currencies", w |-> w]
  /\ kind = "chat with largest" => todo[Len(todo)] = [op |-> "largest", w |-> w]
  /\ kind = "trends" =>
       \A t \in committed :
         InWindow(t, w) => \E j \in DOMAIN todo : todo[j].op = "spend" /\ InWindow(t, todo[j].w)

\* A request that begins with its plan of statements has read nothing and owes nothing yet.
LEMMA BeginKeeps ==
  ASSUME NEW kind, NEW period, NEW ids, NEW currency, NEW cat, NEW w, NEW todo,
         Begin(kind, period, ids, currency, cat, w, todo), Plan(kind, cat, w, todo)
  PROVE  ReaderInv'
<1>0. PICK e : e = <<>>
  OBVIOUS
<1>1. /\ DOMAIN reader' = Fields
      /\ reader'.pc = (IF todo = e THEN "listing" ELSE "reading")
      /\ reader'.kind = kind /\ reader'.cat = cat
      /\ reader'.window = w /\ reader'.todo = todo /\ reader'.got = e
      /\ reader'.items = e /\ reader'.cursor = None /\ reader'.page = 0 /\ reader'.says = Silence
      /\ before' = committed /\ committed' = committed
  BY <1>0, BegunReader
<1>2. Len(e) = 0 /\ e \in Seq(Tx) /\ e \in Seq(ToSet(e)) /\ DOMAIN e = {}
  BY <1>0, Nothing
<1>a. todo \in Seq(ToSet(todo)) /\ (kind = "list" <=> todo = e) /\ (kind = "dashboard" => cat = None)
  BY <1>0 DEF Plan
<1>b. kind \in Totals =>
        Len(todo) >= 2 /\ todo[1] = [op |-> "spend", w |-> w] /\ todo[2] = [op |-> "currencies", w |-> w]
  BY DEF Plan
<1>c. kind = "chat with largest" => todo[Len(todo)] = [op |-> "largest", w |-> w]
  BY DEF Plan
<1>3. ReaderTypeOK'
  <2>1. 0 \in Nat /\ None \in Tx \cup {None}
    OBVIOUS
  <2>2. QED
    BY <1>0, <1>1, <1>2, <1>a, <2>1 DEF ReaderTypeOK
<1>4. PagesSoFar'
  <2>1. InOrder(e) /\ ~(0 > 0)
    BY <1>2 DEF InOrder
  <2>2. QED
    BY <1>0, <1>1, <2>1 DEF PagesSoFar
<1>5. Script'
  <2>1. Len(todo) \in Nat
    BY <1>a, LenProperties
  <2>2. Len(reader'.got) = 0 /\ reader'.todo = todo /\ reader'.window = w /\ reader'.kind = kind
    BY <1>1, <1>2
  <2>3. CASE kind \in Totals
    <3>1. 0 + Len(todo) >= 2
      BY <1>b, <2>1, <2>3
    <3>2. Statement("spend")' = [op |-> "spend", w |-> w] /\ Statement("currencies")' = [op |-> "currencies", w |-> w]
          /\ Statement("largest")' = [op |-> "largest", w |-> w]
      BY <2>2 DEF Statement
    <3>3. QED
      BY <1>b, <1>c, <2>2, <2>3, <3>1, <3>2 DEF Script
  <2>4. CASE kind \notin Totals
    BY <2>2, <2>4 DEF Script, Figures
  <2>5. QED
    BY <2>3, <2>4
<1>6. TotalRead' /\ CurrenciesRead'
  BY <1>1, <1>2 DEF TotalRead, CurrenciesRead
<1>7. LargestRead'
  BY <1>0, <1>1 DEF LargestRead, Plan
<1>8. SaysAll'
  BY <1>1 DEF SaysAll
<1>9. TrendsCovered'
  BY <1>1 DEF TrendsCovered, InView, Steady, ToCome, InWindow, Plan
<1>10. QED
  BY <1>3, <1>4, <1>5, <1>6, <1>7, <1>8, <1>9 DEF ReaderInv

\* A request's statements are a sequence.
LEMMA StatementsAre ==
  ASSUME NEW S, NEW s \in Seq(S)
  PROVE  s \in Seq(ToSet(s))
<1>1. Len(s) \in Nat /\ DOMAIN s = 1..Len(s) /\ s \in [1..Len(s) -> S]
  BY LenProperties
<1>2. s \in [1..Len(s) -> ToSet(s)]
  BY <1>1 DEF ToSet
<1>3. QED
  BY <1>1, <1>2

\* The statements of a summary are such a plan.
LEMMA SummarizeKeeps ==
  ASSUME LedgerTypeOK, NEW kind \in {"summary", "dashboard"}, NEW period, NEW ids, NEW requested, NEW reference,
         Summarize(kind, period, ids, requested, reference)
  PROVE  ReaderInv'
<1> DEFINE w == period_bounds(period, reference)
           todo == << [op |-> "spend", w |-> w], [op |-> "currencies", w |-> w],
                      [op |-> "spend", w |-> previous_bounds(period, w.from)] >>
<1>1. Begin(kind, period, ids, resolve_currency(ids, requested), None, w, todo)
  BY DEF Summarize
<1> HIDE DEF w
<1>2. /\ Len(todo) = 3 /\ todo # <<>> /\ todo \in Seq({todo[1], todo[2], todo[3]})
      /\ todo[1] = [op |-> "spend", w |-> w] /\ todo[2] = [op |-> "currencies", w |-> w]
  OBVIOUS
<1>3. PICK cur, q : cur = resolve_currency(ids, requested) /\ q = todo
  OBVIOUS
<1>4. Begin(kind, period, ids, cur, None, w, q)
  BY <1>1, <1>3
<1>5. q \in Seq(ToSet(q))
  BY <1>2, <1>3, StatementsAre
<1>6. Plan(kind, None, w, q)
  <2> HIDE DEF todo
  <2>1. q # <<>> /\ Len(q) >= 2 /\ q[1] = [op |-> "spend", w |-> w] /\ q[2] = [op |-> "currencies", w |-> w]
    BY <1>2, <1>3
  <2>2. QED
    BY <1>5, <2>1 DEF Plan
<1>7. QED
  BY <1>4, <1>6, BeginKeeps

\* A list has no statements before its pages.
LEMMA ListTransactionsKeeps ==
  ASSUME LedgerTypeOK, NEW a, NEW cat, ListTransactions(a, cat)
  PROVE  ReaderInv'
<1>1. PICK ids, w : Begin("list", None, ids, None, cat, w, <<>>)
  BY DEF ListTransactions
<1>2. PICK e : e = <<>>
  OBVIOUS
<1>3. e \in Seq(ToSet(e)) /\ Begin("list", None, ids, None, cat, w, e)
  BY <1>1, <1>2, Nothing
<1>4. "list" \notin Totals
  BY DEF Totals, Chats
<1>5. Plan("list", cat, w, e)
  BY <1>2, <1>3, <1>4 DEF Plan
<1>6. QED
  BY <1>3, <1>5, BeginKeeps

\* The statements of a chat are a plan whether or not it asks for a category or the largest rows.
LEMMA RetrieveKeeps ==
  ASSUME LedgerTypeOK, NEW mention, NEW followUp, NEW heard, NEW m, NEW requested, NEW cat,
         NEW wantsLargest \in BOOLEAN,
         Retrieve(mention, followUp, heard, m, requested, cat, wantsLargest)
  PROVE  ReaderInv'
<1> DEFINE kind == IF wantsLargest THEN "chat with largest" ELSE "chat"
<1>1. PICK w, ids, cur, prior :
        Begin(kind, None, ids, cur, cat, w,
              << [op |-> "spend", w |-> w], [op |-> "currencies", w |-> w] >>
              \o (IF cat # None THEN << [op |-> "spend", w |-> prior] >> ELSE <<>>)
              \o (IF wantsLargest THEN << [op |-> "largest", w |-> w] >> ELSE <<>>))
  BY DEF Retrieve
<1> DEFINE head == << [op |-> "spend", w |-> w], [op |-> "currencies", w |-> w] >>
           middle == IF cat # None THEN << [op |-> "spend", w |-> prior] >> ELSE <<>>
           end == IF wantsLargest THEN << [op |-> "largest", w |-> w] >> ELSE <<>>
           S == [op : {"spend", "currencies", "largest"}, w : {w, prior}]
           q == (head \o middle) \o end
<1>2. head \in Seq(S) /\ Len(head) = 2
  OBVIOUS
<1>3. middle \in Seq(S) /\ Len(middle) \in Nat
  <2>1. << [op |-> "spend", w |-> prior] >> \in Seq(S) /\ <<>> \in Seq(S)
    BY Nothing
  <2>2. middle \in Seq(S)
    BY <2>1
  <2>3. QED
    BY <2>2, LenProperties
<1>4. /\ end \in Seq(S) /\ Len(end) \in Nat
      /\ wantsLargest => Len(end) = 1 /\ end[1] = [op |-> "largest", w |-> w]
  <2>1. << [op |-> "largest", w |-> w] >> \in Seq(S) /\ <<>> \in Seq(S)
    BY Nothing
  <2>2. end \in Seq(S)
    BY <2>1
  <2>3. QED
    BY <2>2, LenProperties
<1>5. head[1] = [op |-> "spend", w |-> w] /\ head[2] = [op |-> "currencies", w |-> w]
  OBVIOUS
<1>6. Begin(kind, None, ids, cur, cat, w, q)
  BY <1>1
<1> HIDE DEF head, middle, end, S
<1>7. /\ head \o middle \in Seq(S) /\ Len(head \o middle) = 2 + Len(middle)
      /\ (head \o middle)[1] = head[1] /\ (head \o middle)[2] = head[2]
  <2>1. /\ head \o middle \in Seq(S) /\ Len(head \o middle) = Len(head) + Len(middle)
        /\ \A i \in 1..(Len(head) + Len(middle)) :
             (head \o middle)[i] = IF i <= Len(head) THEN head[i] ELSE middle[i - Len(head)]
    BY <1>2, <1>3, ConcatProperties
  <2>2. 1 \in 1..(Len(head) + Len(middle)) /\ 2 \in 1..(Len(head) + Len(middle))
    BY <1>2, <1>3
  <2>3. QED
    BY <1>2, <2>1, <2>2
<1> DEFINE front == head \o middle
<1> HIDE DEF front
<1>8. /\ q \in Seq(S) /\ Len(q) = 2 + Len(middle) + Len(end)
      /\ q[1] = head[1] /\ q[2] = head[2]
      /\ wantsLargest => q[Len(q)] = end[1]
  <2>1. /\ front \in Seq(S) /\ Len(front) = 2 + Len(middle) /\ front[1] = head[1] /\ front[2] = head[2]
        /\ q = front \o end
    BY <1>7 DEF front
  <2>2. /\ front \o end \in Seq(S) /\ Len(front \o end) = Len(front) + Len(end)
        /\ \A i \in 1..(Len(front) + Len(end)) :
             (front \o end)[i] = IF i <= Len(front) THEN front[i] ELSE end[i - Len(front)]
    <3>1. front \in Seq(S) /\ end \in Seq(S)
      BY <1>4, <2>1
    <3>2. QED
      BY <3>1, ConcatProperties
  <2> HIDE DEF q
  <2>3. /\ 1 \in 1..(Len(front) + Len(end)) /\ 2 \in 1..(Len(front) + Len(end))
        /\ 1 <= Len(front) /\ 2 <= Len(front)
    BY <1>3, <1>4, <2>1, <2>2
  <2>4. ASSUME wantsLargest PROVE q[Len(q)] = end[1]
    <3>1. Len(q) = Len(front) + 1 /\ Len(front) = 2 + Len(middle) /\ Len(end) = 1 /\ Len(middle) \in Nat
      BY <1>3, <1>4, <2>1, <2>2, <2>4
    <3>a. Len(q) \in 1..(Len(front) + Len(end)) /\ ~(Len(q) <= Len(front)) /\ Len(q) - Len(front) = 1
      BY <3>1
    <3>2. QED
      BY <2>1, <2>2, <3>a
  <2>5. QED
    BY <2>1, <2>2, <2>3, <2>4
<1> HIDE DEF q
<1>9. q \in Seq(ToSet(q)) /\ Len(q) >= 2 /\ q # <<>>
  <2>1. Len(q) >= 2
    BY <1>3, <1>4, <1>8
  <2>2. QED
    BY <1>8, <2>1, StatementsAre
<1>10. Plan(kind, cat, w, q)
  BY <1>4, <1>5, <1>8, <1>9 DEF Plan
<1>11. QED
  BY <1>6, <1>10, BeginKeeps

\* A step of a request: the ledger and the history stand still.
LEMMA SameRows ==
  ASSUME UNCHANGED <<now, ledgerVars, before, moved>>,
         reader'.ids = reader.ids, reader'.window = reader.window, reader'.cat = reader.cat
  PROVE  InView' = InView /\ OfCategory' = OfCategory
  BY DEF ledgerVars, InView, OfCategory, Steady

\* Nothing is claimed of no request.
LEMMA FinishKeeps ==
  ASSUME Finish
  PROVE  ReaderInv'
<1>1. reader' = Idle /\ before' = {}
  BY DEF Finish
<1>2. PICK e : e = <<>>
  OBVIOUS
<1>3. Len(e) = 0 /\ e \in Seq(Tx) /\ e \in Seq(ToSet(e)) /\ DOMAIN e = {}
  BY <1>2, Nothing
<1>4. /\ DOMAIN reader' = Fields /\ reader'.pc = "idle" /\ reader'.kind = None /\ reader'.cat = None
      /\ reader'.todo = e /\ reader'.got = e /\ reader'.items = e /\ reader'.cursor = None /\ reader'.page = 0
  BY <1>1, <1>2 DEF Idle, Fields
<1>5. None \notin Totals \cup Chats \cup {"list", "trends"}
  BY NoneAssumption DEF Totals, Chats
<1>6. ReaderTypeOK'
  <2>1. 0 \in Nat /\ None \in Tx \cup {None}
    OBVIOUS
  <2>2. QED
    BY <1>1, <1>2, <1>3, <1>4, <1>5, <2>1 DEF ReaderTypeOK
<1>7. PagesSoFar'
  <2>1. InOrder(e) /\ ~(0 > 0)
    BY <1>3 DEF InOrder
  <2>2. QED
    BY <1>2, <1>4, <2>1 DEF PagesSoFar
<1>8. Script' /\ TotalRead' /\ CurrenciesRead' /\ LargestRead' /\ SaysAll' /\ TrendsCovered'
  BY <1>4, <1>5 DEF Script, TotalRead, CurrenciesRead, LargestRead, SaysAll, TrendsCovered, Figures
<1>9. QED
  BY <1>6, <1>7, <1>8 DEF ReaderInv

\* Without its summary the dashboard lists a window of its own.
LEMMA SummaryFailsKeeps ==
  ASSUME ReaderInv, SummaryFails
  PROVE  ReaderInv'
<1>2. PICK e : e = <<>>
  OBVIOUS
<1>3. Len(e) = 0 /\ e \in Seq(ToSet(e))
  BY <1>2, Nothing
<1>4. DOMAIN reader = Fields /\ reader.pc = "reading"
  BY DEF ReaderInv, ReaderTypeOK, SummaryFails
<1>5. PICK w : reader' = [reader EXCEPT !.pc = "listing", !.kind = "list", !.todo = e, !.got = e, !.window = w]
  BY <1>2 DEF SummaryFails
<1>6. /\ DOMAIN reader' = Fields /\ reader'.pc = "listing" /\ reader'.kind = "list"
      /\ reader'.todo = e /\ reader'.got = e /\ reader'.items = reader.items
      /\ reader'.cursor = reader.cursor /\ reader'.page = reader.page
  BY <1>4, <1>5 DEF Fields
<1>7. UNCHANGED <<before, committed>>
  BY DEF SummaryFails, ledgerVars
<1>8. ReaderTypeOK'
  BY <1>2, <1>3, <1>6, <1>7 DEF ReaderInv, ReaderTypeOK
<1>9. PagesSoFar'
  <2>1. ~(reader.page > 0)
    BY <1>4 DEF ReaderInv, PagesSoFar
  <2>2. QED
    BY <1>6, <2>1 DEF ReaderInv, PagesSoFar
<1>10. Script' /\ TotalRead' /\ CurrenciesRead' /\ LargestRead' /\ SaysAll' /\ TrendsCovered'
  BY <1>6 DEF Script, TotalRead, CurrenciesRead, LargestRead, SaysAll, TrendsCovered, Figures, Totals, Chats
<1>11. QED
  BY <1>8, <1>9, <1>10 DEF ReaderInv

\* One more page: the rows after the cursor follow those listed before.
LEMMA PageKeeps ==
  ASSUME LedgerTypeOK, ReaderInv, Page
  PROVE  ReaderInv'
<1> DEFINE S == PageRows(reader.ids, reader.window, reader.cat, reader.cursor)
           result == list_page(reader.ids, reader.window, reader.cat, reader.cursor)
           last == result.next = None \/ reader.page + 1 = MaxPages
<1>1. /\ reader.pc = "listing"
      /\ reader' = [reader EXCEPT !.items = @ \o result.items, !.cursor = result.next, !.page = @ + 1,
                                  !.pc = IF last THEN "done" ELSE "listing"]
      /\ UNCHANGED <<now, ledgerVars, before, moved>>
  BY DEF Page, ListedWindow
<1>2. /\ result.items \in Seq(S) /\ S \in SUBSET Tx /\ InOrder(result.items)
      /\ result.next \in Tx \cup {None}
      /\ result.next # None => result.items # <<>> /\ result.next = result.items[Len(result.items)]
      /\ \A t \in S : result.next = None \/ ~Newest(result.next, t) => t \in ToSet(result.items)
  <2>1. PICK ids, w, cat, cursor : ids = reader.ids /\ w = reader.window /\ cat = reader.cat /\ cursor = reader.cursor
    OBVIOUS
  <2>2. LET T == PageRows(ids, w, cat, cursor)
            r == list_page(ids, w, cat, cursor)
        IN  /\ r.items \in Seq(T) /\ T \in SUBSET Tx /\ InOrder(r.items)
            /\ r.next \in Tx \cup {None}
            /\ r.next # None => r.items # <<>> /\ r.next = r.items[Len(r.items)]
            /\ \A t \in T : r.next = None \/ ~Newest(r.next, t) => t \in ToSet(r.items)
    BY PageOfRows
  <2>3. QED
    BY <2>1, <2>2
<1> HIDE DEF result, S
<1>3. PICK new, next : new = result.items /\ next = result.next
  OBVIOUS
<1>4. /\ DOMAIN reader' = Fields
      /\ reader'.items = reader.items \o new /\ reader'.cursor = next /\ reader'.page = reader.page + 1
      /\ reader'.pc = (IF next = None \/ reader.page + 1 = MaxPages THEN "done" ELSE "listing")
      /\ reader'.kind = reader.kind /\ reader'.ids = reader.ids /\ reader'.currency = reader.currency
      /\ reader'.cat = reader.cat /\ reader'.window = reader.window /\ reader'.todo = reader.todo
      /\ reader'.got = reader.got /\ reader'.focus = reader.focus /\ reader'.says = reader.says
  BY <1>1, <1>3 DEF ReaderInv, ReaderTypeOK, Fields
<1>5. InView' = InView /\ OfCategory' = OfCategory /\ UNCHANGED <<before, committed>>
  BY <1>1, <1>4, SameRows DEF ledgerVars
<1>6. reader.kind \in {"list", "dashboard"} /\ reader.page \in Nat /\ reader.items \in Seq(Tx) /\ reader.todo = <<>>
  BY <1>1 DEF ReaderInv, ReaderTypeOK
<1>7. new \in Seq(Tx) /\ new \in Seq(S)
  BY <1>2, <1>3, SeqMonotonic
<1>8. /\ reader'.items \in Seq(Tx) /\ Len(reader'.items) = Len(reader.items) + Len(new)
      /\ \A i \in 1..(Len(reader.items) + Len(new)) :
           reader'.items[i] = IF i <= Len(reader.items) THEN reader.items[i] ELSE new[i - Len(reader.items)]
  BY <1>4, <1>6, <1>7, ConcatProperties
<1>9. /\ Len(reader.items) \in Nat /\ Len(new) \in Nat /\ DOMAIN reader.items = 1..Len(reader.items)
      /\ DOMAIN new = 1..Len(new) /\ DOMAIN reader'.items = 1..(Len(reader.items) + Len(new))
  BY <1>6, <1>7, <1>8, LenProperties
<1>10. ReaderTypeOK'
  <2>1. reader.page + 1 \in Nat /\ next \in Tx \cup {None}
    BY <1>2, <1>3, <1>6
  <2>2. reader'.items \in Seq(Tx) /\ reader'.pc # "reading" /\ reader'.pc # "answering"
    BY <1>4, <1>8
  <2>3. reader'.pc \in {"listing", "done"}
    BY <1>4
  <2>4. QED
    BY <1>4, <1>5, <1>6, <2>1, <2>2, <2>3 DEF ReaderInv, ReaderTypeOK
<1>11. ASSUME NEW i \in 1..Len(reader.items), NEW j \in 1..Len(new)
       PROVE  Newest(reader.items[i], new[j])
  <2>1. reader.page > 0
    <3>1. reader.items # <<>>
      BY <1>6, <1>9, Nothing
    <3>2. QED
      BY <1>6, <3>1 DEF ReaderInv, PagesSoFar
  <2>2. reader.cursor # None /\ reader.cursor = reader.items[Len(reader.items)]
    BY <1>1, <2>1 DEF ReaderInv, PagesSoFar
  <2>3. new[j] \in S
    BY <1>7, ElementOfSeq
  <2>4. Newest(reader.cursor, new[j])
    BY <2>2, <2>3 DEF S, PageRows, AfterCursor
  <2>5. Len(reader.items) \in 1..Len(reader.items) /\ (i = Len(reader.items) \/ i < Len(reader.items))
    BY <1>9
  <2>6. CASE i = Len(reader.items)
    BY <2>2, <2>4, <2>6
  <2>7. CASE i < Len(reader.items)
    <3>1. Newest(reader.items[i], reader.items[Len(reader.items)])
      BY <1>9, <2>5, <2>7 DEF ReaderInv, PagesSoFar, InOrder
    <3>2. PICK a, b, c : a = reader.items[i] /\ b = reader.cursor /\ c = new[j]
      OBVIOUS
    <3>3. a \in Tx /\ b \in Tx /\ c \in Tx
      BY <1>2, <1>6, <1>7, <2>2, <2>3, <2>5, <3>2, ElementOfSeq
    <3>4. Newest(a, b) /\ Newest(b, c)
      BY <2>2, <2>4, <3>1, <3>2
    <3>5. /\ Row[a].at \in Nat /\ Row[b].at \in Nat /\ Row[c].at \in Nat
          /\ a \in Nat /\ b \in Nat /\ c \in Nat
      BY <3>3, RowAssumption, ReportsAssumption
    <3>6. Newest(a, c)
      BY <3>4, <3>5 DEF Newest
    <3>7. QED
      BY <3>2, <3>6
  <2>8. QED
    BY <2>5, <2>6, <2>7
<1>12. InOrder(reader'.items)
  <2> SUFFICES ASSUME NEW i \in 1..(Len(reader.items) + Len(new)), NEW j \in 1..(Len(reader.items) + Len(new)), i < j
               PROVE  Newest(reader'.items[i], reader'.items[j])
    BY <1>9 DEF InOrder
  <2>1. CASE j <= Len(reader.items)
    <3>1. i \in 1..Len(reader.items) /\ j \in 1..Len(reader.items) /\ i <= Len(reader.items)
      BY <1>9, <2>1
    <3>2. QED
      BY <1>8, <1>9, <2>1, <3>1 DEF ReaderInv, PagesSoFar, InOrder
  <2>2. CASE i <= Len(reader.items) /\ ~(j <= Len(reader.items))
    <3>1. i \in 1..Len(reader.items) /\ j - Len(reader.items) \in 1..Len(new)
      BY <1>9, <2>2
    <3>2. QED
      BY <1>8, <1>11, <2>2, <3>1
  <2>3. CASE ~(i <= Len(reader.items))
    <3>1. /\ i - Len(reader.items) \in 1..Len(new) /\ j - Len(reader.items) \in 1..Len(new)
          /\ i - Len(reader.items) < j - Len(reader.items) /\ ~(j <= Len(reader.items))
      BY <1>9, <2>3
    <3>2. Newest(new[i - Len(reader.items)], new[j - Len(reader.items)])
      BY <1>2, <1>3, <1>9, <3>1 DEF InOrder
    <3>3. QED
      BY <1>8, <2>3, <3>1, <3>2
  <2>4. QED
    BY <2>1, <2>2, <2>3
<1>13. ToSet(reader.items) \subseteq ToSet(reader'.items) /\ ToSet(new) \subseteq ToSet(reader'.items)
  <2>1. ASSUME NEW i \in 1..Len(reader.items) PROVE reader.items[i] \in ToSet(reader'.items)
    <3>1. i \in 1..(Len(reader.items) + Len(new)) /\ i <= Len(reader.items)
      BY <1>9
    <3>2. QED
      BY <1>8, <1>9, <3>1 DEF ToSet
  <2>2. ASSUME NEW i \in 1..Len(new) PROVE new[i] \in ToSet(reader'.items)
    <3> DEFINE k == i + Len(reader.items)
    <3>1. k \in 1..(Len(reader.items) + Len(new)) /\ ~(k <= Len(reader.items)) /\ k - Len(reader.items) = i
      BY <1>9
    <3> HIDE DEF k
    <3>2. QED
      BY <1>8, <1>9, <3>1 DEF ToSet
  <2>3. QED
    BY <1>9, <2>1, <2>2 DEF ToSet
<1>14. ASSUME NEW t \in Owed, next = None \/ ~Newest(next, t)
       PROVE  t \in ToSet(reader'.items)
  <2>1. CASE reader.page > 0 /\ Reached(t)
    BY <1>13, <2>1 DEF ReaderInv, PagesSoFar
  <2>2. CASE ~(reader.page > 0 /\ Reached(t))
    <3>1. AfterCursor(t, reader.cursor)
      BY <1>6, <2>2 DEF ReaderInv, PagesSoFar, AfterCursor, Reached
    <3>2. t \in Selected(reader.ids, reader.window, reader.cat)
      <4>1. CASE t \in OfCategory
        BY <4>1 DEF OfCategory, Steady, Selected, InWindow, ReaderInv, ReaderTypeOK
      <4>2. CASE reader.kind = "dashboard" /\ t \in reader.got[1]
        <5>1. Figures /\ reader.cat = None
          BY <4>2 DEF Figures, Totals, Chats, ReaderInv, ReaderTypeOK
        <5>2. Len(reader.got) >= 1
          <6>1. Len(reader.got) + Len(reader.todo) >= 2 /\ Len(reader.todo) = 0 /\ Len(reader.got) \in Nat
            BY <1>6, <5>1, Nothing, LenProperties DEF ReaderInv, Script, ReaderTypeOK
          <6>2. QED
            BY <6>1
        <5>3. t \in committed /\ Row[t].account \in reader.ids /\ InWindow(t, reader.window)
          BY <4>2, <5>1, <5>2 DEF ReaderInv, TotalRead
        <5>4. QED
          BY <5>1, <5>3 DEF Selected
      <4>3. QED
        BY <4>1, <4>2 DEF Owed
    <3>3. t \in S
      BY <3>1, <3>2 DEF S, PageRows
    <3>4. QED
      BY <1>2, <1>3, <1>13, <1>14, <3>3
  <2>3. QED
    BY <2>1, <2>2
<1>15. PagesSoFar'
  <2>1. Owed' = Owed
    BY <1>4, <1>5 DEF Owed
  <2>2. reader.page + 1 # 0 /\ reader.page + 1 > 0
    BY <1>6
  <2>3. \A t : Reached(t)' <=> next = None \/ ~Newest(next, t)
    BY <1>4 DEF Reached
  <2>4. next # None => reader'.items # <<>> /\ next = reader'.items[Len(reader'.items)]
    <3> SUFFICES ASSUME next # None
                 PROVE  reader'.items # <<>> /\ next = reader'.items[Len(reader'.items)]
      OBVIOUS
    <3>1. new # <<>> /\ next = new[Len(new)]
      BY <1>2, <1>3
    <3>2. Len(new) >= 1
      BY <1>7, <3>1, Nothing
    <3>3. /\ Len(reader'.items) \in 1..(Len(reader.items) + Len(new)) /\ ~(Len(reader'.items) <= Len(reader.items))
          /\ Len(reader'.items) - Len(reader.items) = Len(new) /\ Len(reader'.items) >= 1
      BY <1>8, <1>9, <3>2
    <3>4. reader'.items[Len(reader'.items)] = new[Len(new)]
      BY <1>8, <3>3
    <3>5. reader'.items # <<>>
      BY <1>8, <3>3, Nothing
    <3>6. QED
      BY <3>1, <3>4, <3>5
  <2>5. \A t \in Owed' : Reached(t)' => t \in ToSet(reader'.items)
    BY <1>14, <2>1, <2>3
  <2>6. QED
    BY <1>4, <1>12, <2>2, <2>4, <2>5 DEF PagesSoFar
<1>16. Figures' => Figures
  BY <1>1, <1>4 DEF Figures
<1>17. Script'
  BY <1>4, <1>16 DEF ReaderInv, Script, Statement
<1>18. TotalRead' /\ CurrenciesRead'
  BY <1>4, <1>5, <1>16 DEF ReaderInv, TotalRead, CurrenciesRead, Outflow
<1>19. LargestRead' /\ SaysAll' /\ TrendsCovered'
  BY <1>4, <1>6 DEF LargestRead, SaysAll, TrendsCovered, Chats
<1>20. QED
  BY <1>10, <1>15, <1>17, <1>18, <1>19 DEF ReaderInv

\* A statement has run: its result is added, and the ones that follow it are left.
LEMMA QueryReader ==
  ASSUME ReaderTypeOK, Query
  PROVE  /\ UNCHANGED <<now, ledgerVars, before, moved>>
         /\ DOMAIN reader' = Fields
         /\ reader'.got = Append(reader.got, Answer(reader.todo[1])) /\ reader'.todo = Tail(reader.todo)
         /\ reader'.focus = IF reader.got = <<>> THEN {t \in Answer(reader.todo[1]) : category[t] = reader.cat}
                            ELSE reader.focus
         /\ reader'.pc = IF Len(reader.todo) > 1 THEN "reading" ELSE AfterReading
         /\ reader'.kind = reader.kind /\ reader'.ids = reader.ids /\ reader'.currency = reader.currency
         /\ reader'.cat = reader.cat /\ reader'.window = reader.window /\ reader'.says = reader.says
         /\ reader'.items = reader.items /\ reader'.cursor = reader.cursor /\ reader'.page = reader.page
<1>1. /\ reader' = [reader EXCEPT
           !.got = Append(@, Answer(Head(reader.todo))),
           !.focus = IF reader.got = <<>> THEN {t \in Answer(Head(reader.todo)) : category[t] = reader.cat} ELSE @,
           !.todo = Tail(@),
           !.pc = IF Len(reader.todo) > 1 THEN "reading" ELSE AfterReading]
      /\ UNCHANGED <<now, ledgerVars, before, moved>>
  BY DEF Query
<1>2. Head(reader.todo) = reader.todo[1]
  BY DEF ReaderTypeOK, Query
<1>3. PICK a, p : a = Answer(Head(reader.todo)) /\ p = (IF Len(reader.todo) > 1 THEN "reading" ELSE AfterReading)
  OBVIOUS
<1>4. reader' = [reader EXCEPT
        !.got = Append(@, a),
        !.focus = IF reader.got = <<>> THEN {t \in a : category[t] = reader.cat} ELSE @,
        !.todo = Tail(@), !.pc = p]
  BY <1>1, <1>3
<1>5. /\ DOMAIN reader' = Fields
      /\ reader'.got = Append(reader.got, a) /\ reader'.todo = Tail(reader.todo)
      /\ reader'.focus = (IF reader.got = <<>> THEN {t \in a : category[t] = reader.cat} ELSE reader.focus)
      /\ reader'.pc = p
      /\ reader'.kind = reader.kind /\ reader'.ids = reader.ids /\ reader'.currency = reader.currency
      /\ reader'.cat = reader.cat /\ reader'.window = reader.window /\ reader'.says = reader.says
      /\ reader'.items = reader.items /\ reader'.cursor = reader.cursor /\ reader'.page = reader.page
  BY <1>4 DEF ReaderTypeOK, Fields
<1>6. QED
  BY <1>1, <1>2, <1>3, <1>5

\* What running a statement does to the results and to the statements to come.
LEMMA QuerySequences ==
  ASSUME ReaderTypeOK, Query
  PROVE  LET n == Len(reader.got)
             m == Len(reader.todo)
             a == Answer(reader.todo[1])
         IN  /\ n \in Nat /\ m \in Nat /\ m >= 1 /\ DOMAIN reader.got = 1..n /\ DOMAIN reader.todo = 1..m
             /\ reader'.got \in Seq(ToSet(reader'.got)) /\ DOMAIN reader'.got = 1..(n + 1)
             /\ Len(reader'.got) = n + 1 /\ reader'.got[n + 1] = a
             /\ \A i \in 1..n : reader'.got[i] = reader.got[i]
             /\ reader'.todo \in Seq(ToSet(reader'.todo)) /\ DOMAIN reader'.todo = 1..(m - 1)
             /\ Len(reader'.todo) = m - 1
             /\ \A i \in 1..(m - 1) : reader'.todo[i] = reader.todo[i + 1]
<1> DEFINE n == Len(reader.got)
           m == Len(reader.todo)
<1>1. PICK a, S : a = Answer(reader.todo[1]) /\ S = ToSet(reader.got) \cup {a}
  OBVIOUS
<1>2. reader'.got = Append(reader.got, a) /\ reader'.todo = Tail(reader.todo)
  BY <1>1, QueryReader
<1>3. reader.todo \in Seq(ToSet(reader.todo)) /\ reader.todo # <<>> /\ reader.got \in Seq(S) /\ a \in S
  BY <1>1, SeqMonotonic DEF ReaderTypeOK, Query
<1>4. n \in Nat /\ m \in Nat /\ m >= 1 /\ DOMAIN reader.got = 1..n /\ DOMAIN reader.todo = 1..m
  BY <1>3, LenProperties, Nothing
<1>5. /\ reader'.got \in Seq(S) /\ Len(reader'.got) = n + 1
      /\ \A i \in 1..n : reader'.got[i] = reader.got[i]
      /\ reader'.got[n + 1] = a
  BY <1>2, <1>3, AppendProperties
<1>6. /\ reader'.todo \in Seq(ToSet(reader.todo)) /\ Len(reader'.todo) = m - 1
      /\ \A i \in 1..(m - 1) : reader'.todo[i] = reader.todo[i + 1]
  <2>1. PICK s, T : s = reader.todo /\ T = ToSet(reader.todo)
    OBVIOUS
  <2>2. s \in Seq(T) /\ s # <<>>
    BY <1>3, <2>1
  <2>3. /\ Tail(s) \in Seq(T) /\ Len(Tail(s)) = Len(s) - 1
        /\ \A i \in 1..Len(Tail(s)) : Tail(s)[i] = s[i + 1]
    BY <2>2, HeadTailProperties
  <2>4. QED
    BY <1>2, <2>1, <2>3
<1>7. reader'.got \in Seq(ToSet(reader'.got)) /\ reader'.todo \in Seq(ToSet(reader'.todo))
  BY <1>5, <1>6, StatementsAre
<1>8. DOMAIN reader'.got = 1..(n + 1) /\ DOMAIN reader'.todo = 1..(m - 1)
  BY <1>5, <1>6, <1>7, LenProperties
<1>9. QED
  BY <1>1, <1>4, <1>5, <1>6, <1>7, <1>8

\* The rows of a total, and of the currencies, that were there all along.
LEMMA SteadyIsRead ==
  ASSUME ReaderTypeOK, NEW t, Row[t].amount < 0
  PROVE  /\ \A w : t \in before /\ Row[t].account \in reader.ids /\ InWindow(t, w) =>
                     t \in Outflows(reader.ids, w, None)
         /\ t \in InView => t \in before /\ Row[t].account \in reader.ids /\ InWindow(t, reader.window)
         /\ t \in OfCategory => t \in InView /\ t \in Outflows(reader.ids, reader.window, reader.cat)
         /\ t \in OfCategory /\ reader.cat # None => category[t] = reader.cat
<1>1. before \subseteq committed
  BY DEF ReaderTypeOK
<1>2. \A w : t \in before /\ Row[t].account \in reader.ids /\ InWindow(t, w) => t \in Outflows(reader.ids, w, None)
  BY <1>1 DEF Outflows, Selected
<1>3. t \in InView => t \in before /\ Row[t].account \in reader.ids /\ InWindow(t, reader.window)
  BY DEF InView, Steady, InWindow
<1>4. t \in OfCategory => t \in InView /\ t \in Outflows(reader.ids, reader.window, reader.cat)
  BY <1>1 DEF OfCategory, InView, Steady, InWindow, Outflows, Selected
<1>5. t \in OfCategory /\ reader.cat # None => category[t] = reader.cat
  BY DEF OfCategory, Steady
<1>6. QED
  BY <1>2, <1>3, <1>4, <1>5

\* The result of a statement of each kind.
LEMMA AnswerIs ==
  ASSUME NEW q
  PROVE  /\ q.op = "spend" => Answer(q) = spend_by_category(reader.ids, q.w, reader.currency)
         /\ q.op = "currencies" => Answer(q) = spend_currencies(reader.ids, q.w)
         /\ q.op = "largest" => Answer(q) = largest_outflows(reader.ids, q.w, reader.currency, reader.cat)
<1>1. CASE q.op = "spend"
  BY <1>1 DEF Answer
<1>2. CASE q.op = "currencies"
  BY <1>2 DEF Answer
<1>3. CASE q.op = "largest"
  BY <1>3 DEF Answer
<1>4. QED
  BY <1>1, <1>2, <1>3

\* A statement makes true what the script says it reads.
LEMMA QueryKeeps ==
  ASSUME LedgerTypeOK, ReaderInv, Query
  PROVE  ReaderInv'
<1> DEFINE n == Len(reader.got)
           m == Len(reader.todo)
<1>0. ReaderTypeOK /\ reader.pc = "reading" /\ ~(reader.page > 0)
  BY DEF ReaderInv, Query, PagesSoFar
<1>1. PICK a : a = Answer(reader.todo[1])
  OBVIOUS
<1>2. /\ UNCHANGED <<now, ledgerVars, before, moved>>
      /\ DOMAIN reader' = Fields
      /\ reader'.focus = (IF reader.got = <<>> THEN {t \in a : category[t] = reader.cat} ELSE reader.focus)
      /\ reader'.pc = (IF m > 1 THEN "reading" ELSE AfterReading)
      /\ reader'.kind = reader.kind /\ reader'.ids = reader.ids /\ reader'.currency = reader.currency
      /\ reader'.cat = reader.cat /\ reader'.window = reader.window /\ reader'.says = reader.says
      /\ reader'.items = reader.items /\ reader'.cursor = reader.cursor /\ reader'.page = reader.page
  BY <1>0, <1>1, QueryReader
<1>3. n \in Nat /\ m \in Nat /\ m >= 1 /\ DOMAIN reader.got = 1..n /\ DOMAIN reader.todo = 1..m
  BY <1>0, QuerySequences
<1>d. n \in Nat /\ m \in Nat /\ m >= 1
  BY <1>3
<1>4. /\ reader'.got \in Seq(ToSet(reader'.got)) /\ DOMAIN reader'.got = 1..(n + 1)
      /\ Len(reader'.got) = n + 1 /\ reader'.got[n + 1] = a
      /\ \A i \in 1..n : reader'.got[i] = reader.got[i]
  BY <1>0, <1>1, QuerySequences
<1>5. /\ reader'.todo \in Seq(ToSet(reader'.todo)) /\ DOMAIN reader'.todo = 1..(m - 1)
      /\ Len(reader'.todo) = m - 1
      /\ \A i \in 1..(m - 1) : reader'.todo[i] = reader.todo[i + 1]
  BY <1>0, QuerySequences
<1>6. InView' = InView /\ OfCategory' = OfCategory /\ \A t : Outflow(t)' <=> Outflow(t)
  BY <1>2, SameRows DEF Outflow
<1>7. reader.got = <<>> <=> n = 0
  BY <1>0, <1>3, Nothing DEF ReaderTypeOK
<1>8. reader'.todo # <<>> <=> m > 1
  BY <1>3, <1>5, Nothing
<1>9. Figures' => Figures
  BY <1>0, <1>2 DEF Figures
<1> HIDE DEF n, m
<1>e. /\ ~(m > 1) => m = 1
      /\ m > 1 => m - 1 \in 1..(m - 1) /\ (m - 1) + 1 = m
  BY <1>d
<1>10. ReaderTypeOK'
  <2>1. AfterReading # "reading" /\ (AfterReading = "answering" => reader.kind \in Chats)
        /\ (AfterReading = "listing" => reader.kind = "dashboard")
    BY DEF AfterReading
  <2>2. reader.kind # "list"
    BY <1>0 DEF ReaderTypeOK
  <2>3. UNCHANGED <<before, committed>>
    BY <1>2 DEF ledgerVars
  <2>4. reader'.pc = "reading" <=> reader'.todo # <<>>
    BY <1>2, <1>8, <2>1
  <2>5. QED
    BY <1>0, <1>2, <1>4, <1>5, <2>1, <2>2, <2>3, <2>4 DEF ReaderTypeOK
<1>11. PagesSoFar'
  <2>1. reader'.pc = "done" => reader.kind \notin {"list", "dashboard"}
    BY <1>0, <1>2 DEF ReaderTypeOK, AfterReading
  <2>2. reader.page = 0
    BY <1>0 DEF ReaderTypeOK
  <2>3. QED
    BY <1>0, <1>2, <2>1, <2>2 DEF ReaderInv, PagesSoFar
<1>12. SaysAll'
  BY <1>2, <1>6 DEF ReaderInv, SaysAll, Said
<1>13. Script'
  <2> SUFFICES ASSUME Figures'
               PROVE  /\ Len(reader'.got) + Len(reader'.todo) >= 2
                      /\ Len(reader'.got) = 0 => FALSE
                      /\ Len(reader'.got) = 1 => reader'.todo[1] = Statement("currencies")'
                      /\ reader.kind = "chat with largest" /\ reader'.todo # <<>> =>
                           reader'.todo[Len(reader'.todo)] = Statement("largest")'
    BY <1>2 DEF Script
  <2>1. /\ n + m >= 2
        /\ n = 0 => reader.todo[2] = Statement("currencies")
        /\ reader.kind = "chat with largest" => reader.todo[m] = Statement("largest")
    BY <1>0, <1>9 DEF ReaderInv, ReaderTypeOK, Script, n, m
  <2>2. Statement("currencies")' = Statement("currencies") /\ Statement("largest")' = Statement("largest")
    BY <1>2 DEF Statement
  <2>a. n + m >= 2
    BY <2>1
  <2>3. (n + 1) + (m - 1) >= 2 /\ n + 1 # 0
    BY <1>d, <2>a
  <2>4. ASSUME n + 1 = 1 PROVE reader'.todo[1] = Statement("currencies")'
    <3>1. n = 0 /\ 1 \in 1..(m - 1) /\ 1 + 1 = 2
      BY <1>d, <2>a, <2>4
    <3>2. QED
      BY <1>5, <2>1, <2>2, <3>1
  <2>5. ASSUME reader.kind = "chat with largest", reader'.todo # <<>>
        PROVE  reader'.todo[m - 1] = Statement("largest")'
    <3>1. m - 1 \in 1..(m - 1) /\ (m - 1) + 1 = m
      BY <1>8, <1>e, <2>5
    <3>2. QED
      BY <1>5, <2>1, <2>2, <2>5, <3>1
  <2>6. QED
    BY <1>4, <1>5, <2>3, <2>4, <2>5
<1>14. ASSUME n = 0, Figures
       PROVE  a = spend_by_category(reader.ids, reader.window, reader.currency)
  <2>1. reader.todo[1] = Statement("spend")
    BY <1>14 DEF ReaderInv, Script, n
  <2>2. QED
    BY <1>1, <2>1 DEF Answer, Statement
<1>15. TotalRead'
  <2> SUFFICES ASSUME Figures'
               PROVE  /\ \A t \in reader'.got[1] : t \in committed /\ Row[t].account \in reader.ids
                                                    /\ InWindow(t, reader.window)
                      /\ \A t \in InView : Outflow(t) => t \in reader'.got[1]
                      /\ \A t \in OfCategory : Outflow(t) /\ reader.cat # None => t \in reader'.focus
    BY <1>2, <1>6 DEF TotalRead, ledgerVars
  <2>1. CASE n = 0
    <3>1. reader'.got[1] = a /\ a = spend_by_category(reader.ids, reader.window, reader.currency)
      BY <1>4, <1>9, <1>14, <2>1
    <3>2. \A t \in a : t \in committed /\ Row[t].account \in reader.ids /\ InWindow(t, reader.window)
      BY <3>1 DEF spend_by_category, Outflows, Selected
    <3>3. \A t \in InView : Outflow(t) => t \in a
      BY <1>0, <3>1, SteadyIsRead DEF Outflow, spend_by_category
    <3>4. \A t \in OfCategory : Outflow(t) /\ reader.cat # None => t \in a /\ category[t] = reader.cat
      BY <1>0, <3>3, SteadyIsRead DEF Outflow
    <3>5. QED
      BY <1>2, <1>7, <2>1, <3>1, <3>2, <3>3, <3>4
  <2>2. CASE n # 0
    <3>1. n >= 1 /\ 1 \in 1..n
      BY <1>3, <2>2
    <3>2. reader'.got[1] = reader.got[1] /\ reader'.focus = reader.focus
      BY <1>2, <1>4, <1>7, <2>2, <3>1
    <3>3. QED
      BY <1>9, <3>1, <3>2 DEF ReaderInv, TotalRead, n
  <2>3. QED
    BY <2>1, <2>2
<1>16. CurrenciesRead'
  <2> SUFFICES ASSUME Figures', n + 1 >= 2, NEW t \in InView, Row[t].amount < 0
               PROVE  Row[t].currency \in reader'.got[2]
    BY <1>4, <1>6 DEF CurrenciesRead
  <2>1. CASE n = 1
    <3>1. reader.todo[1] = Statement("currencies")
      BY <1>9, <2>1 DEF ReaderInv, Script, n
    <3>2. reader'.got[2] = spend_currencies(reader.ids, reader.window)
      BY <1>1, <1>4, <2>1, <3>1 DEF Answer, Statement
    <3>3. t \in Outflows(reader.ids, reader.window, None)
      BY <1>0, SteadyIsRead
    <3>4. QED
      BY <3>2, <3>3 DEF spend_currencies
  <2>2. CASE n # 1
    <3>1. n >= 2 /\ 2 \in 1..n
      BY <1>3, <2>2
    <3>2. reader'.got[2] = reader.got[2]
      BY <1>4, <3>1
    <3>3. QED
      BY <1>9, <3>1, <3>2 DEF ReaderInv, CurrenciesRead, n
  <2>3. QED
    BY <2>1, <2>2
<1>17. LargestRead'
  <2> SUFFICES ASSUME Figures', reader.kind = "chat with largest", reader'.todo = <<>>,
                      NEW t \in OfCategory, Outflow(t)
               PROVE  Quotes(a, t)
    BY <1>2, <1>4, <1>6 DEF LargestRead
  <2>1. m = 1 /\ reader.todo # <<>>
    <3>1. ~(m > 1)
      BY <1>8
    <3>2. reader.todo # <<>>
      BY <1>0 DEF ReaderTypeOK
    <3>3. QED
      BY <1>e, <3>1, <3>2
  <2>2. reader.todo[1] = Statement("largest")
    BY <1>9, <2>1 DEF ReaderInv, Script, m
  <2>3. a = largest_outflows(reader.ids, reader.window, reader.currency, reader.cat)
    <3>1. PICK q : q = Statement("largest")
      OBVIOUS
    <3>2. a = Answer(q) /\ q.op = "largest" /\ q.w = reader.window
      BY <1>1, <2>2, <3>1 DEF Statement
    <3>3. QED
      BY <3>2, AnswerIs
  <2>4. t \in Outflows(reader.ids, reader.window, reader.cat) /\ Row[t].currency = reader.currency
    BY <1>0, SteadyIsRead DEF Outflow
  <2>5. PICK ids, w, cur, cat : ids = reader.ids /\ w = reader.window /\ cur = reader.currency /\ cat = reader.cat
    OBVIOUS
  <2>6. t \in Outflows(ids, w, cat) /\ Row[t].currency = cur
    BY <2>4, <2>5
  <2>7. Quotes(largest_outflows(ids, w, cur, cat), t)
    BY <2>6, LargestQuoted
  <2>8. QED
    BY <2>3, <2>5, <2>7
<1>18. TrendsCovered'
  <2> SUFFICES ASSUME reader.kind = "trends", NEW t \in InView, Outflow(t)
               PROVE  Counts(t)' \/ ToCome(t)'
    BY <1>2, <1>6 DEF TrendsCovered
  <2>1. CASE Counts(t)
    <3>1. PICK i \in 1..n : t \in reader.got[i]
      BY <1>3, <2>1 DEF Counts
    <3>2. i \in 1..(n + 1) /\ reader'.got[i] = reader.got[i]
      BY <1>3, <1>4, <3>1
    <3>3. QED
      BY <1>4, <3>1, <3>2 DEF Counts
  <2>2. CASE ToCome(t)
    <3>1. PICK j \in 1..m : reader.todo[j].op = "spend" /\ InWindow(t, reader.todo[j].w)
      BY <1>3, <2>2 DEF ToCome
    <3>2. CASE j = 1
      <4>1. a = spend_by_category(reader.ids, reader.todo[1].w, reader.currency)
        BY <1>1, <3>1, <3>2 DEF Answer
      <4>2. t \in a
        BY <1>0, <3>1, <3>2, <4>1, SteadyIsRead DEF Outflow, spend_by_category
      <4>3. n + 1 \in 1..(n + 1)
        BY <1>3
      <4>4. QED
        BY <1>4, <4>2, <4>3 DEF Counts
    <3>3. CASE j # 1
      <4> DEFINE k == j - 1
      <4>1. k \in 1..(m - 1) /\ k + 1 = j
        BY <1>3, <3>3
      <4> HIDE DEF k
      <4>2. reader'.todo[k] = reader.todo[j]
        BY <1>5, <4>1
      <4>3. QED
        BY <1>5, <3>1, <4>1, <4>2 DEF ToCome, InWindow
    <3>4. QED
      BY <3>2, <3>3
  <2>3. QED
    BY <2>1, <2>2 DEF ReaderInv, TrendsCovered
<1>19. QED
  BY <1>10, <1>11, <1>12, <1>13, <1>15, <1>16, <1>17, <1>18 DEF ReaderInv

\* The answer of a chat accounts for the rows that were there all along.
LEMMA ReplySays ==
  ASSUME ReaderInv, reader.pc = "answering", NEW t \in InView, Row[t].amount < 0,
         Row[t].currency # reader.currency \/ t \in OfCategory
  PROVE  \/ Row[t].currency \in OtherCurrencies
         \/ t \in Draft.rows
         \/ Draft.about = "largest" /\ \A u \in Draft.rows : Larger(u, t)
<1>1. reader.kind \in Chats /\ reader.todo = <<>> /\ reader.got \in Seq(ToSet(reader.got)) /\ ReaderTypeOK
  BY DEF ReaderInv, ReaderTypeOK
<1>2. Figures
  BY <1>1 DEF Figures, Totals
<1>3. Len(reader.got) >= 2 /\ Len(reader.got) >= 1
  <2>1. Len(reader.got) + Len(reader.todo) >= 2
    BY <1>2 DEF ReaderInv, Script
  <2>2. Len(reader.todo) = 0 /\ Len(reader.got) \in Nat
    BY <1>1, Nothing, LenProperties
  <2>3. QED
    BY <2>1, <2>2
<1>4. CASE Row[t].currency # reader.currency
  <2>1. Row[t].currency \in reader.got[2]
    BY <1>2, <1>3 DEF ReaderInv, CurrenciesRead
  <2>2. QED
    BY <1>4, <2>1 DEF OtherCurrencies
<1>5. CASE Row[t].currency = reader.currency
  <2>1. t \in OfCategory /\ Outflow(t)
    BY <1>5 DEF Outflow
  <2>2. t \in reader.got[1] /\ (reader.cat # None => t \in reader.focus)
    BY <1>2, <1>3, <2>1 DEF ReaderInv, TotalRead
  <2>3. HasData
    BY <2>2 DEF HasData
  <2>4. CASE reader.kind = "chat with largest"
    <3>1. Quotes(Largest, t)
      <4>1. Quotes(reader.got[Len(reader.got)], t)
        BY <1>1, <1>2, <2>1, <2>4 DEF ReaderInv, LargestRead
      <4>2. QED
        BY <2>4, <4>1 DEF Largest, Last
    <3>2. Largest # <<>> /\ (t \in ToSet(FirstRows(Largest, 3)) \/ \A u \in ToSet(FirstRows(Largest, 3)) : Larger(u, t))
      BY <3>1 DEF Quotes
    <3>3. Draft = [about |-> "largest", rows |-> ToSet(FirstRows(Largest, 3))]
      BY <2>3, <3>2 DEF Draft
    <3>4. QED
      BY <3>2, <3>3
  <2>5. CASE reader.kind # "chat with largest"
    <3>1. Largest = <<>>
      BY <2>5 DEF Largest
    <3>2. CASE reader.cat # None
      <4>1. Draft.rows = reader.focus
        BY <2>3, <3>1, <3>2 DEF Draft
      <4>2. QED
        BY <2>2, <3>2, <4>1
    <3>3. CASE reader.cat = None
      <4>1. Draft = [about |-> "total", rows |-> reader.got[1]]
        BY <2>3, <3>1, <3>3 DEF Draft
      <4>2. QED
        BY <2>2, <4>1
    <3>4. QED
      BY <3>2, <3>3
  <2>6. QED
    BY <2>4, <2>5
<1>6. QED
  BY <1>4, <1>5

\* The answer mentions all that was read.
LEMMA ReplyKeeps ==
  ASSUME ReaderInv, NEW greeting \in BOOLEAN, Reply(greeting)
  PROVE  ReaderInv'
<1>1. PICK e : e = <<>>
  OBVIOUS
<1>2. Len(e) = 0 /\ e \in Seq(ToSet(e))
  BY <1>1, Nothing
<1>3. PICK answer : answer = build_answer(greeting)
  OBVIOUS
<1>4. /\ reader.pc = "answering" /\ UNCHANGED <<now, ledgerVars, before, moved>>
      /\ reader' = [reader EXCEPT !.pc = "done", !.got = e, !.focus = {}, !.says = answer]
  BY <1>1, <1>3 DEF Reply
<1>5. /\ DOMAIN reader' = Fields /\ reader'.pc = "done" /\ reader'.got = e /\ reader'.says = answer
      /\ reader'.kind = reader.kind /\ reader'.ids = reader.ids /\ reader'.currency = reader.currency
      /\ reader'.cat = reader.cat /\ reader'.window = reader.window /\ reader'.todo = reader.todo
      /\ reader'.items = reader.items /\ reader'.cursor = reader.cursor /\ reader'.page = reader.page
  BY <1>4 DEF ReaderInv, ReaderTypeOK, Fields
<1>6. InView' = InView /\ OfCategory' = OfCategory /\ UNCHANGED <<before, committed>>
  BY <1>4, <1>5, SameRows DEF ledgerVars
<1>7. reader.kind \in Chats /\ ~(reader.page > 0)
  BY <1>4 DEF ReaderInv, ReaderTypeOK, PagesSoFar
<1>8. ReaderTypeOK'
  BY <1>2, <1>4, <1>5, <1>6, <1>7 DEF ReaderInv, ReaderTypeOK, Chats
<1>9. PagesSoFar'
  BY <1>5, <1>7 DEF ReaderInv, PagesSoFar, Chats
<1>10. Script' /\ TotalRead' /\ CurrenciesRead' /\ LargestRead' /\ TrendsCovered'
  BY <1>5, <1>7 DEF Script, TotalRead, CurrenciesRead, LargestRead, TrendsCovered, Figures, Chats
<1>11. SaysAll'
  <2> SUFFICES ASSUME answer # Silence, NEW t \in InView, Row[t].amount < 0,
                      Row[t].currency # reader.currency \/ t \in OfCategory
               PROVE  \/ Row[t].currency \in answer.others
                      \/ t \in answer.rows
                      \/ answer.about = "largest" /\ \A u \in answer.rows : Larger(u, t)
    BY <1>5, <1>6 DEF SaysAll, Said, Larger
  <2>1. answer = [about |-> Draft.about, rows |-> Draft.rows, others |-> OtherCurrencies]
    BY <1>3 DEF build_answer
  <2>2. answer.about = Draft.about /\ answer.rows = Draft.rows /\ answer.others = OtherCurrencies
    BY <2>1
  <2>3. QED
    BY <1>4, <2>2, ReplySays
<1>12. QED
  BY <1>8, <1>9, <1>10, <1>11 DEF ReaderInv

-----------------------------------------------------------------------------
(* The windows of a trend. *)

\* Times that are multiples of a day are a day apart.
LEMMA DaysApart ==
  ASSUME NEW m \in Nat, NEW n \in Nat, NEW d \in Nat \ {0}, m % d = 0, n % d = 0, m < n
  PROVE  m <= n - d
<1>1. m = d * (m \div d) + (m % d) /\ n = d * (n \div d) + (n % d)
  BY SMTT(20)
<1>2. m \div d \in Int /\ n \div d \in Int
  BY SMTT(20)
<1>3. PICK a \in Int, b \in Int : a = m \div d /\ b = n \div d
  BY <1>2
<1>4. m = d * a /\ n = d * b
  BY <1>1, <1>3
<1>5. b > a
  BY <1>4, SMTT(20)
<1>6. b - a >= 1
  BY <1>5
<1>7. d * (b - a) >= d
  BY <1>6, SMTT(20)
<1>8. n - m = d * (b - a)
  BY <1>4, SMTT(20)
<1>9. QED
  BY <1>7, <1>8

\* The month starts before a time.
Earlier(x) == {m \in MonthStarts : m < x}

\* There are finitely many months before a time.
LEMMA EarlierIsFinite ==
  ASSUME NEW x \in Nat
  PROVE  IsFiniteSet(Earlier(x)) /\ Cardinality(Earlier(x)) \in Nat /\ Earlier(x) \in SUBSET Nat
<1>1. Earlier(x) \in SUBSET Nat /\ \A m \in Earlier(x) : m <= x
  BY MonthAssumption DEF Earlier
<1>2. IsFiniteSet(Earlier(x))
  BY <1>1, FS_BoundedSetOfNaturals
<1>3. QED
  BY <1>1, <1>2, FS_CardinalityType

\* The month before a month start is the last one that is earlier.
LEMMA MonthBefore ==
  ASSUME NEW x \in MonthStarts, Earlier(x) # {}
  PROVE  LET p == previous_month_start(x)
         IN  p \in MonthStarts /\ p < x /\ Earlier(p) = Earlier(x) \ {p}
<1>0. x \in Nat /\ Day \in Nat \ {0} /\ \A m \in MonthStarts : m \in Nat /\ m % Day = 0
  BY MonthAssumption, ReportsAssumption
<1>1. month_start(x) = x
  <2>1. month_start(x) \in Nat /\ month_start(x) <= x /\ x <= month_start(x)
    BY <1>0, MonthStart
  <2>2. QED
    BY <1>0, <2>1
<1>2. \A m \in MonthStarts : m < x => m <= x - Day
  BY <1>0, DaysApart
<1>3. PICK k \in MonthStarts : k <= x - Day
  BY <1>2 DEF Earlier
<1>4. PICK p : p = month_start(x - Day)
  OBVIOUS
<1>5. /\ p \in MonthStarts /\ p \in Nat /\ p <= x - Day
      /\ \A m \in MonthStarts : m <= x - Day => m <= p
  BY <1>0, <1>3, <1>4, MonthStart
<1>6. p < x
  BY <1>0, <1>5
<1>7. Earlier(p) = Earlier(x) \ {p}
  <2>1. ASSUME NEW m \in MonthStarts PROVE m < p <=> m < x /\ m # p
    BY <1>0, <1>2, <1>5, <1>6
  <2>2. QED
    BY <2>1 DEF Earlier
<1>8. QED
  BY <1>1, <1>4, <1>5, <1>6, <1>7 DEF previous_month_start

\* One window of a trend, given those before it; the windows exist.
TrendWindow(period, W, i) ==
  IF i = 1 THEN period_bounds(period, now) ELSE previous_bounds(period, W[i - 1].from)

\* The recursive definition of the windows has a solution, by its least counterexample.
LEMMA TrendWindowsExist ==
  ASSUME NEW period, NEW n \in Nat
  PROVE  TrendWindows(period, n) = [i \in 1..n |-> TrendWindow(period, TrendWindows(period, n), i)]
<1> DEFINE Has(k) == \E W : W = [i \in 1..k |-> TrendWindow(period, W, i)]
           Bad == {k \in Nat : ~Has(k)}
<1>1. Has(0)
  <2> DEFINE W == [i \in 1..0 |-> 0]
  <2>1. 1..0 = {}
    OBVIOUS
  <2>2. W = [i \in 1..0 |-> TrendWindow(period, W, i)]
    BY <2>1
  <2>3. QED
    BY <2>2
<1>2. ASSUME NEW k \in Nat, Has(k)
      PROVE  Has(k + 1)
  <2>1. PICK W : W = [i \in 1..k |-> TrendWindow(period, W, i)]
    BY <1>2
  <2> DEFINE H == [i \in 1..(k + 1) |-> IF i = k + 1 THEN TrendWindow(period, W, i) ELSE W[i]]
  <2>2. \A i \in 1..k : i \in 1..(k + 1) /\ H[i] = W[i]
    OBVIOUS
  <2>3. ASSUME NEW i \in 1..(k + 1)
        PROVE  H[i] = TrendWindow(period, H, i)
    <3>1. TrendWindow(period, H, i) = TrendWindow(period, W, i)
      <4>1. CASE i = 1
        BY <4>1 DEF TrendWindow
      <4>2. CASE i # 1
        <5>1. i - 1 \in 1..k
          BY <4>2
        <5>2. H[i - 1] = W[i - 1]
          BY <2>2, <5>1
        <5> HIDE DEF H
        <5>3. QED
          BY <4>2, <5>2 DEF TrendWindow
      <4>3. QED
        BY <4>1, <4>2
    <3>2. H[i] = TrendWindow(period, W, i)
      <4>1. CASE i = k + 1
        BY <4>1
      <4>2. CASE i # k + 1
        <5>1. i \in 1..k
          BY <4>2
        <5>2. W[i] = TrendWindow(period, W, i)
          BY <2>1, <5>1
        <5>3. QED
          BY <2>2, <5>1, <5>2
      <4>3. QED
        BY <4>1, <4>2
    <3>3. QED
      BY <3>1, <3>2
  <2>4. H = [i \in 1..(k + 1) |-> H[i]]
    OBVIOUS
  <2> HIDE DEF H
  <2>5. H = [i \in 1..(k + 1) |-> TrendWindow(period, H, i)]
    BY <2>3, <2>4
  <2>6. QED
    BY <2>5
<1> HIDE DEF Has
<1>3. Has(n)
  <2> SUFFICES ASSUME ~Has(n) PROVE FALSE
    OBVIOUS
  <2>1. Bad \in SUBSET Nat /\ Bad # {}
    OBVIOUS
  <2>2. PICK k \in Bad : \A m \in Bad : k <= m
    BY <2>1, LeastNat
  <2>3. k # 0 /\ k - 1 \in Nat /\ ~(k <= k - 1) /\ (k - 1) + 1 = k
    BY <1>1, <2>2
  <2>4. Has(k - 1)
    BY <2>2, <2>3
  <2>5. QED
    BY <1>2, <2>2, <2>3, <2>4
<1>4. TrendWindows(period, n) = CHOOSE W : W = [i \in 1..n |-> TrendWindow(period, W, i)]
  BY DEF TrendWindows, TrendWindow
<1>5. QED
  BY <1>3, <1>4 DEF Has

\* Every window of a trend begins at a time.
LEMMA WeeksBegin ==
  ASSUME LedgerTypeOK, NEW n \in Nat, NEW i \in 1..n
  PROVE  TrendWindows("weekly", n)[i].from \in Int
<1> DEFINE Bad == {k \in 1..n : TrendWindows("weekly", n)[k].from \notin Int}
<1>0. now \in Nat /\ Week \in Nat \ {0}
  BY ReportsAssumption DEF LedgerTypeOK
<1>1. PICK W : W = TrendWindows("weekly", n)
  OBVIOUS
<1>2. W = [k \in 1..n |-> TrendWindow("weekly", W, k)]
  BY <1>1, TrendWindowsExist
<1> SUFFICES ASSUME i \in Bad PROVE FALSE
  OBVIOUS
<1>3. Bad \in SUBSET Nat /\ Bad # {}
  OBVIOUS
<1> HIDE DEF Bad
<1>4. PICK k \in Bad : \A m \in Bad : k <= m
  BY <1>3, LeastNat
<1>5. k \in 1..n /\ W[k] = TrendWindow("weekly", W, k) /\ W[k].from \notin Int
  BY <1>1, <1>2, <1>4 DEF Bad
<1>6. CASE k = 1
  <2>1. W[k].from = now - (now % Week)
    BY <1>5, <1>6 DEF TrendWindow, period_bounds, PeriodStart, week_start
  <2>2. QED
    BY <1>0, <1>5, <2>1
<1>7. CASE k # 1
  <2>1. k - 1 \in 1..n /\ ~(k <= k - 1)
    BY <1>5, <1>7
  <2>2. W[k - 1].from \in Int
    BY <1>1, <1>4, <2>1 DEF Bad
  <2>3. W[k].from = W[k - 1].from - Week
    BY <1>5, <1>7 DEF TrendWindow, previous_bounds
  <2>4. QED
    BY <1>0, <1>5, <2>2, <2>3
<1>8. QED
  BY <1>6, <1>7

\* Every month of a trend begins at a month start: there are more of them than points.
LEMMA MonthsBegin ==
  ASSUME LedgerTypeOK, NEW n \in 1..MaxPeriods, NEW i \in 1..n
  PROVE  TrendWindows("monthly", n)[i].from \in Int
<1> DEFINE M == {m \in MonthStarts : m <= now}
           C == Cardinality(M)
<1>0. /\ now \in Nat /\ FirstNow \in Nat /\ FirstNow <= now /\ MaxPeriods \in Nat
      /\ \A m \in MonthStarts : m \in Nat
  BY ReportsAssumption, MonthAssumption DEF LedgerTypeOK
<1>1. M = Earlier(now + 1) /\ {m \in MonthStarts : m <= FirstNow} \in SUBSET M
  BY <1>0 DEF Earlier
<1>2. IsFiniteSet(M) /\ C \in Nat
  <2>1. PICK x : x = now + 1 /\ x \in Nat
    BY <1>0
  <2>2. IsFiniteSet(Earlier(x))
    BY <2>1, EarlierIsFinite
  <2>3. IsFiniteSet(M)
    BY <1>1, <2>1, <2>2
  <2>4. QED
    BY <2>3, FS_CardinalityType
<1>3. C > MaxPeriods
  <2>1. PICK F : F = {m \in MonthStarts : m <= FirstNow}
    OBVIOUS
  <2>2. F \in SUBSET M /\ Cardinality(F) > MaxPeriods
    BY <1>1, <2>1, MonthAssumption
  <2> HIDE DEF M
  <2>3. IsFiniteSet(F) /\ Cardinality(F) <= C
    BY <1>2, <2>2, FS_Subset
  <2>4. Cardinality(F) \in Nat
    BY <2>3, FS_CardinalityType
  <2>5. QED
    BY <1>0, <1>2, <2>2, <2>3, <2>4
<1>4. PICK W : W = TrendWindows("monthly", n)
  OBVIOUS
<1>5. W = [k \in 1..n |-> TrendWindow("monthly", W, k)]
  BY <1>0, <1>4, TrendWindowsExist
<1> DEFINE Fine(k) == /\ W[k].from \in MonthStarts
                      /\ Cardinality(Earlier(W[k].from)) + k >= C
           Bad == {k \in 1..n : ~Fine(k)}
<1> SUFFICES ASSUME ~Fine(i) PROVE FALSE
  BY <1>0, <1>4
<1> HIDE DEF Fine
<1>6. Bad \in SUBSET Nat /\ Bad # {}
  <2>1. i \in Bad
    OBVIOUS
  <2>2. \A k \in 1..n : k \in Nat
    BY <1>0
  <2>3. QED
    BY <2>1, <2>2
<1> HIDE DEF Bad
<1>7. PICK k \in Bad : \A m \in Bad : k <= m
  BY <1>6, LeastNat
<1>8. k \in 1..n /\ W[k] = TrendWindow("monthly", W, k) /\ ~Fine(k)
  BY <1>5, <1>7 DEF Bad
<1>9. CASE k = 1
  <2>1. W[k].from = month_start(now)
    BY <1>8, <1>9 DEF TrendWindow, period_bounds, PeriodStart
  <2>2. M # {}
    <3> SUFFICES ASSUME M = {} PROVE FALSE
      OBVIOUS
    <3>1. C = 0
      BY FS_EmptySet
    <3>2. QED
      BY <1>0, <1>3, <3>1
  <2>3. PICK s : s = month_start(now)
    OBVIOUS
  <2>4. s \in M /\ s \in Nat /\ \A m \in M : m <= s
    BY <1>0, <2>2, <2>3, MonthStart
  <2>5. Earlier(s) = M \ {s}
    <3>1. ASSUME NEW m \in MonthStarts PROVE m < s <=> m <= now /\ m # s
      BY <1>0, <2>4
    <3>2. QED
      BY <3>1 DEF Earlier
  <2>6. Cardinality(Earlier(s)) = C - 1
    BY <1>2, <2>4, <2>5, FS_RemoveElement
  <2>7. Fine(k)
    BY <1>2, <1>9, <2>1, <2>3, <2>4, <2>6 DEF Fine
  <2>8. QED
    BY <1>8, <2>7
<1>10. CASE k # 1
  <2>1. k - 1 \in 1..n /\ ~(k <= k - 1) /\ k - 1 < n
    BY <1>0, <1>8, <1>10
  <2>2. Fine(k - 1)
    BY <1>7, <2>1 DEF Bad
  <2>3. PICK x : x = W[k - 1].from
    OBVIOUS
  <2>4. x \in MonthStarts /\ x \in Nat /\ Cardinality(Earlier(x)) + (k - 1) >= C
    BY <1>0, <2>2, <2>3 DEF Fine
  <2>5. IsFiniteSet(Earlier(x)) /\ Cardinality(Earlier(x)) \in Nat
    BY <2>4, EarlierIsFinite
  <2>6. Earlier(x) # {}
    <3> SUFFICES ASSUME Earlier(x) = {} PROVE FALSE
      OBVIOUS
    <3>1. Cardinality(Earlier(x)) = 0
      BY FS_EmptySet
    <3> HIDE DEF C
    <3>2. 0 + (k - 1) >= C
      BY <2>4, <3>1
    <3>3. n <= MaxPeriods /\ n \in Nat /\ k \in Nat
      BY <1>0, <1>8
    <3>4. QED
      BY <1>0, <1>2, <1>3, <2>1, <3>2, <3>3
  <2>7. PICK p : p = previous_month_start(x)
    OBVIOUS
  <2>8. p \in MonthStarts /\ p < x /\ Earlier(p) = Earlier(x) \ {p}
    BY <2>4, <2>6, <2>7, MonthBefore
  <2>9. p \in Earlier(x)
    BY <2>8 DEF Earlier
  <2>10. Cardinality(Earlier(p)) = Cardinality(Earlier(x)) - 1
    BY <2>5, <2>8, <2>9, FS_RemoveElement
  <2>11. W[k].from = p
    BY <1>8, <1>10, <2>3, <2>7 DEF TrendWindow, previous_bounds
  <2> HIDE DEF C
  <2>12. (Cardinality(Earlier(x)) - 1) + k >= C
    <3>1. Cardinality(Earlier(x)) + (k - 1) >= C /\ Cardinality(Earlier(x)) \in Nat /\ k \in Nat /\ C \in Nat
      BY <1>0, <1>2, <1>8, <2>4, <2>5
    <3>2. QED
      BY <3>1
  <2>13. Fine(k)
    BY <2>8, <2>10, <2>11, <2>12 DEF Fine
  <2>14. QED
    BY <1>8, <2>13
<1>11. QED
  BY <1>9, <1>10

\* Every time from the first window's start to now is in one of the windows.
LEMMA NoGap ==
  ASSUME LedgerTypeOK, NEW period \in {"weekly", "monthly"}, NEW n \in 1..MaxPeriods, NEW x \in Nat,
         TrendWindows(period, n)[n].from <= x, x <= now
  PROVE  \E i \in 1..n : TrendWindows(period, n)[i].from <= x /\ x <= TrendWindows(period, n)[i].to
<1>0. n \in Nat /\ n \in 1..n
  BY ReportsAssumption
<1>1. PICK W : W = TrendWindows(period, n)
  OBVIOUS
<1>2. W = [k \in 1..n |-> TrendWindow(period, W, k)]
  BY <1>0, <1>1, TrendWindowsExist
<1> DEFINE Low == {k \in 1..n : W[k].from <= x}
<1>3. Low \in SUBSET Nat /\ Low # {}
  BY <1>0, <1>1
<1> HIDE DEF Low
<1>4. PICK k \in Low : \A m \in Low : k <= m
  BY <1>3, LeastNat
<1>5. k \in 1..n /\ W[k].from <= x /\ W[k] = TrendWindow(period, W, k)
  BY <1>2, <1>4 DEF Low
<1>6. CASE k = 1
  <2>1. W[k].to = now
    BY <1>5, <1>6 DEF TrendWindow, period_bounds
  <2>2. QED
    BY <1>1, <1>5, <2>1
<1>7. CASE k # 1
  <2>1. k - 1 \in 1..n /\ ~(k <= k - 1)
    BY <1>0, <1>5, <1>7
  <2>2. ~(W[k - 1].from <= x)
    BY <1>4, <2>1 DEF Low
  <2>3. W[k - 1].from \in Int
    BY <1>0, <1>1, <2>1, WeeksBegin, MonthsBegin
  <2>4. W[k].to = W[k - 1].from
    BY <1>5, <1>7 DEF TrendWindow, previous_bounds
  <2>5. x <= W[k].to
    BY <2>2, <2>3, <2>4
  <2>6. QED
    BY <1>1, <1>5, <2>5
<1>8. QED
  BY <1>6, <1>7

\* The windows of a trend cover its time, so every outflow is still to come.
LEMMA GetTrendsKeeps ==
  ASSUME LedgerTypeOK, NEW period \in {"weekly", "monthly"}, NEW account, NEW requested, NEW n \in 1..MaxPeriods,
         GetTrends(period, account, requested, n)
  PROVE  ReaderInv'
<1>0. n \in Nat /\ n >= 1
  BY ReportsAssumption
<1>1. PICK ws, ids, cur, w, todo :
        /\ ws = TrendWindows(period, n) /\ w = [from |-> ws[n].from, to |-> now]
        /\ todo = [i \in 1..n |-> [op |-> "spend", w |-> ws[i]]]
        /\ Begin("trends", period, ids, cur, None, w, todo)
  BY DEF GetTrends
<1>2. \A i \in 1..n : todo[i].op = "spend" /\ todo[i].w = ws[i]
  BY <1>1
<1>3. DOMAIN todo = 1..n /\ todo \in Seq(ToSet(todo)) /\ todo # <<>>
  <2>1. DOMAIN todo = 1..n /\ todo \in [1..n -> ToSet(todo)]
    BY <1>1 DEF ToSet
  <2>2. todo \in Seq(ToSet(todo)) /\ Len(todo) = n
    BY <1>0, <2>1
  <2>3. QED
    BY <1>0, <2>1, <2>2, Nothing
<1>4. ASSUME NEW t \in committed, InWindow(t, w)
      PROVE  \E j \in DOMAIN todo : todo[j].op = "spend" /\ InWindow(t, todo[j].w)
  <2>1. PICK x \in Nat : x = Row[t].at
    BY RowAssumption DEF LedgerTypeOK
  <2>2. ws[n].from <= x /\ x <= now
    BY <1>1, <1>4, <2>1 DEF InWindow
  <2>3. PICK j \in 1..n : ws[j].from <= x /\ x <= ws[j].to
    BY <1>1, <2>2, NoGap
  <2>4. QED
    BY <1>2, <1>3, <2>1, <2>3 DEF InWindow
<1>5. Plan("trends", None, w, todo)
  BY <1>3, <1>4 DEF Plan, Totals, Chats
<1>6. QED
  BY <1>1, <1>5, BeginKeeps

\* No request before the first one.
LEMMA InitReader == Init => ReaderInv
<1> SUFFICES ASSUME Init PROVE ReaderInv
  OBVIOUS
<1>1. reader \in {Idle, Away} /\ before = {}
  BY DEF Init
<1>2. PICK e : e = <<>>
  OBVIOUS
<1>3. Len(e) = 0 /\ e \in Seq(Tx) /\ e \in Seq(ToSet(e)) /\ DOMAIN e = {}
  BY <1>2, Nothing
<1>4. /\ DOMAIN reader = Fields /\ reader.pc \in {"idle", "away"} /\ reader.kind = None /\ reader.cat = None
      /\ reader.todo = e /\ reader.got = e /\ reader.items = e /\ reader.cursor = None /\ reader.page = 0
  BY <1>1, <1>2 DEF Idle, Away, Fields
<1>5. None \notin Totals \cup Chats \cup {"list", "trends"}
  BY NoneAssumption DEF Totals, Chats
<1>6. ReaderTypeOK
  <2>1. 0 \in Nat /\ None \in Tx \cup {None}
    OBVIOUS
  <2>2. QED
    BY <1>1, <1>2, <1>3, <1>4, <1>5, <2>1 DEF ReaderTypeOK
<1>7. PagesSoFar
  <2>1. InOrder(e) /\ ~(0 > 0)
    BY <1>3 DEF InOrder
  <2>2. QED
    BY <1>2, <1>4, <2>1 DEF PagesSoFar
<1>8. Script /\ TotalRead /\ CurrenciesRead /\ LargestRead /\ SaysAll /\ TrendsCovered
  BY <1>4, <1>5 DEF Script, TotalRead, CurrenciesRead, LargestRead, SaysAll, TrendsCovered, Figures
<1>9. QED
  BY <1>6, <1>7, <1>8 DEF ReaderInv

\* Every request begins in a state of the invariant.
LEMMA RequestKeeps == LedgerTypeOK /\ Request => ReaderInv'
<1> SUFFICES ASSUME LedgerTypeOK, Request PROVE ReaderInv'
  OBVIOUS
<1>1. ASSUME NEW period \in {"weekly", "monthly"}, LoadPeriod(period) PROVE ReaderInv'
  BY <1>1, SummarizeKeeps DEF LoadPeriod
<1>2. ASSUME NEW period \in {"weekly", "monthly"}, NEW account \in AskedAccount, NEW requested \in AskedCurrency,
             NEW asOf \in (now - Day)..now, GetSummary(period, account, requested, asOf)
      PROVE  ReaderInv'
  BY <1>2, SummarizeKeeps DEF GetSummary
<1>3. ASSUME NEW period \in {"weekly", "monthly"}, NEW account \in AskedAccount, NEW requested \in AskedCurrency,
             NEW n \in 1..MaxPeriods, GetTrends(period, account, requested, n)
      PROVE  ReaderInv'
  BY <1>3, GetTrendsKeeps
<1>4. ASSUME NEW mention \in Mention \cup {None}, NEW heard \in Mention \cup {None}, NEW followUp \in BOOLEAN,
             NEW wantsLargest \in BOOLEAN, NEW m \in MonthStarts, NEW requested \in AskedCurrency,
             NEW cat \in Category \cup {None}, Retrieve(mention, followUp, heard, m, requested, cat, wantsLargest)
      PROVE  ReaderInv'
  BY <1>4, RetrieveKeeps
<1>5. ASSUME NEW account \in AskedAccount, NEW cat \in Category \cup {None}, ListTransactions(account, cat)
      PROVE  ReaderInv'
  BY <1>5, ListTransactionsKeeps
<1>6. QED
  BY <1>1, <1>2, <1>3, <1>4, <1>5 DEF Request

\* Every step keeps the invariant of the request.
LEMMA ReaderKept == LedgerTypeOK /\ ReaderInv /\ [Next]_vars => ReaderInv'
<1> SUFFICES ASSUME LedgerTypeOK, ReaderInv, [Next]_vars PROVE ReaderInv'
  OBVIOUS
<1>1. ASSUME NEW t \in Tx, Commit(t) \/ Enrich(t) \/ Handle(t) \/ \E c \in Category : Correct(t, c)
      PROVE  ReaderInv'
  <2>1. ReaderTypeOK
    BY DEF ReaderInv
  <2>2. QED
    BY <1>1, <2>1, LedgerStep, LedgerKeepsReader
<1>2. ASSUME NEW greeting \in BOOLEAN, Reply(greeting) PROVE ReaderInv'
  BY <1>2, ReplyKeeps
<1>3. CASE UNCHANGED vars
  <2>1. UNCHANGED <<now, ledgerVars, reader, before, moved>> /\ committed \subseteq committed'
    BY <1>3 DEF vars, ledgerVars
  <2>2. InView' = InView /\ OfCategory' = OfCategory
    BY <2>1 DEF ledgerVars, InView, OfCategory, Steady
  <2>3. QED
    BY <2>1, <2>2, LedgerKeepsReader
<1>4. QED
  BY <1>1, <1>2, <1>3, RequestKeeps, QueryKeeps, SummaryFailsKeeps, PageKeeps, FinishKeeps DEF Next

(***************************************************************************)
(* The inductive invariant, in every state: the ledger's rows and events   *)
(* have their types, no budget without an alert is reached at a handled    *)
(* row, and a request has read or listed all that it stands for so far.    *)
(***************************************************************************)
THEOREM ReportsInvariant == Spec => [](LedgerTypeOK /\ BudgetsWatched /\ ReaderInv)
<1>1. Init => LedgerTypeOK /\ BudgetsWatched /\ ReaderInv
  BY InitLedger, InitReader
<1>2. LedgerTypeOK /\ BudgetsWatched /\ ReaderInv /\ [Next]_vars => LedgerTypeOK' /\ BudgetsWatched' /\ ReaderInv'
  BY LedgerTypeKept, BudgetsKept, ReaderKept
<1>3. QED
  BY <1>1, <1>2, PTL DEF Spec

(***************************************************************************)
(* list_page with its (occurred_at, id) cursor, and getPeriodTransactions: *)
(* however many rows share a time and whatever is committed or             *)
(* recategorized between two pages, the pages are in order, repeat no row  *)
(* and miss none that was there all along.                                 *)
(***************************************************************************)
THEOREM PagesAreComplete == Spec => []PagesComplete
  BY ReportsInvariant, ReaderProperties, PTL

(***************************************************************************)
(* The dashboard: every row that the summary's total counts is among the   *)
(* transactions listed for it, as far down as these go, since both are     *)
(* read with the same bounds.                                              *)
(***************************************************************************)
THEOREM DashboardAddsUp == Spec => []TotalsAreListed
  BY ReportsInvariant, ReaderProperties, PTL

(***************************************************************************)
(* build_summary_aggregates and build_answer: spending that was there all  *)
(* along is counted, quoted or smaller than what is quoted, or else its    *)
(* currency is named, although every figure has a statement of its own.    *)
(***************************************************************************)
THEOREM SpendingIsAccountedFor == Spec => []SpendingAccountedFor
  BY ReportsInvariant, ReaderProperties, PTL

(***************************************************************************)
(* build_trends: for every number of periods, weeks or months, spending    *)
(* between the first one's start and the request is in one of the points.  *)
(***************************************************************************)
THEOREM TrendsAreGapless == Spec => []TrendsHaveNoGap
  BY ReportsInvariant, ReaderProperties, PTL

(***************************************************************************)
(* The budget rule: in whatever order, and however often, the events of a  *)
(* month are handled, spending that reaches the limit has raised its alert *)
(* once all of them are.                                                   *)
(***************************************************************************)
THEOREM BudgetIsRaised == Spec => []BudgetRaised
  BY ReportsInvariant, BudgetsRaised, PTL

-----------------------------------------------------------------------------
(* The browser tab. *)

USE WorkspaceAssumption, FormAssumption

-----------------------------------------------------------------------------
(* The inductive invariant, in parts. *)

Period == {"weekly", "monthly"}
PageState == [period : Period, due : BOOLEAN, follow : Nat, ack : Int, refreshing : BOOLEAN,
              recent : Int, summary : Int, loadedPeriod : Period]
EntryState == [key : [form : Form \cup {NoForm}, id : Nat], busy : BOOLEAN, tried : Form \cup {NoForm}]
Load == [effect : {"base", "period"}, session : Nat, period : Period \cup {"none"},
         first : Nat \cup {Failed, Unauthorized, Pending}, second : Int]
Write == [kind : {"entry", "import", "save", "mark", "ask"}, session : Nat, form : Form \cup {NoForm},
          id : Nat, wish : Nat, answer : Int]

TabTypeOK ==
  /\ token \in Nat /\ sessions \in Nat /\ version \in Nat /\ clicks \in Nat /\ wish \in Nat
  /\ valid \subseteq Nat
  /\ rows \subseteq [id : Nat, form : Form, wish : Nat]
  /\ page \in PageState /\ entry \in EntryState
  /\ loads \subseteq Load /\ writes \subseteq Write
  /\ saved \subseteq [wish : Nat, form : Form]

\* The effects of a page that is gone have been cleaned up, and each runs once.
LoadsAreCurrent ==
  /\ \A l \in loads : l.session = token /\ token # 0
  /\ \A l, k \in loads : l.effect = k.effect => l = k
  /\ \A l \in loads : l.effect = "period" => l.period \in Period

\* What is shown, and what is about to replace it, is no newer than the data.
ViewInOrder ==
  /\ page.recent <= version /\ page.summary <= version
  /\ \A l \in loads : l.first <= version
  /\ \A l \in loads : l.first >= 0 =>
       IF l.effect = "base" THEN page.recent <= l.first ELSE page.summary <= l.first

\* The key in the form is that of the wish under way.
KeyIsWish ==
  entry.key = IF entry.tried = NoForm THEN NoKey ELSE [form |-> entry.tried, id |-> wish]

\* The form that a request, a row or the page has for a wish.
Entries == {w \in writes : w.kind = "entry"}
Asked(n, form) ==
  \/ \E w \in Entries : w.wish = n /\ w.form = form
  \/ \E r \in rows : r.wish = n /\ r.form = form
  \/ entry.tried # NoForm /\ n = wish /\ form = entry.tried

\* A wish has one form and one id, wherever it has come.
WishesAreApart ==
  /\ \A w \in Entries : w.id = w.wish /\ w.wish <= wish /\ w.form \in Form
  /\ \A r \in rows : r.id = r.wish /\ r.wish <= wish
  /\ \A n \in Nat : \A f, g \in Form : Asked(n, f) /\ Asked(n, g) => f = g

\* What a request was told is saved, is.
AnsweredIsStored ==
  \A w \in Entries : w.answer >= 0 => \E r \in rows : r.wish = w.wish /\ r.form = w.form

TabIInv ==
  /\ TabTypeOK
  /\ LoadsAreCurrent /\ ViewInOrder
  /\ KeyIsWish /\ WishesAreApart /\ AnsweredIsStored
  /\ EntryExactlyOnce

WishInv == KeyIsWish /\ WishesAreApart /\ AnsweredIsStored /\ EntryExactlyOnce

-----------------------------------------------------------------------------
(* Lemmas. *)

\* A tab opens without a session, loads or writes.
LEMMA InitTabIInv == TabInit => TabIInv
<1> SUFFICES ASSUME TabInit PROVE TabIInv
  OBVIOUS
<1>1. TabTypeOK
  BY DEF TabInit, TabTypeOK, Mounted, NewEntry, NoKey, PageState, EntryState, Period, NoForm, Pending
<1>2. LoadsAreCurrent /\ ViewInOrder
  BY DEF TabInit, LoadsAreCurrent, ViewInOrder, Mounted, Pending
<1>3. KeyIsWish /\ AnsweredIsStored /\ EntryExactlyOnce
  BY DEF TabInit, KeyIsWish, AnsweredIsStored, EntryExactlyOnce, Entries, NewEntry
<1>4. WishesAreApart
  BY DEF TabInit, WishesAreApart, Asked, Entries, NewEntry
<1>5. QED
  BY <1>1, <1>2, <1>3, <1>4 DEF TabIInv

\* The constants that are numbers.
LEMMA TabNumbers ==
  FollowTicks \in Nat /\ MaxSessions \in Nat /\ MaxVersion \in Nat /\ MaxClicks \in Nat
OBVIOUS

\* A page and a form as they mount.
LEMMA MountedTypes ==
  Mounted \in PageState /\ NewEntry \in EntryState /\ Mounted.recent = Pending /\ Mounted.summary = Pending
BY DEF Mounted, NewEntry, NoKey, PageState, EntryState, Period, NoForm, Pending

\* What an action with requests of the form does not touch.
Forgets ==
  \/ entry'.key = entry.key /\ entry'.tried = entry.tried
  \/ entry' = NewEntry

\* An entry's request goes on as it was, and is not told that it succeeded.
Follows ==
  \A w \in writes' : w.kind = "entry" =>
    \E v \in writes : /\ v.kind = "entry" /\ v.id = w.id /\ v.wish = w.wish /\ v.form = w.form
                      /\ w.answer >= 0 => v.answer >= 0

\* A step that adds no rows, and no requests or keys but known ones, keeps the wishes apart.
LEMMA WishesFollow ==
  ASSUME TabIInv, UNCHANGED <<rows, wish>>, Forgets, Follows
  PROVE  KeyIsWish' /\ WishesAreApart' /\ AnsweredIsStored'
<1>1. KeyIsWish'
  BY DEF TabIInv, KeyIsWish, Forgets, NewEntry
<1>2. \A n \in Nat, f \in Form : Asked(n, f)' => Asked(n, f)
  <2> SUFFICES ASSUME NEW n \in Nat, NEW f \in Form, Asked(n, f)' PROVE Asked(n, f)
    OBVIOUS
  <2>1. CASE \E w \in Entries' : w.wish = n /\ w.form = f
    BY <2>1 DEF Asked, Entries, Follows
  <2>2. CASE \E r \in rows' : r.wish = n /\ r.form = f
    BY <2>2 DEF Asked
  <2>3. CASE entry'.tried # NoForm /\ n = wish' /\ f = entry'.tried
    BY <2>3 DEF Asked, Forgets, NewEntry
  <2>4. QED
    BY <2>1, <2>2, <2>3 DEF Asked
<1>3. WishesAreApart'
  <2>1. \A w \in Entries' : w.id = w.wish /\ w.wish <= wish' /\ w.form \in Form
    BY DEF TabIInv, WishesAreApart, Entries, Follows
  <2>2. \A r \in rows' : r.id = r.wish /\ r.wish <= wish'
    BY DEF TabIInv, WishesAreApart
  <2>3. \A n \in Nat : \A f, g \in Form : Asked(n, f)' /\ Asked(n, g)' => f = g
    BY <1>2 DEF TabIInv, WishesAreApart
  <2>4. QED
    BY <2>1, <2>2, <2>3 DEF WishesAreApart
<1>4. AnsweredIsStored'
  BY DEF TabIInv, AnsweredIsStored, Entries, Follows
<1>5. QED
  BY <1>1, <1>3, <1>4

\* If it also tells the user nothing, what was told holds.
LEMMA WishesKept ==
  ASSUME TabIInv, UNCHANGED <<rows, wish, saved>>, Forgets, Follows
  PROVE  WishInv'
<1>1. EntryExactlyOnce'
  BY DEF TabIInv, EntryExactlyOnce
<1>2. QED
  BY <1>1, WishesFollow DEF WishInv

\* The wishes do not depend on anything but the form, its requests and its rows.
LEMMA WishesUntouched ==
  ASSUME TabIInv, UNCHANGED <<entry, writes, rows, wish, saved>>
  PROVE  WishInv'
<1>1. Forgets /\ Follows
  BY DEF Forgets, Follows
<1>2. QED
  BY <1>1, WishesKept

\* onLogout leaves nothing of the session in the tab.
LEMMA LogoutEnds ==
  ASSUME TabIInv, Logout
  PROVE  token' = 0 /\ page' = Mounted /\ entry' = NewEntry /\ loads' = {}
BY DEF TabIInv, TabTypeOK, Load, Logout, Cancelled

\* Without loads and with an empty page nothing can be out of date.
LEMMA EmptyView ==
  ASSUME TabIInv, loads' = {}, page' = Mounted, version' \in Nat
  PROVE  LoadsAreCurrent' /\ ViewInOrder'
BY MountedTypes DEF LoadsAreCurrent, ViewInOrder, Pending
-----------------------------------------------------------------------------
(* The actions. *)

\* Logging in mounts a page with the two loads of the new session.
LEMMA AuthenticateKeeps == ASSUME TabIInv, Authenticate PROVE TabIInv'
<1>1. loads = {}
  BY DEF TabIInv, LoadsAreCurrent, Authenticate
<1>2. token' \in Nat /\ token' # 0 /\ BaseLoad \in Load /\ PeriodLoad("monthly") \in Load
  BY DEF TabIInv, TabTypeOK, Authenticate, BaseLoad, PeriodLoad, Load, Period, Pending, Later
<1>3. TabTypeOK'
  BY <1>1, <1>2, MountedTypes DEF TabIInv, TabTypeOK, Authenticate, history
<1>4. LoadsAreCurrent'
  BY <1>1, <1>2 DEF Authenticate, LoadsAreCurrent, BaseLoad, PeriodLoad, Period
<1>5. ViewInOrder'
  BY <1>1, MountedTypes DEF TabIInv, TabTypeOK, Authenticate, ViewInOrder, BaseLoad, PeriodLoad, Pending
<1>6. Forgets /\ Follows
  BY DEF Authenticate, Forgets, Follows
<1>7. WishInv'
  BY <1>6, WishesKept DEF Authenticate, history
<1>8. QED
  BY <1>3, <1>4, <1>5, <1>7 DEF TabIInv, WishInv

\* Logging out unmounts it; requests of handlers go on.
LEMMA ClickLogoutKeeps == ASSUME TabIInv, ClickLogout PROVE TabIInv'
<1>1. token' = 0 /\ page' = Mounted /\ entry' = NewEntry /\ loads' = {}
  BY LogoutEnds DEF ClickLogout
<1>2. TabTypeOK'
  BY <1>1, MountedTypes DEF TabIInv, TabTypeOK, ClickLogout, Click, server, history
<1>3. Forgets /\ Follows
  BY <1>1 DEF ClickLogout, Forgets, Follows
<1>4. WishInv'
  BY <1>3, WishesKept DEF ClickLogout, server, history
<1>5. LoadsAreCurrent' /\ ViewInOrder'
  BY <1>1, <1>2, EmptyView DEF TabTypeOK
<1>6. QED
  BY <1>2, <1>4, <1>5 DEF TabIInv, WishInv

\* Reloading keeps the session of sessionStorage and nothing else.
LEMMA ReloadKeeps == ASSUME TabIInv, Reload PROVE TabIInv'
<1>1. token' = token /\ token # 0 /\ token \in Nat
  BY DEF TabIInv, TabTypeOK, Reload
<1>2. BaseLoad \in Load /\ PeriodLoad("monthly") \in Load
  BY <1>1 DEF BaseLoad, PeriodLoad, Load, Period, Pending, Later
<1>3. TabTypeOK'
  BY <1>1, <1>2, MountedTypes DEF TabIInv, TabTypeOK, Reload, Click, server, history
<1>4. LoadsAreCurrent'
  BY <1>1, <1>2 DEF Reload, LoadsAreCurrent, BaseLoad, PeriodLoad, Period
<1>5. ViewInOrder'
  BY MountedTypes DEF TabIInv, TabTypeOK, Reload, ViewInOrder, BaseLoad, PeriodLoad, Pending, server
<1>6. Forgets /\ Follows
  BY DEF Reload, Forgets, Follows
<1>7. WishInv'
  BY <1>6, WishesKept DEF Reload, server, history
<1>8. QED
  BY <1>3, <1>4, <1>5, <1>7 DEF TabIInv, WishInv

\* Data change and sessions expire on the server without the tab noticing.
LEMMA ServerKeeps == ASSUME TabIInv, ServerChange \/ \E s \in valid : Expire(s) PROVE TabIInv'
<1>1. /\ UNCHANGED <<token, sessions, rows, page, entry, loads, writes, clicks, history>>
      /\ version' \in Nat /\ version' >= version /\ valid' \subseteq valid
  BY DEF TabIInv, TabTypeOK, ServerChange, Expire
<1>2. TabTypeOK'
  BY <1>1 DEF TabIInv, TabTypeOK, history
<1>3. LoadsAreCurrent'
  BY <1>1 DEF TabIInv, LoadsAreCurrent
<1>4. ViewInOrder'
  BY <1>1 DEF TabIInv, TabTypeOK, ViewInOrder, PageState, Load, Failed, Unauthorized, Pending
<1>5. WishInv'
  BY <1>1, WishesUntouched DEF history
<1>6. QED
  BY <1>2, <1>3, <1>4, <1>5 DEF TabIInv, WishInv

\* A step that changes nothing on the page but when it loads next.
LEMMA DashboardKeeps ==
  ASSUME TabIInv, page' \in PageState, page'.recent = page.recent, page'.summary = page.summary,
         clicks' \in Nat, UNCHANGED <<token, server, entry, loads, writes, history>>
  PROVE  TabIInv'
<1>1. TabTypeOK'
  BY DEF TabIInv, TabTypeOK, server, history
<1>2. LoadsAreCurrent'
  BY DEF TabIInv, LoadsAreCurrent
<1>3. ViewInOrder'
  BY DEF TabIInv, ViewInOrder, server
<1>4. WishInv'
  BY WishesUntouched DEF server, history
<1>5. QED
  BY <1>1, <1>2, <1>3, <1>4 DEF TabIInv, WishInv

\* A refresh makes the effects due and shows nothing.
LEMMA RefreshesKeep ==
  ASSUME TabIInv, ClickRefresh \/ \E visible \in BOOLEAN : FollowTick(visible)
  PROVE  TabIInv'
<1>1. page \in PageState /\ clicks \in Nat
  BY DEF TabIInv, TabTypeOK
<1>2. CASE ClickRefresh
  <2>1. Refreshed(page) \in PageState /\ Refreshed(page).recent = page.recent
        /\ Refreshed(page).summary = page.summary
    BY <1>1 DEF Refreshed, PageState
  <2>2. QED
    BY <1>1, <1>2, <2>1, DashboardKeeps DEF ClickRefresh, Click
<1>3. CASE \E visible \in BOOLEAN : FollowTick(visible)
  <2>1. PICK visible \in BOOLEAN : FollowTick(visible)
    BY <1>3
  <2> DEFINE p == IF visible THEN Refreshed(page) ELSE page
  <2>2. p \in PageState /\ p.recent = page.recent /\ p.summary = page.summary /\ p.follow = page.follow
    BY <1>1 DEF Refreshed, PageState
  <2>3. page' = [p EXCEPT !.follow = @ - 1] /\ page.follow > 0
    BY <2>1 DEF FollowTick
  <2> HIDE DEF p
  <2>4. page' \in PageState /\ page'.recent = page.recent /\ page'.summary = page.summary
    BY <2>2, <2>3 DEF PageState
  <2>5. QED
    BY <1>1, <2>1, <2>4, DashboardKeeps DEF FollowTick
<1>4. QED
  BY <1>2, <1>3
\* The effects start anew.
LEMMA EffectsKeep ==
  ASSUME TabIInv, NEW period \in Period, page' \in PageState, page'.recent = page.recent,
         page'.summary = page.summary, token # 0, clicks' \in Nat,
         \/ loads' = Cancelled({"base", "period"}) \cup {BaseLoad, PeriodLoad(period)}
         \/ loads' = Cancelled({"period"}) \cup {PeriodLoad(period)},
         UNCHANGED <<token, server, entry, writes, history>>
  PROVE  TabIInv'
<1>1. /\ BaseLoad \in Load /\ PeriodLoad(period) \in Load
      /\ BaseLoad.effect = "base" /\ PeriodLoad(period).effect = "period"
      /\ BaseLoad.session = token /\ PeriodLoad(period).session = token
      /\ PeriodLoad(period).period = period
      /\ BaseLoad.first = Pending /\ PeriodLoad(period).first = Pending
  BY DEF TabIInv, TabTypeOK, BaseLoad, PeriodLoad, Load, Pending, Later
<1>2. /\ \A l \in loads' : l = BaseLoad \/ l = PeriodLoad(period) \/ (l \in loads /\ l.effect = "base")
      /\ BaseLoad \in loads' => \A l \in loads' : l = BaseLoad \/ l = PeriodLoad(period)
  <2>1. CASE loads' = Cancelled({"base", "period"}) \cup {BaseLoad, PeriodLoad(period)}
    BY <2>1 DEF Cancelled, TabIInv, TabTypeOK, Load
  <2>2. CASE loads' = Cancelled({"period"}) \cup {PeriodLoad(period)}
    <3>1. \A l \in loads' : l = PeriodLoad(period) \/ (l \in loads /\ l.effect = "base")
      BY <2>2 DEF Cancelled, TabIInv, TabTypeOK, Load
    <3>2. BaseLoad \in loads' => BaseLoad \in loads
      BY <3>1, <1>1
    <3>3. QED
      BY <1>1, <3>1, <3>2 DEF TabIInv, LoadsAreCurrent
  <2>3. QED
    BY <2>1, <2>2
<1>3. TabTypeOK'
  BY <1>1, <1>2 DEF TabIInv, TabTypeOK, server, history
<1>4. LoadsAreCurrent'
  <2>1. \A l \in loads' : l.session = token' /\ token' # 0
    BY <1>1, <1>2 DEF TabIInv, LoadsAreCurrent
  <2>2. \A l, k \in loads' : l.effect = k.effect => l = k
    BY <1>1, <1>2 DEF TabIInv, LoadsAreCurrent
  <2>3. \A l \in loads' : l.effect = "period" => l.period \in Period
    BY <1>1, <1>2
  <2>4. QED
    BY <2>1, <2>2, <2>3 DEF LoadsAreCurrent
<1>5. ViewInOrder'
  <2>1. version' = version /\ version \in Nat
    BY DEF TabIInv, TabTypeOK, server
  <2>2. QED
    BY <1>1, <1>2, <2>1 DEF TabIInv, ViewInOrder, Pending
<1>6. WishInv'
  BY WishesUntouched DEF server, history
<1>7. QED
  BY <1>3, <1>4, <1>5, <1>6 DEF TabIInv, WishInv

\* An effect that runs replaces its own load.
LEMMA EffectStepsKeep ==
  ASSUME TabIInv, RunEffects \/ \E period \in Period : ChoosePeriod(period)
  PROVE  TabIInv'
<1>1. page \in PageState /\ clicks \in Nat
  BY DEF TabIInv, TabTypeOK
<1>2. CASE RunEffects
  <2>1. page' \in PageState /\ page'.recent = page.recent /\ page'.summary = page.summary
    BY <1>1, <1>2 DEF RunEffects, PageState
  <2>2. page.period \in Period
    BY <1>1 DEF PageState
  <2>3. QED
    BY <1>1, <1>2, <2>1, <2>2, EffectsKeep DEF RunEffects
<1>3. CASE \E period \in Period : ChoosePeriod(period)
  <2>1. PICK period \in Period : ChoosePeriod(period)
    BY <1>3
  <2>2. page' \in PageState /\ page'.recent = page.recent /\ page'.summary = page.summary
    BY <1>1, <2>1 DEF ChoosePeriod, PageState
  <2>3. token # 0 /\ clicks' \in Nat
    <3>1. Ready /\ Click
      BY <2>1 DEF ChoosePeriod
    <3>2. QED
      BY <1>1, <3>1 DEF Ready, Click
  <2>4. QED
    BY <2>1, <2>2, <2>3, EffectsKeep DEF ChoosePeriod
<1>4. QED
  BY <1>2, <1>3

\* A load's answers arrive.
LEMMA AnswersKeep ==
  ASSUME TabIInv, NEW l \in loads, NEW m, m \in Load, loads' = (loads \ {l}) \cup {m},
         m.effect = l.effect, m.session = l.session, m.period = l.period,
         m.first \in {l.first, version, Failed, Unauthorized},
         UNCHANGED <<token, server, page, entry, writes, clicks, history>>
  PROVE  TabIInv'
<1>1. TabTypeOK'
  BY DEF TabIInv, TabTypeOK, server, history
<1>2. LoadsAreCurrent'
  BY DEF TabIInv, LoadsAreCurrent
<1>3. ViewInOrder'
  <2>1. version' = version /\ version \in Nat /\ page.recent \in Int /\ page.summary \in Int
    BY DEF TabIInv, TabTypeOK, server, PageState
  <2>2. QED
    BY <2>1 DEF TabIInv, ViewInOrder, Failed, Unauthorized
<1>4. WishInv'
  BY WishesUntouched DEF server, history
<1>5. QED
  BY <1>1, <1>2, <1>3, <1>4 DEF TabIInv, WishInv

\* An answer carries the version of its time, which is no older than what is shown.
LEMMA AnswerStepsKeep ==
  ASSUME TabIInv, NEW l \in loads, NEW answer, AnswerFirst(l, answer) \/ AnswerSecond(l, answer)
  PROVE  TabIInv'
<1>1. l \in Load /\ version \in Nat
  BY DEF TabIInv, TabTypeOK
<1>2. CASE AnswerFirst(l, answer)
  <2>1. answer \in {version, Failed, Unauthorized}
    BY <1>2 DEF AnswerFirst, Reading
  <2> DEFINE second == IF answer = Unauthorized THEN Unauthorized ELSE l.second
             m == [l EXCEPT !.first = answer, !.second = IF answer = Unauthorized THEN Unauthorized ELSE @]
  <2>2. /\ m \in Load /\ m.effect = l.effect /\ m.session = l.session /\ m.period = l.period
        /\ m.first = answer
    <3>1. answer \in Nat \cup {Failed, Unauthorized, Pending} /\ second \in Int
      BY <1>1, <2>1 DEF Load, Failed, Unauthorized
    <3>2. m = [[l EXCEPT !.first = answer] EXCEPT !.second = second]
      BY <1>1 DEF Load
    <3> HIDE DEF second, m
    <3>3. QED
      BY <1>1, <3>1, <3>2 DEF Load
  <2>3. loads' = (loads \ {l}) \cup {m}
    BY <1>2 DEF AnswerFirst
  <2> HIDE DEF m
  <2>4. QED
    BY <1>2, <2>1, <2>2, <2>3, AnswersKeep DEF AnswerFirst
<1>3. CASE AnswerSecond(l, answer)
  <2>1. answer \in {Later, Unauthorized}
    BY <1>3 DEF AnswerSecond
  <2> DEFINE m == [l EXCEPT !.second = answer]
  <2>2. /\ m \in Load /\ m.effect = l.effect /\ m.session = l.session /\ m.period = l.period
        /\ m.first = l.first
    BY <1>1, <2>1 DEF Load, Later, Unauthorized
  <2>3. loads' = (loads \ {l}) \cup {m}
    BY <1>3 DEF AnswerSecond
  <2> HIDE DEF m
  <2>4. QED
    BY <1>3, <2>2, <2>3, AnswersKeep DEF AnswerSecond
<1>4. QED
  BY <1>2, <1>3

\* What a load shows is newer than what it replaces, unless it failed.
LEMMA ShownIsNewer ==
  ASSUME TabIInv, NEW l \in loads, l.first # Pending, Unauthorized \notin {l.first, l.second}
  PROVE  /\ Shown(l) \in PageState
         /\ Shown(l).ack = page.ack
         /\ IF l.effect = "base"
            THEN Shown(l).recent = l.first /\ Shown(l).summary = page.summary
            ELSE Shown(l).summary = l.first /\ Shown(l).recent = page.recent
<1>1. l \in Load /\ page \in PageState /\ (l.effect = "period" => l.period \in Period)
  BY DEF TabIInv, TabTypeOK, LoadsAreCurrent
<1>2. l.effect \in {"base", "period"} /\ l.first \in Int
  BY <1>1 DEF Load, Failed, Unauthorized, Pending
<1>3. CASE l.effect = "base"
  BY <1>1, <1>2, <1>3 DEF Shown, PageState
<1>4. CASE l.effect = "period"
  BY <1>1, <1>2, <1>4 DEF Shown, PageState
<1>5. QED
  BY <1>2, <1>3, <1>4
\* A load that is complete replaces what is shown by something as new or newer.
LEMMA ArriveKeeps == ASSUME TabIInv, NEW l \in loads, Arrive(l) PROVE TabIInv'
<1>1. CASE Unauthorized \in {l.first, l.second}
  <2>1. token' = 0 /\ page' = Mounted /\ entry' = NewEntry /\ loads' = {}
    BY <1>1 DEF Arrive, Cancelled, TabIInv, TabTypeOK, Load
  <2>2. TabTypeOK'
    BY <2>1, MountedTypes DEF TabIInv, TabTypeOK, Arrive, server, history
  <2>3. Forgets /\ Follows
    BY <2>1 DEF Arrive, Forgets, Follows
  <2>4. WishInv'
    BY <2>3, WishesKept DEF Arrive, server, history
  <2>5. LoadsAreCurrent' /\ ViewInOrder'
    BY <2>1, <2>2, EmptyView DEF TabTypeOK
  <2>6. QED
    BY <2>2, <2>4, <2>5 DEF TabIInv, WishInv
<1>2. CASE Unauthorized \notin {l.first, l.second}
  <2>1. page' = Shown(l) /\ loads' = loads \ {l} /\ l.first # Pending
        /\ UNCHANGED <<token, entry, server, writes, clicks, history>>
    BY <1>2 DEF Arrive
  <2>2. TabTypeOK'
    BY <1>2, <2>1, ShownIsNewer DEF TabIInv, TabTypeOK, server, history
  <2>3. LoadsAreCurrent'
    BY <2>1 DEF TabIInv, LoadsAreCurrent
  <2>4. ViewInOrder'
    <3>1. version' = version /\ l.effect \in {"base", "period"}
      BY <2>1 DEF TabIInv, TabTypeOK, server, Load
    <3>2. \A k \in loads' : k \in loads /\ k.effect \in {"base", "period"} /\ k.effect # l.effect
      BY <2>1 DEF TabIInv, TabTypeOK, LoadsAreCurrent, Load
    <3>3. QED
      BY <1>2, <2>1, <3>1, <3>2, ShownIsNewer DEF TabIInv, ViewInOrder
  <2>5. WishInv'
    BY <2>1, WishesUntouched DEF server, history
  <2>6. QED
    BY <2>2, <2>3, <2>4, <2>5 DEF TabIInv, WishInv
<1>3. QED
  BY <1>1, <1>2

\* Requests of buttons leave the view alone.
LEMMA ViewKept ==
  ASSUME TabIInv, UNCHANGED <<token, loads>>, version' \in Nat, version' >= version,
         page'.recent = page.recent, page'.summary = page.summary
  PROVE  LoadsAreCurrent' /\ ViewInOrder'
<1>1. LoadsAreCurrent'
  BY DEF TabIInv, LoadsAreCurrent
<1>2. version \in Nat /\ page.recent \in Int /\ page.summary \in Int
      /\ \A l \in loads : l.first \in Int
  BY DEF TabIInv, TabTypeOK, PageState, Load, Failed, Unauthorized, Pending
<1>3. ViewInOrder'
  BY <1>2 DEF TabIInv, ViewInOrder
<1>4. QED
  BY <1>1, <1>3

\* The other buttons send requests that are no entries.
LEMMA PressKeeps ==
  ASSUME TabIInv, NEW kind \in {"import", "save", "mark", "ask"}, Press(kind)
  PROVE  TabIInv'
<1>1. entry \in EntryState /\ token \in Nat
  BY DEF TabIInv, TabTypeOK
<1> DEFINE w == [kind |-> kind, session |-> token, form |-> NoForm, id |-> 0, wish |-> 0, answer |-> Pending]
<1>2. w \in Write /\ w.kind # "entry"
  BY <1>1 DEF Write, Pending
<1>3. writes' = writes \cup {w}
  BY DEF Press
<1> HIDE DEF w
<1>4. entry' \in EntryState /\ entry'.key = entry.key /\ entry'.tried = entry.tried
  BY <1>1 DEF Press, EntryState
<1>5. TabTypeOK'
  BY <1>2, <1>3, <1>4 DEF TabIInv, TabTypeOK, Press, Click, server, history
<1>6. Forgets /\ Follows
  BY <1>2, <1>3, <1>4 DEF Forgets, Follows
<1>7. WishInv'
  BY <1>6, WishesKept DEF Press, server, history
<1>8. LoadsAreCurrent' /\ ViewInOrder'
  <2>1. version' = version /\ version \in Nat /\ version >= version /\ page' = page /\ UNCHANGED <<token, loads>>
    BY DEF Press, server, TabIInv, TabTypeOK
  <2>2. QED
    BY <2>1, ViewKept
<1>9. QED
  BY <1>5, <1>7, <1>8 DEF TabIInv, WishInv
\* Save sends the key of the wish, or a new key for a new wish.
LEMMA SubmitKeeps == ASSUME TabIInv, NEW form \in Form, Submit(form) PROVE TabIInv'
<1>1. /\ entry \in EntryState /\ token \in Nat /\ wish \in Nat /\ form # NoForm
      /\ wish' \in Nat /\ wish' = IF entry.tried = form THEN wish ELSE wish + 1
  BY DEF TabIInv, TabTypeOK, Submit, NoForm
<1>2. KeyFor(form) = [form |-> form, id |-> wish']
  BY <1>1 DEF TabIInv, KeyIsWish, KeyFor, NoKey
<1> DEFINE w == [kind |-> "entry", session |-> token, form |-> form, id |-> wish', wish |-> wish', answer |-> Pending]
<1>3. /\ w \in Write /\ w.kind = "entry" /\ w.form = form /\ w.id = wish' /\ w.wish = wish'
      /\ ~(w.answer >= 0)
  BY <1>1 DEF Write, Pending
<1>4. /\ entry' = [key |-> [form |-> form, id |-> wish'], busy |-> TRUE, tried |-> form]
      /\ writes' = writes \cup {w}
  BY <1>2 DEF Submit
<1> HIDE DEF w
<1>5. TabTypeOK'
  BY <1>1, <1>3, <1>4 DEF TabIInv, TabTypeOK, Submit, Click, server, EntryState
<1>6. KeyIsWish'
  BY <1>1, <1>4 DEF KeyIsWish
<1>7. Entries' = Entries \cup {w}
  BY <1>3, <1>4 DEF Entries
<1>8. rows' = rows /\ saved' = saved
  BY DEF Submit, server
<1>9. WishesAreApart'
  <2>1. \A n \in Nat, f \in Form : Asked(n, f)' => Asked(n, f) \/ (n = wish' /\ f = form)
    BY <1>3, <1>4, <1>7, <1>8 DEF Asked
  <2>2. \A n \in Nat, f \in Form : Asked(n, f) => n <= wish
    BY <1>1 DEF TabIInv, WishesAreApart, Asked
  <2>3. \A n \in Nat : \A f, g \in Form : Asked(n, f)' /\ Asked(n, g)' => f = g
    <3>1. CASE entry.tried = form
      <4>1. wish' = wish /\ Asked(wish, form)
        BY <1>1, <3>1 DEF Asked
      <4>2. QED
        BY <1>1, <2>1, <4>1 DEF TabIInv, WishesAreApart
    <3>2. CASE entry.tried # form
      <4>1. wish' = wish + 1 /\ \A f \in Form : ~Asked(wish', f)
        BY <1>1, <2>2, <3>2
      <4>2. QED
        BY <2>1, <4>1 DEF TabIInv, WishesAreApart
    <3>3. QED
      BY <3>1, <3>2
  <2>4. \A v \in Entries' : v.id = v.wish /\ v.wish <= wish' /\ v.form \in Form
    BY <1>1, <1>3, <1>7 DEF TabIInv, TabTypeOK, WishesAreApart, Entries, Write
  <2>5. \A r \in rows' : r.id = r.wish /\ r.wish <= wish'
    BY <1>1, <1>8 DEF TabIInv, TabTypeOK, WishesAreApart
  <2>6. QED
    BY <2>3, <2>4, <2>5 DEF WishesAreApart
<1>10. AnsweredIsStored'
  BY <1>3, <1>7, <1>8 DEF TabIInv, AnsweredIsStored
<1>11. EntryExactlyOnce'
  BY <1>8 DEF TabIInv, EntryExactlyOnce
<1>12. LoadsAreCurrent' /\ ViewInOrder'
  <2>1. version' = version /\ version \in Nat /\ version >= version /\ page' = page /\ UNCHANGED <<token, loads>>
    BY DEF Submit, server, TabIInv, TabTypeOK
  <2>2. QED
    BY <2>1, ViewKept
<1>13. QED
  BY <1>5, <1>6, <1>9, <1>10, <1>11, <1>12 DEF TabIInv

\* The row of a request is stored once, as it was asked for.
LEMMA StoredRows ==
  ASSUME TabIInv, NEW w \in writes
  PROVE  /\ Stored(w) \subseteq [id : Nat, form : Form, wish : Nat]
         /\ rows \subseteq Stored(w)
         /\ \A r \in Stored(w) : r \in rows \/ (w.kind = "entry" /\ r.wish = w.wish /\ r.form = w.form /\ r.id = r.wish)
         /\ \A r, q \in Stored(w) : r.wish = q.wish => r = q
         /\ w.kind = "entry" => \E r \in Stored(w) : r.wish = w.wish /\ r.form = w.form
<1>1. rows \subseteq [id : Nat, form : Form, wish : Nat] /\ \A r, q \in rows : r.wish = q.wish => r = q
  BY DEF TabIInv, TabTypeOK, EntryExactlyOnce
<1>2. CASE w.kind # "entry"
  BY <1>1, <1>2 DEF Stored
<1>3. CASE w.kind = "entry" /\ \E r \in rows : r.id = w.id
  <2>1. PICK r \in rows : r.id = w.id
    BY <1>3
  <2>2. w \in Entries /\ w.wish \in Nat /\ w.form \in Form /\ r.form \in Form /\ r.wish = w.wish
    BY <1>1, <1>3, <2>1 DEF TabIInv, TabTypeOK, WishesAreApart, Entries, Write
  <2>3. Asked(w.wish, w.form) /\ Asked(w.wish, r.form)
    BY <2>2 DEF Asked
  <2>4. w.form = r.form
    BY <2>2, <2>3 DEF TabIInv, WishesAreApart
  <2>5. QED
    BY <1>1, <1>3, <2>2, <2>4 DEF Stored
<1>4. CASE w.kind = "entry" /\ ~\E r \in rows : r.id = w.id
  <2>1. w \in Entries /\ w.wish \in Nat /\ w.form \in Form /\ w.id = w.wish
    BY <1>4 DEF TabIInv, TabTypeOK, WishesAreApart, Entries, Write
  <2> DEFINE s == [id |-> w.id, form |-> w.form, wish |-> w.wish]
  <2>2. Stored(w) = rows \cup {s}
    BY <1>4 DEF Stored
  <2>3. s \in [id : Nat, form : Form, wish : Nat] /\ s.id = w.wish /\ s.form = w.form /\ s.wish = w.wish
    BY <2>1
  <2>4. \A r \in rows : r.wish # w.wish
    BY <1>4, <2>1 DEF TabIInv, WishesAreApart
  <2> HIDE DEF s
  <2>5. QED
    BY <1>1, <1>4, <2>2, <2>3, <2>4
<1>5. QED
  BY <1>2, <1>3, <1>4

\* The server stores an entry under a new key and finds the row of a known one.
LEMMA AnswerWriteKeeps == ASSUME TabIInv, NEW w \in writes, AnswerWrite(w) PROVE TabIInv'
<1>1. /\ w \in Write /\ version \in Nat /\ w.answer = Pending
      /\ UNCHANGED <<token, sessions, valid, page, entry, loads, clicks, wish, saved>>
  BY DEF TabIInv, TabTypeOK, AnswerWrite, history
<1>2. PICK answer \in {Unauthorized, Failed} \cup {version'} :
        /\ writes' = (writes \ {w}) \cup {[w EXCEPT !.answer = answer]}
        /\ \/ UNCHANGED <<version, rows>> /\ answer \in {Unauthorized, Failed}
           \/ version' \in {version, version + 1} /\ rows' = Stored(w)
  <2>1. CASE w.session \notin valid /\ writes' = (writes \ {w}) \cup {[w EXCEPT !.answer = Unauthorized]}
              /\ UNCHANGED <<version, rows>>
    BY <2>1
  <2>2. CASE writes' = (writes \ {w}) \cup {[w EXCEPT !.answer = Failed]} /\ UNCHANGED <<version, rows>>
    BY <2>2
  <2>3. CASE /\ version' = IF w.kind = "ask" \/ version = MaxVersion THEN version ELSE version + 1
             /\ rows' = Stored(w)
             /\ \E answer \in {version', Failed} : writes' = (writes \ {w}) \cup {[w EXCEPT !.answer = answer]}
    BY <2>3
  <2>4. QED
    BY <2>1, <2>2, <2>3 DEF AnswerWrite
<1>3. version' \in Nat /\ version' >= version /\ answer \in Int
  BY <1>1, <1>2 DEF Failed, Unauthorized
<1> DEFINE v == [w EXCEPT !.answer = answer]
<1>4. /\ v \in Write /\ v.kind = w.kind /\ v.id = w.id /\ v.wish = w.wish /\ v.form = w.form
      /\ v.answer = answer
  BY <1>1, <1>3 DEF Write
<1>5. writes' = (writes \ {w}) \cup {v}
  BY <1>2
<1> HIDE DEF v
<1>6. LoadsAreCurrent' /\ ViewInOrder'
  BY <1>1, <1>3, ViewKept
<1>7. CASE UNCHANGED <<version, rows>> /\ answer \in {Unauthorized, Failed}
  <2>1. TabTypeOK'
    BY <1>1, <1>4, <1>5, <1>7 DEF TabIInv, TabTypeOK
  <2>2. Forgets /\ Follows
    BY <1>1, <1>4, <1>5, <1>7 DEF Forgets, Follows, Failed, Unauthorized
  <2>3. WishInv'
    BY <1>1, <1>7, <2>2, WishesKept
  <2>4. QED
    BY <1>6, <2>1, <2>3 DEF TabIInv, WishInv
<1>8. CASE rows' = Stored(w)
  <2>1. TabTypeOK'
    BY <1>1, <1>3, <1>4, <1>5, <1>8, StoredRows DEF TabIInv, TabTypeOK
  <2>2. KeyIsWish'
    BY <1>1 DEF TabIInv, KeyIsWish
  <2>3. \A n \in Nat, f \in Form : Asked(n, f)' => Asked(n, f)
    BY <1>1, <1>4, <1>5, <1>8, StoredRows DEF Asked, Entries
  <2>4. WishesAreApart'
    <3>1. \A u \in Entries' : u.id = u.wish /\ u.wish <= wish' /\ u.form \in Form
      BY <1>1, <1>4, <1>5 DEF TabIInv, WishesAreApart, Entries
    <3>2. \A r \in rows' : r.id = r.wish /\ r.wish <= wish'
      BY <1>1, <1>8, StoredRows DEF TabIInv, WishesAreApart, Entries
    <3>3. \A n \in Nat : \A f, g \in Form : Asked(n, f)' /\ Asked(n, g)' => f = g
      BY <2>3 DEF TabIInv, WishesAreApart
    <3>4. QED
      BY <3>1, <3>2, <3>3 DEF WishesAreApart
  <2>5. AnsweredIsStored'
    BY <1>4, <1>5, <1>8, StoredRows DEF TabIInv, AnsweredIsStored, Entries
  <2>6. EntryExactlyOnce'
    BY <1>1, <1>8, StoredRows DEF TabIInv, EntryExactlyOnce
  <2>7. QED
    BY <1>6, <2>1, <2>2, <2>4, <2>5, <2>6 DEF TabIInv
<1>9. QED
  BY <1>2, <1>7, <1>8
\* A handler tells the user what its request was told.
LEMMA SettleKeeps == ASSUME TabIInv, NEW w \in writes, Settle(w) PROVE TabIInv'
<1>1. /\ w \in Write /\ page \in PageState /\ entry \in EntryState /\ version \in Nat /\ w.answer \in Int
      /\ writes' = writes \ {w} /\ UNCHANGED <<server, clicks, wish>>
  BY DEF TabIInv, TabTypeOK, Settle, Write
<1>2. Follows
  BY <1>1 DEF Follows
<1>3. CASE Logout /\ UNCHANGED saved
  <2>1. token' = 0 /\ page' = Mounted /\ entry' = NewEntry /\ loads' = {}
    BY <1>3, LogoutEnds
  <2>2. TabTypeOK'
    BY <1>1, <1>3, <2>1, MountedTypes DEF TabIInv, TabTypeOK, server
  <2>3. Forgets
    BY <2>1 DEF Forgets
  <2>4. WishInv'
    BY <1>1, <1>2, <1>3, <2>3, WishesKept DEF server
  <2>5. LoadsAreCurrent' /\ ViewInOrder'
    BY <2>1, <2>2, EmptyView DEF TabTypeOK
  <2>6. QED
    BY <2>2, <2>4, <2>5 DEF TabIInv, WishInv
<1>4. ASSUME UNCHANGED <<token, page, loads, saved>>,
             entry' = entry \/ entry' = [entry EXCEPT !.busy = FALSE]
      PROVE  TabIInv'
  <2>1. entry' \in EntryState /\ entry'.key = entry.key /\ entry'.tried = entry.tried
    BY <1>1, <1>4 DEF EntryState
  <2>2. TabTypeOK'
    BY <1>1, <1>4, <2>1 DEF TabIInv, TabTypeOK, server
  <2>3. Forgets
    BY <2>1 DEF Forgets
  <2>4. WishInv'
    BY <1>1, <1>2, <1>4, <2>3, WishesKept DEF server
  <2>5. version' = version /\ version' \in Nat /\ version' >= version
    BY <1>1 DEF server
  <2>6. LoadsAreCurrent' /\ ViewInOrder'
    BY <1>4, <2>5, ViewKept
  <2>7. QED
    BY <2>2, <2>4, <2>6 DEF TabIInv, WishInv
<1>5. CASE /\ w.answer >= 0 /\ w.session = token
           /\ entry' = CASE w.kind = "entry" -> NewEntry
                      [] w.kind = "import" -> [entry EXCEPT !.busy = FALSE]
                      [] OTHER -> entry
           /\ saved' = IF w.kind = "entry" THEN saved \cup {[wish |-> w.wish, form |-> w.form]} ELSE saved
           /\ page' = CASE w.kind \in {"entry", "import", "save"} -> Changed(page, w.answer)
                     [] w.kind = "mark" -> Refreshed(page)
                     [] w.kind = "ask" -> page
           /\ UNCHANGED <<token, loads>>
  <2>1. entry' \in EntryState /\ Forgets
    <3>1. CASE w.kind = "entry"
      BY <1>5, <3>1, MountedTypes DEF Forgets
    <3>2. CASE w.kind = "import"
      BY <1>1, <1>5, <3>2 DEF Forgets, EntryState
    <3>3. CASE w.kind \notin {"entry", "import"}
      BY <1>1, <1>5, <3>3 DEF Forgets
    <3>4. QED
      BY <3>1, <3>2, <3>3
  <2>2. page' \in PageState /\ page'.recent = page.recent /\ page'.summary = page.summary
    <3>1. Refreshed(page) \in PageState /\ Refreshed(page).recent = page.recent
          /\ Refreshed(page).summary = page.summary
      BY <1>1 DEF Refreshed, PageState
    <3>2. Changed(page, w.answer) \in PageState /\ Changed(page, w.answer).recent = page.recent
          /\ Changed(page, w.answer).summary = page.summary
      <4>1. FollowTicks \in Nat
        BY TabNumbers
      <4> HIDE DEF Refreshed
      <4>2. QED
        BY <1>1, <3>1, <4>1 DEF Changed, PageState
    <3>3. w.kind \in {"entry", "import", "save", "mark", "ask"}
      BY <1>1 DEF Write
    <3>4. QED
      BY <1>1, <1>5, <3>1, <3>2, <3>3
  <2>3. version' = version /\ version' \in Nat /\ version' >= version /\ rows' = rows
    BY <1>1 DEF server
  <2>4. LoadsAreCurrent' /\ ViewInOrder'
    BY <1>5, <2>2, <2>3, ViewKept
  <2>5. saved' \subseteq [wish : Nat, form : Form]
    BY <1>1, <1>5 DEF TabIInv, TabTypeOK, WishesAreApart, Entries, Write
  <2>6. TabTypeOK'
    BY <1>1, <1>5, <2>1, <2>2, <2>5 DEF TabIInv, TabTypeOK, server
  <2>7. \A a \in saved' : \E r \in rows' : r.wish = a.wish /\ r.form = a.form
    <3>1. w.kind = "entry" => \E r \in rows : r.wish = w.wish /\ r.form = w.form
      BY <1>5 DEF TabIInv, AnsweredIsStored, Entries
    <3>2. QED
      BY <1>5, <2>3, <3>1 DEF TabIInv, EntryExactlyOnce
  <2>8. WishInv'
    <3>1. KeyIsWish' /\ WishesAreApart' /\ AnsweredIsStored'
      BY <1>1, <1>2, <2>1, WishesFollow DEF server
    <3>2. EntryExactlyOnce'
      BY <2>3, <2>7 DEF TabIInv, EntryExactlyOnce
    <3>3. QED
      BY <3>1, <3>2 DEF WishInv
  <2>9. QED
    BY <2>4, <2>6, <2>8 DEF TabIInv, WishInv
<1>6. QED
  BY <1>3, <1>4, <1>5 DEF Settle

\* Every step keeps the invariant of the tab.
LEMMA TabStep == TabIInv /\ [TabNext]_tabVars => TabIInv'
<1> SUFFICES ASSUME TabIInv, [TabNext]_tabVars PROVE TabIInv'
  OBVIOUS
<1>1. CASE UNCHANGED tabVars
  <2>1. page \in PageState /\ clicks \in Nat
    BY DEF TabIInv, TabTypeOK
  <2>2. QED
    BY <1>1, <2>1, DashboardKeeps DEF tabVars
<1>2. CASE ImportFile \/ SaveCategory \/ MarkAlert \/ AskAssistant
  BY <1>2, PressKeeps DEF ImportFile, SaveCategory, MarkAlert, AskAssistant
<1>3. CASE RunEffects \/ \E period \in {"weekly", "monthly"} : ChoosePeriod(period)
  BY <1>3, EffectStepsKeep DEF Period
<1>4. CASE ClickRefresh \/ \E visible \in BOOLEAN : FollowTick(visible)
  BY <1>4, RefreshesKeep
<1>5. QED
  BY <1>1, <1>2, <1>3, <1>4, AuthenticateKeeps, ClickLogoutKeeps, ReloadKeeps, ServerKeeps,
     AnswerStepsKeep, ArriveKeeps, SubmitKeeps, AnswerWriteKeeps, SettleKeeps DEF TabNext

\* The invariant holds throughout every behaviour of the tab.
THEOREM TabInvariant == TabSpec => []TabIInv
BY InitTabIInv, TabStep, PTL DEF TabSpec

(***************************************************************************)
(* TransactionEntry keeps its id while the form stays the same: whatever   *)
(* answers are lost and however often the user tries again, reloads or     *)
(* logs in anew, a wish has one row at most, and one if it is said to be   *)
(* saved.                                                                  *)
(***************************************************************************)
THEOREM EntriesAreSavedOnce == TabSpec => []EntryExactlyOnce
<1>1. TabIInv => EntryExactlyOnce
  BY DEF TabIInv
<1>2. QED
  BY <1>1, TabInvariant, PTL

(***************************************************************************)
(* The cleanup of Dashboard's effects sets `cancelled': no load outlives   *)
(* its session, so that no 401 of an old one ends the new.                 *)
(***************************************************************************)
THEOREM OldLoadsAreHarmless == TabSpec => OldLoadsEndNoSession
<1> DEFINE A == \A l \in loads : l.session # token /\ l \notin loads' => token' = token
<1>1. TabIInv => A
  BY DEF TabIInv, LoadsAreCurrent
<1>2. TabIInv /\ [TabNext]_tabVars => [A]_tabVars
  BY <1>1
<1>3. QED
  BY TabInvariant, <1>2, PTL DEF TabSpec, OldLoadsEndNoSession
\* A step mounts the page, leaves what it shows alone, or shows what a load has brought.
LEMMA ViewSteps ==
  ASSUME TabIInv, TabNext
  PROVE  \/ page' = Mounted
         \/ page'.recent = page.recent /\ page'.summary = page.summary
         \/ \E l \in loads : /\ l.first # Pending /\ Unauthorized \notin {l.first, l.second}
                             /\ page' = Shown(l)
<1>1. page \in PageState
  BY DEF TabIInv, TabTypeOK
<1>2. /\ Refreshed(page).recent = page.recent /\ Refreshed(page).summary = page.summary
      /\ Refreshed(page) \in PageState
  BY <1>1 DEF Refreshed, PageState
<1>3. CASE Authenticate \/ ClickLogout \/ Reload
  BY <1>3 DEF Authenticate, ClickLogout, Reload, Logout
<1>4. CASE ServerChange \/ (\E s \in valid : Expire(s)) \/ (\E form \in Form : Submit(form))
           \/ ImportFile \/ SaveCategory \/ MarkAlert \/ AskAssistant \/ \E w \in writes : AnswerWrite(w)
  BY <1>4 DEF ServerChange, Expire, Submit, ImportFile, SaveCategory, MarkAlert, AskAssistant, Press, AnswerWrite
<1>5. CASE \E l \in loads : \E answer \in {Reading(l), Later, Failed, Unauthorized} :
             AnswerFirst(l, answer) \/ AnswerSecond(l, answer)
  BY <1>5 DEF AnswerFirst, AnswerSecond
<1>6. ASSUME NEW visible \in BOOLEAN, FollowTick(visible)
      PROVE  page'.recent = page.recent /\ page'.summary = page.summary
  <2> DEFINE p == IF visible THEN Refreshed(page) ELSE page
  <2>1. p \in PageState /\ p.recent = page.recent /\ p.summary = page.summary
    BY <1>1, <1>2
  <2>2. page' = [p EXCEPT !.follow = @ - 1]
    BY <1>6 DEF FollowTick
  <2> HIDE DEF p
  <2>3. QED
    BY <2>1, <2>2 DEF PageState
<1>7. CASE RunEffects \/ ClickRefresh \/ \E period \in {"weekly", "monthly"} : ChoosePeriod(period)
  BY <1>1, <1>2, <1>7 DEF RunEffects, ClickRefresh, ChoosePeriod, PageState
<1>8. CASE \E l \in loads : Arrive(l)
  BY <1>8 DEF Arrive
<1>9. CASE \E w \in writes : Settle(w)
  <2>1. PICK w \in writes : Settle(w)
    BY <1>9
  <2>2. w \in Write
    BY DEF TabIInv, TabTypeOK
  <2>3. w.kind \in {"entry", "import", "save", "mark", "ask"}
    BY <2>2 DEF Write
  <2>4. Changed(page, w.answer).recent = page.recent /\ Changed(page, w.answer).summary = page.summary
    <3> HIDE DEF Refreshed
    <3>1. QED
      BY <1>2 DEF Changed, PageState
  <2>5. page' \in {Mounted, page, Changed(page, w.answer), Refreshed(page)}
    BY <2>1, <2>3 DEF Settle, Logout
  <2>6. QED
    BY <1>2, <2>4, <2>5
<1>10. QED
  BY <1>3, <1>4, <1>5, <1>6, <1>7, <1>8, <1>9 DEF TabNext

(***************************************************************************)
(* Effects that start anew cancel the ones before, so that an effect never *)
(* has two loads under way, and a slow one never replaces what a newer one *)
(* has shown.                                                              *)
(***************************************************************************)
THEOREM ViewMovesOn == TabSpec => ViewNeverGoesBack
<1> DEFINE A == token' = token /\ page'.ack >= page.ack /\ page'.recent # Pending /\ page'.summary # Pending =>
                  /\ page'.recent >= page.recent \/ page'.recent = Failed
                  /\ page'.summary >= page.summary \/ page'.summary = Failed
<1>1. ASSUME TabIInv, TabNext PROVE A
  <2>1. page.recent \in Int /\ page.summary \in Int
    BY <1>1 DEF TabIInv, TabTypeOK, PageState
  <2>2. CASE page' = Mounted
    BY <2>2, MountedTypes
  <2>3. CASE page'.recent = page.recent /\ page'.summary = page.summary
    BY <2>1, <2>3
  <2>4. ASSUME NEW l \in loads, l.first # Pending, Unauthorized \notin {l.first, l.second}, page' = Shown(l)
        PROVE  A
    <3>1. l.first \in Int /\ (l.first >= 0 \/ l.first = Failed)
      BY <1>1, <2>4 DEF TabIInv, TabTypeOK, Load, LoadsAreCurrent, ViewInOrder, Failed, Unauthorized, Pending
    <3>2. QED
      BY <1>1, <2>1, <2>4, <3>1, ShownIsNewer DEF TabIInv, ViewInOrder
  <2>5. QED
    BY <1>1, <2>2, <2>3, <2>4, ViewSteps
<1>2. TabIInv /\ [TabNext]_tabVars => [A]_<<token, page>>
  BY <1>1 DEF tabVars
<1>3. QED
  BY TabInvariant, <1>2, PTL DEF TabSpec, ViewNeverGoesBack

==============================================================================
