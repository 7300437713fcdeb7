------------------------------- MODULE Reports -------------------------------
(***************************************************************************)
(* Reading the ledger: the insights summary and trends, the assistant's    *)
(* retrieval, the transaction pages and the budget rule.  Each of these is *)
(* a series of SELECTs at READ COMMITTED, so rows may be added, enriched   *)
(* and recategorized between two of them; a page or a total is what its    *)
(* own statement saw.                                                      *)
(*                                                                         *)
(* An aggregate is represented by the set of rows it aggregates, a time by *)
(* a number; a millisecond, a day and a week are Ms, Day and Week numbers  *)
(* long, and months begin at MonthStarts.                                  *)
(***************************************************************************)
EXTENDS Integers, Sequences, SequencesExt, FiniteSetsExt

CONSTANTS Tx,           \* ids of ledger rows, in their order
          Row,          \* the rows: account, at, amount, currency, and what the classifier says of them
          Accounts,     \* the accounts, oldest first: id, owner, currency
          Me,           \* the user who asks
          AskedAccount, AskedCurrency,  \* what requests may ask for, None for all
          Category,
          None,         \* no category, no filter, no period
          Ms, Day, Week, MonthStarts,  \* the first month start is also that of the year
          FirstNow, MaxTime,  \* bound the time of the requests
          MaxCorrections,     \* bounds the corrections
          PageSize, MaxPages,
          MaxPeriods,   \* points of a trend (24 in the code)
          LargestLimit, \* rows of largest_outflows
          BudgetLimit   \* BUDGET_MONTHLY_LIMIT

ASSUME ReportsAssumption ==
  /\ Tx \subseteq Nat
  /\ {Ms, Day, Week, PageSize, MaxPages, MaxPeriods, LargestLimit, BudgetLimit} \subseteq Nat \ {0}
  /\ Day % Ms = 0 /\ Week % Day = 0
  /\ {FirstNow, MaxTime} \subseteq Nat
ASSUME MonthAssumption ==
  /\ \A m \in MonthStarts : m \in Nat /\ m % Day = 0
  /\ Cardinality({m \in MonthStarts : m <= FirstNow}) > MaxPeriods
ASSUME NoneAssumption ==
  /\ None \notin Category /\ None \notin Tx
  /\ None \notin {"list", "trends", "summary", "dashboard", "chat", "chat with largest"}
ASSUME RowAssumption ==
  \A t \in Tx :
    /\ Row[t].at \in Nat /\ Row[t].amount \in Int /\ Row[t].classified \in Category
    /\ \E i \in DOMAIN Accounts : Accounts[i].id = Row[t].account
    /\ \E m \in MonthStarts : m <= Row[t].at

VARIABLES now,        \* the time, of which a request takes note as it begins
          committed,  \* rows in the ledger
          category,   \* category_slug of every row
          event,      \* the category in a row's transaction.categorized, None before it exists
          handled,    \* rows whose event the notifications service has handled
          alerts,     \* dedupe keys of budget alerts
          late,       \* history: rows categorized after a later one of their budget was handled
          corrected,  \* history: rows the user has recategorized
          reader,     \* the request being answered
          before,     \* history: the rows that were there when it began
          moved       \* history: rows whose category has changed since

ledgerVars == <<committed, category, event, handled, alerts, late, corrected>>
vars == <<now, ledgerVars, reader, before, moved>>

-----------------------------------------------------------------------------
(* Calendar. *)

month_start(when) == Max({m \in MonthStarts : m <= when})
previous_month_start(when) == month_start(month_start(when) - Day)
week_start(when) == when - (when % Week)

\* The month after the one that begins at m, or later than any time looked at.
NextMonth(m) == Min({n \in MonthStarts : n > m} \cup {MaxTime + Week})

\* Start of the period that ends at the reference time.
PeriodStart(period, reference) ==
  IF period = "weekly" THEN week_start(reference) ELSE month_start(reference)

period_bounds(period, reference) == [from |-> PeriodStart(period, reference), to |-> reference]

\* Mutant: the window before ends a day too early.
GappedBounds(period, start) ==
  [from |-> IF period = "weekly" THEN start - Week ELSE previous_month_start(start), to |-> start - Day]

\* The comparison window; both of its ends are inclusive, like those of every window.
previous_bounds(period, start) ==
  [from |-> IF period = "weekly" THEN start - Week ELSE previous_month_start(start), to |-> start]

\* What a question may say about time.  The last one is recognized as explicit but not parsed.
Mention == {"last month", "last week", "this week", "this year", "last day", "named month", "last year"}

\* The window of a question, for a mention and the month it names.
parse_period(mention, m) ==
  CASE mention = "last month"  -> [from |-> previous_month_start(now), to |-> month_start(now)]
    [] mention = "last week"   -> [from |-> week_start(now) - Week, to |-> week_start(now)]
    [] mention = "this week"   -> [from |-> week_start(now), to |-> now]
    [] mention = "this year"   -> [from |-> Min(MonthStarts), to |-> now]
    [] mention = "last day"    -> [from |-> now - Day, to |-> now]
    [] mention = "named month" -> [from |-> m, to |-> Min({NextMonth(m), now})]
    [] OTHER                   -> [from |-> month_start(now), to |-> now]

\* A follow-up without a period of its own inherits the last one the user mentioned.
AskedPeriod(mention, followUp, heard, m) ==
  parse_period(IF mention = None /\ followUp THEN heard ELSE mention, m)

-----------------------------------------------------------------------------
(* Scope: whose rows, and in which currency. *)

AccountIds(user) == {Accounts[i].id : i \in {j \in DOMAIN Accounts : Accounts[j].owner = user}}
OwnerOf(a) == LET i == CHOOSE j \in DOMAIN Accounts : Accounts[j].id = a IN Accounts[i].owner

\* _account_ids: one account of the user's, nothing of somebody else's, or all of the user's.
ScopeOf(a) == IF a = None THEN AccountIds(Me) ELSE {a} \cap AccountIds(Me)

\* The currency most of the accounts are held in; the oldest account breaks ties.
primary_currency(ids) ==
  LET held == {i \in DOMAIN Accounts : Accounts[i].id \in ids}
      Count(i) == Cardinality({j \in held : Accounts[j].currency = Accounts[i].currency})
  IN  IF held = {} THEN "USD"
      ELSE Accounts[Min({i \in held : \A j \in held : Count(i) >= Count(j)})].currency

resolve_currency(ids, requested) == IF requested = None THEN primary_currency(ids) ELSE requested

-----------------------------------------------------------------------------
(* Statements. *)

InWindow(t, w) == w.from <= Row[t].at /\ Row[t].at <= w.to

\* _base_query
Selected(ids, w, cat) ==
  {t \in committed : Row[t].account \in ids /\ InWindow(t, w) /\ cat \in {None, category[t]}}

Outflows(ids, w, cat) == {t \in Selected(ids, w, cat) : Row[t].amount < 0}

Spend(rows) == MapThenSumSet(LAMBDA t : -Row[t].amount, rows)

\* The rows that spend_by_category adds up.
spend_by_category(ids, w, currency) == {t \in Outflows(ids, w, None) : Row[t].currency = currency}

\* Mutant: only rows that are categorized.
CategorizedCurrencies(ids, w) == {Row[t].currency : t \in {u \in Outflows(ids, w, None) : category[u] # None}}

spend_currencies(ids, w) == {Row[t].currency : t \in Outflows(ids, w, None)}

Newest(t, u) == Row[t].at > Row[u].at \/ (Row[t].at = Row[u].at /\ t > u)

Larger(t, u) ==
  \/ Row[t].amount < Row[u].amount
  \/ Row[t].amount = Row[u].amount /\ Row[t].at > Row[u].at
  \/ Row[t].amount = Row[u].amount /\ Row[t].at = Row[u].at /\ t < u

NewestFirst == {p \in Tx \X Tx : Newest(p[1], p[2])}
LargestFirst == {p \in Tx \X Tx : Larger(p[1], p[2])}

\* ORDER BY: the rows in an order, which is a set of pairs.
Sorted(rows, order) ==
  CHOOSE s \in SetToSeqs(rows) : \A i, j \in DOMAIN s : i < j => <<s[i], s[j]>> \in order

FirstRows(rows, n) == SubSeq(rows, 1, Min({n, Len(rows)}))

largest_outflows(ids, w, currency, cat) ==
  FirstRows(Sorted({t \in Outflows(ids, w, cat) : Row[t].currency = currency}, LargestFirst), LargestLimit)

\* Mutant: the cursor compares the time alone.
AfterTimeOnly(t, cursor) == cursor = None \/ Row[t].at < Row[cursor].at

AfterCursor(t, cursor) == cursor = None \/ Newest(cursor, t)

\* list_page: up to `limit` rows after the cursor, and one more to know whether to go on.
list_page(ids, w, cat, cursor) ==
  LET rows == FirstRows(Sorted({t \in Selected(ids, w, cat) : AfterCursor(t, cursor)}, NewestFirst), PageSize + 1)
      page == FirstRows(rows, PageSize)
  IN  [items |-> page, next |-> IF Len(rows) > PageSize THEN page[PageSize] ELSE None]

-----------------------------------------------------------------------------
(* The ledger changes. *)

\* No answer, or one without figures.
Silence == [about |-> "nothing", rows |-> {}, others |-> {}]

Idle == [pc |-> "idle", kind |-> None, period |-> None, ids |-> {}, currency |-> None, cat |-> None,
         todo |-> <<>>, got |-> <<>>, focus |-> {}, window |-> [from |-> 0, to |-> 0],
         asOf |-> 0, items |-> <<>>, cursor |-> None, page |-> 0, says |-> Silence]

\* Requests and the handling of events read the same rows and nothing of each other's.  To bound
\* the model they are explored apart: no request while events are handled.
Away == [Idle EXCEPT !.pc = "away"]

Init ==
  /\ now \in FirstNow..MaxTime
  /\ committed = {}
  /\ category = [t \in Tx |-> None]
  /\ event = [t \in Tx |-> None]
  /\ handled = {}
  /\ alerts = {}
  /\ late = {}
  /\ corrected = {}
  /\ reader \in {Idle, Away}
  /\ before = {}
  /\ moved = {}

\* POST /transactions or an import commits a row; the date it carries may be any.
Commit(t) ==
  /\ t \notin committed
  /\ committed' = committed \cup {t}
  /\ UNCHANGED <<now, category, event, handled, alerts, late, corrected, reader, before, moved>>

\* The alert of a row: one per user, currency, category and month.
BudgetKey(t, c) == <<OwnerOf(Row[t].account), Row[t].currency, c, month_start(Row[t].at)>>

\* The worker categorizes the row, unless the user has, and its event is on its way.
Enrich(t) ==
  LET c == IF category[t] = None THEN Row[t].classified ELSE category[t]
  IN  /\ t \in committed /\ event[t] = None
      /\ category' = [category EXCEPT ![t] = c]
      /\ event' = [event EXCEPT ![t] = c]
      /\ late' = IF \E u \in handled : BudgetKey(u, event[u]) = BudgetKey(t, c) /\ Row[u].at > Row[t].at
                 THEN late \cup {t} ELSE late
      /\ moved' = IF category[t] = c THEN moved ELSE moved \cup {t}
      /\ UNCHANGED <<now, committed, handled, alerts, corrected, reader, before>>

\* PATCH of the category.
Correct(t, c) ==
  /\ t \in committed \ corrected /\ category[t] # c
  /\ Cardinality(corrected) < MaxCorrections
  /\ category' = [category EXCEPT ![t] = c]
  /\ corrected' = corrected \cup {t}
  /\ moved' = moved \cup {t}
  /\ UNCHANGED <<now, committed, event, handled, alerts, late, reader, before>>

\* Mutant: the sum of the month has to exceed the limit.
MonthToDateExceeds(t) ==
  Spend({u \in spend_by_category(AccountIds(OwnerOf(Row[t].account)),
                                 [from |-> month_start(Row[t].at), to |-> Row[t].at], Row[t].currency) :
           category[u] = event[t]}) > BudgetLimit

\* _category_spend_this_month against the limit: the spending of the event's category, up to its time.
OverBudget(t) ==
  Spend({u \in spend_by_category(AccountIds(OwnerOf(Row[t].account)),
                                 [from |-> month_start(Row[t].at), to |-> Row[t].at], Row[t].currency) :
           category[u] = event[t]}) >= BudgetLimit

\* The notifications service handles the row's event, perhaps again.
Handle(t) ==
  /\ event[t] # None /\ reader = Away
  /\ handled' = handled \cup {t}
  /\ alerts' = IF OverBudget(t) THEN alerts \cup {BudgetKey(t, event[t])} ELSE alerts
  /\ UNCHANGED <<now, committed, category, event, late, corrected, reader, before, moved>>

-----------------------------------------------------------------------------
(* Requests. *)

Begin(kind, period, ids, currency, cat, w, todo) ==
  /\ reader.pc = "idle"
  /\ reader' = [Idle EXCEPT !.pc = IF todo = <<>> THEN "listing" ELSE "reading", !.kind = kind, !.period = period,
                            !.ids = ids, !.currency = currency, !.cat = cat, !.window = w, !.todo = todo,
                            !.asOf = IF kind = "dashboard" THEN now ELSE 0]
  /\ before' = committed
  /\ moved' = {}
  /\ UNCHANGED <<now, ledgerVars>>

\* build_summary_aggregates: the totals, the currencies left out, the totals of the window before.
Summarize(kind, period, ids, requested, reference) ==
  LET w == period_bounds(period, reference)
  IN  Begin(kind, period, ids, resolve_currency(ids, requested), None, w,
            << [op |-> "spend", w |-> w], [op |-> "currencies", w |-> w],
               [op |-> "spend", w |-> previous_bounds(period, w.from)] >>)

\* GET /insights/summary; as_of may not be in the future.
GetSummary(period, a, requested, asOf) ==
  asOf <= now /\ Summarize("summary", period, ScopeOf(a), requested, asOf)

\* The dashboard loads a period: its summary, then the pages of the summary's window.
LoadPeriod(period) == Summarize("dashboard", period, AccountIds(Me), None, now)

\* The windows of build_trends, newest first: every one ends where the next begins.
TrendWindows(period, n) ==
  LET W[i \in 1..n] == IF i = 1 THEN period_bounds(period, now) ELSE previous_bounds(period, W[i - 1].from)
  IN  W

\* GET /insights/trends
GetTrends(period, a, requested, n) ==
  LET ids == ScopeOf(a)
      ws == TrendWindows(period, n)
  IN  Begin("trends", period, ids, resolve_currency(ids, requested), None, [from |-> ws[n].from, to |-> now],
            [i \in 1..n |-> [op |-> "spend", w |-> ws[i]]])

\* retrieve() of a chat: totals, for a category also those of the span before, the largest rows.
Retrieve(mention, followUp, heard, m, requested, cat, wantsLargest) ==
  LET w == AskedPeriod(mention, followUp, heard, m)
      ids == AccountIds(Me)
      prior == [from |-> w.from - (w.to - w.from), to |-> w.from]
  IN  /\ m \in MonthStarts /\ m <= now
      /\ Begin(IF wantsLargest THEN "chat with largest" ELSE "chat", None, ids, resolve_currency(ids, requested), cat, w,
               << [op |-> "spend", w |-> w], [op |-> "currencies", w |-> w] >>
               \o (IF cat # None THEN << [op |-> "spend", w |-> prior] >> ELSE <<>>)
               \o (IF wantsLargest THEN << [op |-> "largest", w |-> w] >> ELSE <<>>))

\* GET /transactions, page by page, of an account or a category.  An account of somebody else's is a 404.
ListTransactions(a, cat) ==
  /\ a \in AccountIds(Me) \cup {None}
  /\ Begin("list", None, ScopeOf(a), None, cat, [from |-> 0, to |-> MaxTime + Week], <<>>)

\* What one statement returns.
Answer(q) ==
  CASE q.op = "spend"      -> spend_by_category(reader.ids, q.w, reader.currency)
    [] q.op = "currencies" -> spend_currencies(reader.ids, q.w)
    [] q.op = "largest"    -> largest_outflows(reader.ids, q.w, reader.currency, reader.cat)

Chats == {"chat", "chat with largest"}

\* Where a request goes after its last statement.
AfterReading ==
  IF reader.kind = "dashboard" THEN "listing" ELSE IF reader.kind \in Chats THEN "answering" ELSE "done"

\* The next statement runs; of the first total, a chat keeps the rows of the category asked for.
Query ==
  LET answer == Answer(Head(reader.todo)) IN
  /\ reader.pc = "reading"
  /\ reader' = [reader EXCEPT
       !.got = Append(@, answer),
       !.focus = IF reader.got = <<>> THEN {t \in answer : category[t] = reader.cat} ELSE @,
       !.todo = Tail(@),
       !.pc = IF Len(reader.todo) > 1 THEN "reading" ELSE AfterReading]
  /\ UNCHANGED <<now, ledgerVars, before, moved>>

\* The context's largest rows, and whether it has data.
Largest == IF reader.kind = "chat with largest" THEN Last(reader.got) ELSE <<>>
HasData == reader.got[1] # {} \/ Largest # <<>>

\* with_currency_scope: the other currencies there was spending in.
OtherCurrencies == reader.got[2] \ {reader.currency}

\* _build_answer: what is said, and the rows whose amounts are quoted or summed up.
Draft ==
  CASE ~HasData          -> [about |-> "no spending", rows |-> {}]
    [] Largest # <<>>    -> [about |-> "largest", rows |-> ToSet(FirstRows(Largest, 3))]
    [] HasData /\ Largest = <<>> /\ reader.cat # None ->
         [about |-> IF reader.focus = {} THEN "no spending" ELSE "category", rows |-> reader.focus]
    [] OTHER             -> [about |-> "total", rows |-> reader.got[1]]

\* build_answer: a greeting or a call for help is answered without figures.
build_answer(greeting) ==
  IF greeting THEN Silence
  ELSE [about |-> Draft.about, rows |-> Draft.rows, others |-> OtherCurrencies]

\* The chat's answer is put together; nothing is kept of the figures.
Reply(greeting) ==
  /\ reader.pc = "answering"
  /\ reader' = [reader EXCEPT !.pc = "done", !.got = <<>>, !.focus = {}, !.says = build_answer(greeting)]
  /\ UNCHANGED <<now, ledgerVars, before, moved>>

\* A Date of JavaScript counts milliseconds.
ToDate(time) == time - (time % Ms)

\* The summary is not to be had: the browser's own clock bounds the pages.
SummaryFails ==
  /\ reader.pc = "reading" /\ reader.kind = "dashboard"
  /\ LET asOf == ToDate(reader.asOf)
     IN  reader' = [reader EXCEPT !.pc = "listing", !.kind = "list", !.todo = <<>>, !.got = <<>>,
                                  !.window = [from |-> PeriodStart(reader.period, asOf), to |-> asOf]]
  /\ UNCHANGED <<now, ledgerVars, before, moved>>

\* Mutant: the bounds of the summary go through a Date.
WindowThroughDate == [from |-> ToDate(reader.window.from), to |-> ToDate(reader.window.to)]

\* The bounds of the summary are passed on as the strings they came as.
ListedWindow == reader.window

\* One round of getPeriodTransactions.
Page ==
  LET result == list_page(reader.ids, ListedWindow, reader.cat, reader.cursor)
      last == result.next = None \/ reader.page + 1 = MaxPages
  IN  /\ reader.pc = "listing"
      /\ reader' = [reader EXCEPT !.items = @ \o result.items, !.cursor = result.next, !.page = @ + 1,
                                  !.pc = IF last THEN "done" ELSE "listing"]
      /\ UNCHANGED <<now, ledgerVars, before, moved>>

Finish ==
  /\ reader.pc = "done"
  /\ reader' = Idle
  /\ before' = {}
  /\ moved' = {}
  /\ UNCHANGED <<now, ledgerVars>>

Request ==
  /\ reader.pc = "idle"
  /\ \/ \E period \in {"weekly", "monthly"} :
          \/ LoadPeriod(period)
          \/ \E a \in AskedAccount, requested \in AskedCurrency :
               \/ \E asOf \in (now - Day)..now : GetSummary(period, a, requested, asOf)
               \/ \E n \in 1..MaxPeriods : GetTrends(period, a, requested, n)
     \/ \E mention, heard \in Mention \cup {None}, followUp, wantsLargest \in BOOLEAN,
          m \in MonthStarts, requested \in AskedCurrency, cat \in Category \cup {None} :
         Retrieve(mention, followUp, heard, m, requested, cat, wantsLargest)
     \/ \E a \in AskedAccount, cat \in Category \cup {None} : ListTransactions(a, cat)

Next ==
  \/ \E t \in Tx : Commit(t) \/ Enrich(t) \/ Handle(t) \/ \E c \in Category : Correct(t, c)
  \/ Request \/ Query \/ SummaryFails \/ Page \/ Finish
  \/ \E greeting \in BOOLEAN : Reply(greeting)

Spec == Init /\ [][Next]_vars

-----------------------------------------------------------------------------
(* Properties. *)

\* The rows in scope that were there when the request began and have kept their category.
Steady(w, cat) ==
  {t \in before : /\ Row[t].account \in reader.ids /\ w.from <= Row[t].at /\ Row[t].at <= w.to
                  /\ cat = None \/ (t \notin moved /\ category[t] = cat)}

\* How far the pages have come: everything, or down to the row of the cursor.
Reached(t) == reader.cursor = None \/ ~Newest(reader.cursor, t)

(***************************************************************************)
(* list_page and the loop of getPeriodTransactions: whatever is added or   *)
(* recategorized meanwhile, and also when rows share their time, the pages *)
(* are in order, show no row twice and miss none that was there all along. *)
(***************************************************************************)
PagesComplete ==
  /\ \A i, j \in DOMAIN reader.items : i < j => Newest(reader.items[i], reader.items[j])
  /\ reader.pc = "done" /\ reader.kind \in {"list", "dashboard"} =>
       \A t \in Steady(ListedWindow, reader.cat) : Reached(t) => t \in ToSet(reader.items)

(***************************************************************************)
(* MetricsRow: "Every money figure covers the same window".  Every row in  *)
(* the dashboard's total is also among the transactions loaded for it, as  *)
(* far down as these were loaded.                                          *)
(***************************************************************************)
TotalsAreListed ==
  reader.pc = "done" /\ reader.kind = "dashboard" =>
    \A t \in reader.got[1] : Reached(t) => t \in ToSet(reader.items)

(***************************************************************************)
(* build_summary_aggregates and build_answer: no spending of the window    *)
(* that was there goes unmentioned, although totals and currencies come    *)
(* from different statements.  It is in a summary's total; a chat's answer  *)
(* sums it up, quotes it, or quotes only rows that are larger; or else its *)
(* currency is named as left out; an answer that there was none is true.   *)
(* Rows committed after the request began may be in one statement and not  *)
(* in the next, and nothing is said of them.                               *)
(***************************************************************************)
SpendingAccountedFor ==
  /\ reader.kind \in {"summary", "dashboard"} /\ Len(reader.got) >= 2 =>
       \A t \in Steady(reader.window, None) :
         Row[t].amount < 0 => t \in reader.got[1] \/ Row[t].currency \in reader.got[2] \ {reader.currency}
  /\ reader.kind \in Chats /\ reader.says # Silence =>
       \A t \in Steady(reader.window, None) :
         /\ Row[t].amount < 0
         /\ Row[t].currency # reader.currency \/ t \in Steady(reader.window, reader.cat)
         => \/ Row[t].currency \in reader.says.others
            \/ t \in reader.says.rows
            \/ reader.says.about = "largest" /\ \A u \in reader.says.rows : Larger(u, t)

(***************************************************************************)
(* build_trends: the windows leave no gap; spending that was there, from   *)
(* the first period to now, is in one of the points.                       *)
(***************************************************************************)
TrendsHaveNoGap ==
  reader.pc = "done" /\ reader.kind = "trends" =>
    \A t \in Steady(reader.window, None) :
      Row[t].amount < 0 /\ Row[t].currency = reader.currency => \E i \in DOMAIN reader.got : t \in reader.got[i]

(***************************************************************************)
(* previous_bounds: "The comparison window immediately before `start`".    *)
(* No row is counted in two periods of a trend, nor in a summary's total   *)
(* and in the total that it is compared with.                              *)
(***************************************************************************)
CountedOnce ==
  reader.kind \in {"trends", "summary"} =>
    \A i, j \in DOMAIN reader.got \ {IF reader.kind = "summary" THEN 2 ELSE 0} :
      i # j => reader.got[i] \cap reader.got[j] = {}

(***************************************************************************)
(* The budget rule: once the events of a month's spending in a category    *)
(* that reaches the limit are handled, in whatever order and however       *)
(* often, the alert exists.  Two exceptions belong to the rule, which sums *)
(* up to the time of the event's own row: rows that were categorized after *)
(* the event of a later one was handled, and rows recategorized by hand.   *)
(***************************************************************************)
BudgetRaised ==
  \A k \in {BudgetKey(t, event[t]) : t \in handled} :
    LET rows == {t \in handled : BudgetKey(t, event[t]) = k /\ Row[t].amount < 0}
    IN  rows \cap (late \cup corrected) = {} /\ Spend(rows) >= BudgetLimit => k \in alerts

=============================================================================
