------------------------------ MODULE Workspace ------------------------------
(***************************************************************************)
(* The web client in one browser tab (web/src): the session of App, the    *)
(* loads of Dashboard, the entry form with its idempotency key, and the    *)
(* other writes.  Answers may come in any order, fail or be lost; effects  *)
(* that are over ignore theirs through a `cancelled` flag, while the       *)
(* handlers of buttons have no such flag.                                  *)
(*                                                                         *)
(* The data on the server are represented by their version, a load by the  *)
(* versions its answers carried.                                           *)
(***************************************************************************)
EXTENDS Integers, FiniteSets

CONSTANTS Form,        \* contents of the entry form: account, direction, amount, description, date
          FollowTicks, \* refreshes of the minute after a write (20 in the code)
          MaxVersion,  \* versions told apart
          MaxSessions, MaxClicks  \* bound the model

ASSUME WorkspaceAssumption ==
  {FollowTicks, MaxSessions, MaxVersion, MaxClicks} \subseteq Nat \ {0}
ASSUME FormAssumption == "none" \notin Form

VARIABLES token,     \* the session of the tab, 0 when logged out; also in sessionStorage
          sessions,  \* sessions the server has granted
          valid,     \* those it still accepts
          version,   \* version of the user's data on the server
          rows,      \* rows the server has stored for the entry form
          page,      \* the state of Dashboard
          entry,     \* the state of TransactionEntry
          loads,     \* loads of the two effects that have not ended and are not cancelled
          writes,    \* requests of button handlers that have not ended
          clicks,    \* what the user has done so far
          wish,      \* history: the entry the user is trying to save
          saved      \* history: wishes the user was told are saved, with their form

server == <<sessions, valid, version, rows>>
history == <<wish, saved>>
tabVars == <<token, server, page, entry, loads, writes, clicks, history>>

\* What an answer carries instead of a version.
Failed == -1
Unauthorized == -2
Pending == -3
Later == 0

NoForm == "none"
NoKey == [form |-> NoForm, id |-> 0]

\* useState and useRef of the components when they mount: the chosen period, whether the effects
\* are due for a new revision, the rest of the minute, (history) the version of the last write
\* that was acknowledged, and what is shown: the recent page, and the figures of loadedPeriod
\* with their label.  The version of the figures is that of the summary, the older part.
Mounted ==
  [period |-> "monthly", due |-> FALSE, follow |-> 0, ack |-> 0, refreshing |-> TRUE,
   recent |-> Pending, summary |-> Pending, loadedPeriod |-> "monthly"]
NewEntry == [key |-> NoKey, busy |-> FALSE, tried |-> NoForm]

\* The user does something.
Click ==
  /\ clicks < MaxClicks
  /\ clicks' = clicks + 1

\* The spinner is gone and the panels are there.
Ready == token # 0 /\ page.recent # Pending /\ page.summary # Pending

BaseLoad == [effect |-> "base", session |-> token', period |-> "none",
             first |-> Pending, second |-> Later]
PeriodLoad(period) == [effect |-> "period", session |-> token', period |-> period,
                       first |-> Pending, second |-> Pending]

\* The cleanup of effects sets `cancelled`, the first thing a load looks at when its answers are
\* there: nothing will come of it, and it is forgotten.
Cancelled(effects) == {l \in loads : l.effect \notin effects}

TabInit ==
  /\ token = 0 /\ sessions = 0 /\ valid = {}
  /\ version = 0 /\ rows = {}
  /\ page = Mounted /\ entry = NewEntry
  /\ loads = {} /\ writes = {}
  /\ clicks = 0 /\ wish = 0 /\ saved = {}

-----------------------------------------------------------------------------
(* Session. *)

\* Login: the answer of POST /auth/login arrives and the dashboard mounts.
Authenticate ==
  /\ token = 0 /\ sessions < MaxSessions
  /\ sessions' = sessions + 1
  /\ token' = sessions'
  /\ valid' = valid \cup {token'}
  /\ page' = Mounted /\ entry' = NewEntry
  /\ loads' = loads \cup {BaseLoad, PeriodLoad("monthly")}
  /\ UNCHANGED <<version, rows, writes, clicks, history>>

\* Mutant: the effects are not cleaned up when the dashboard unmounts.
LogoutKeepsLoads ==
  /\ token' = 0
  /\ page' = Mounted /\ entry' = NewEntry
  /\ UNCHANGED loads

\* App.logout: the dashboard unmounts and its effects are cleaned up.
Logout ==
  /\ token' = 0
  /\ page' = Mounted /\ entry' = NewEntry
  /\ loads' = Cancelled({"base", "period"})

\* The Log out button.
ClickLogout ==
  /\ Ready /\ Click
  /\ Logout
  /\ UNCHANGED <<server, writes, history>>

\* The page is reloaded: readToken restores the session, whatever was awaited is forgotten.
Reload ==
  /\ token # 0 /\ Click
  /\ UNCHANGED token
  /\ page' = Mounted /\ entry' = NewEntry
  /\ loads' = {BaseLoad, PeriodLoad("monthly")}
  /\ writes' = {}
  /\ UNCHANGED <<server, history>>

\* The access token expires.
Expire(s) ==
  /\ s \in valid
  /\ valid' = valid \ {s}
  /\ UNCHANGED <<token, sessions, version, rows, page, entry, loads, writes, clicks, history>>

\* Enrichment, alerts or another client change the data.
ServerChange ==
  /\ version < MaxVersion
  /\ version' = version + 1
  /\ UNCHANGED <<token, sessions, valid, rows, page, entry, loads, writes, clicks, history>>

-----------------------------------------------------------------------------
(* Loads. *)

\* refresh(): the revision grows; the effects run with the next render.
Refreshed(p) == [p EXCEPT !.due = TRUE]

\* Mutant: only the refreshes of the following minute.
ChangedLater(p, v) == [p EXCEPT !.follow = FollowTicks, !.ack = v]

\* changed(): a refresh now and every three seconds for a minute.
Changed(p, v) == [Refreshed(p) EXCEPT !.follow = FollowTicks, !.ack = v]

\* The interval of the follow effect; a hidden tab skips its refresh.
FollowTick(visible) ==
  /\ token # 0 /\ page.follow > 0
  /\ page' = [IF visible THEN Refreshed(page) ELSE page EXCEPT !.follow = @ - 1]
  /\ UNCHANGED <<token, server, entry, loads, writes, clicks, history>>

\* Mutant: the base effect has no cleanup.
RunEffectsUncancelled ==
  /\ token # 0 /\ page.due
  /\ UNCHANGED token
  /\ page' = [page EXCEPT !.due = FALSE, !.refreshing = TRUE]
  /\ loads' = Cancelled({"period"}) \cup {BaseLoad, PeriodLoad(page.period)}
  /\ UNCHANGED <<server, entry, writes, clicks, history>>

\* React runs the effects of a new revision: both loads start again.
RunEffects ==
  /\ token # 0 /\ page.due
  /\ UNCHANGED token
  /\ page' = [page EXCEPT !.due = FALSE, !.refreshing = TRUE]
  /\ loads' = Cancelled({"base", "period"}) \cup {BaseLoad, PeriodLoad(page.period)}
  /\ UNCHANGED <<server, entry, writes, clicks, history>>

\* A click on the other period; React flushes what a click changes at once.
ChoosePeriod(period) ==
  /\ Ready /\ page.period # period /\ ~page.due /\ Click
  /\ UNCHANGED token
  /\ page' = [page EXCEPT !.period = period, !.refreshing = TRUE]
  /\ loads' = Cancelled({"period"}) \cup {PeriodLoad(period)}
  /\ UNCHANGED <<server, entry, writes, history>>

\* The Refresh button.
ClickRefresh ==
  /\ Ready /\ ~page.refreshing /\ Click
  /\ page' = Refreshed(page)
  /\ UNCHANGED <<token, server, entry, loads, writes, history>>

\* What the server answers to a read, unless it fails.
Reading(l) == IF l.session \in valid THEN version ELSE Unauthorized

\* The first request of a load is answered: the recent page or the summary.  A 401 to the
\* summary is passed on; after any other failure the transactions are still asked for.
AnswerFirst(l, answer) ==
  /\ l \in loads /\ l.first = Pending
  /\ answer \in {Reading(l), Failed}
  /\ loads' = (loads \ {l}) \cup
       {[l EXCEPT !.first = answer, !.second = IF answer = Unauthorized THEN Unauthorized ELSE @]}
  /\ UNCHANGED <<token, server, page, entry, writes, clicks, history>>

\* The transactions of the period arrive or fail, or are refused; they are no older than the summary.
AnswerSecond(l, answer) ==
  /\ l \in loads /\ l.first # Pending /\ l.second = Pending
  /\ answer = Later \/ (answer = Unauthorized /\ l.session \notin valid)
  /\ loads' = (loads \ {l}) \cup {[l EXCEPT !.second = answer]}
  /\ UNCHANGED <<token, server, page, entry, writes, clicks, history>>

Shown(l) ==
  IF l.effect = "base" THEN [page EXCEPT !.recent = l.first]
  ELSE [page EXCEPT !.summary = l.first, !.loadedPeriod = l.period, !.refreshing = FALSE]

\* allSettled(...).then: all answers of a load are there.
Arrive(l) ==
  /\ l \in loads /\ l.first # Pending /\ l.second # Pending
  /\ \/ /\ Unauthorized \in {l.first, l.second}
        /\ token' = 0 /\ page' = Mounted /\ entry' = NewEntry
        /\ loads' = Cancelled({"base", "period"}) \ {l}
     \/ /\ Unauthorized \notin {l.first, l.second}
        /\ page' = Shown(l)
        /\ loads' = loads \ {l}
        /\ UNCHANGED <<token, entry>>
  /\ UNCHANGED <<server, writes, clicks, history>>

-----------------------------------------------------------------------------
(* Writes. *)

\* Mutant: the id is kept until something is saved, whatever has become of the form.
KeyKeptTooLong(form) == IF entry.key = NoKey THEN [form |-> form, id |-> wish'] ELSE entry.key

\* entryId: the id of the last attempt if the form is the same, else a new one.
KeyFor(form) == IF entry.key.form = form THEN entry.key ELSE [form |-> form, id |-> wish']

\* The user presses Save.  A form other than the one last tried, or any form after a success
\* or in a new page, is a new wish.
Submit(form) ==
  /\ Ready /\ ~entry.busy /\ Click
  /\ wish' = IF entry.tried = form THEN wish ELSE wish + 1
  /\ LET key == KeyFor(form)
     IN  /\ entry' = [key |-> key, busy |-> TRUE, tried |-> form]
         /\ writes' = writes \cup
              {[kind |-> "entry", session |-> token, form |-> form, id |-> key.id, wish |-> wish', answer |-> Pending]}
  /\ UNCHANGED <<token, server, page, loads, saved>>

\* A button that sends a request and is disabled until the handler is through.
Press(kind) ==
  /\ Ready /\ Click
  /\ kind = "import" => ~entry.busy
  /\ ~\E w \in writes : w.kind = kind /\ w.session = token
  /\ entry' = IF kind = "import" THEN [entry EXCEPT !.busy = TRUE] ELSE entry
  /\ writes' = writes \cup
       {[kind |-> kind, session |-> token, form |-> NoForm, id |-> 0, wish |-> 0, answer |-> Pending]}
  /\ UNCHANGED <<token, server, page, loads, history>>

\* The import shares busy with the form; it leaves the id of an entry alone.
ImportFile == Press("import")
SaveCategory == Press("save")
MarkAlert == Press("mark")
AskAssistant == Press("ask")

\* The row of an entry, unless its external_tx_id exists (external: the transactions service).
Stored(w) ==
  IF w.kind # "entry" \/ \E r \in rows : r.id = w.id THEN rows
  ELSE rows \cup {[id |-> w.id, form |-> w.form, wish |-> w.wish]}

\* The server refuses the write, fails, carries it out, or does so and the answer is lost.
AnswerWrite(w) ==
  /\ w \in writes /\ w.answer = Pending
  /\ \/ /\ w.session \notin valid
        /\ writes' = (writes \ {w}) \cup {[w EXCEPT !.answer = Unauthorized]}
        /\ UNCHANGED <<version, rows>>
     \/ /\ writes' = (writes \ {w}) \cup {[w EXCEPT !.answer = Failed]}
        /\ UNCHANGED <<version, rows>>
     \/ /\ w.session \in valid
        /\ version' = IF w.kind = "ask" \/ version = MaxVersion THEN version ELSE version + 1
        /\ rows' = Stored(w)
        /\ \E answer \in {version', Failed} : writes' = (writes \ {w}) \cup {[w EXCEPT !.answer = answer]}
  /\ UNCHANGED <<token, sessions, valid, page, entry, loads, clicks, history>>

\* The handler goes on: run, save, mark and ask.  A component that is gone is not touched, but
\* onUnauthorized is App's, whichever session it has by now.
Settle(w) ==
  /\ w \in writes /\ w.answer # Pending
  /\ writes' = writes \ {w}
  /\ \/ /\ w.answer = Unauthorized
        /\ Logout
        /\ UNCHANGED saved
     \/ /\ w.answer # Unauthorized /\ w.session # token
        /\ UNCHANGED <<token, page, entry, loads, saved>>
     \/ /\ w.answer = Failed /\ w.session = token
        /\ entry' = IF w.kind \in {"entry", "import"} THEN [entry EXCEPT !.busy = FALSE] ELSE entry
        /\ UNCHANGED <<token, page, loads, saved>>
     \/ /\ w.answer >= 0 /\ w.session = token
        /\ entry' = CASE w.kind = "entry" -> NewEntry
                      [] w.kind = "import" -> [entry EXCEPT !.busy = FALSE]
                      [] OTHER -> entry
        /\ saved' = IF w.kind = "entry" THEN saved \cup {[wish |-> w.wish, form |-> w.form]} ELSE saved
        /\ page' = CASE w.kind \in {"entry", "import", "save"} -> Changed(page, w.answer)
                     [] w.kind = "mark" -> Refreshed(page)
                     [] w.kind = "ask" -> page
        /\ UNCHANGED <<token, loads>>
  /\ UNCHANGED <<server, clicks, wish>>

TabNext ==
  \/ Authenticate \/ ClickLogout \/ Reload \/ ServerChange
  \/ \E s \in valid : Expire(s)
  \/ \E visible \in BOOLEAN : FollowTick(visible)
  \/ RunEffects \/ ClickRefresh
  \/ \E period \in {"weekly", "monthly"} : ChoosePeriod(period)
  \/ \E l \in loads : \E answer \in {Reading(l), Later, Failed, Unauthorized} : AnswerFirst(l, answer) \/ AnswerSecond(l, answer)
  \/ \E l \in loads : Arrive(l)
  \/ \E form \in Form : Submit(form)
  \/ ImportFile \/ SaveCategory \/ MarkAlert \/ AskAssistant
  \/ \E w \in writes : AnswerWrite(w) \/ Settle(w)

TabSpec == TabInit /\ [][TabNext]_tabVars

\* Requests are answered or fail, what they wake up runs, effects run, time passes.
Progress ==
  \/ RunEffects
  \/ \E visible \in BOOLEAN : FollowTick(visible)
  \/ \E l \in loads : Arrive(l) \/ \E answer \in {Reading(l), Later, Failed, Unauthorized} : AnswerFirst(l, answer) \/ AnswerSecond(l, answer)
  \/ \E w \in writes : AnswerWrite(w) \/ Settle(w)

TabFairSpec == TabSpec /\ WF_tabVars(Progress)

-----------------------------------------------------------------------------
(* Properties. *)

(***************************************************************************)
(* A slow answer never replaces newer data: while a page is mounted, what  *)
(* it shows does not go back to an older version.                          *)
(***************************************************************************)
ViewNeverGoesBack ==
  [][token' = token /\ page'.ack >= page.ack /\ page'.recent # Pending /\ page'.summary # Pending =>
       /\ page'.recent >= page.recent \/ page'.recent = Failed
       /\ page'.summary >= page.summary \/ page'.summary = Failed]_<<token, page>>

(***************************************************************************)
(* What a load of an earlier session finds out is of no consequence: its   *)
(* 401 does not end the session that the user has opened since.            *)
(***************************************************************************)
OldLoadsEndNoSession ==
  [][\A l \in loads : l.session # token /\ l \notin loads' => token' = token]_tabVars

(***************************************************************************)
(* TransactionEntry: "a lost response must not duplicate money".  However  *)
(* often the user tries to save the same form, at most one row is stored   *)
(* for it, and when the page says it is saved, one is, as it was entered.  *)
(***************************************************************************)
EntryExactlyOnce ==
  /\ \A r, q \in rows : r.wish = q.wish => r = q
  /\ \A a \in saved : \E r \in rows : r.wish = a.wish /\ r.form = a.form

(***************************************************************************)
(* When the user leaves the page alone, it settles: the spinner and the    *)
(* updating note go, and what it shows is of the chosen period and at      *)
(* least as new as the last write that was acknowledged, or is marked as   *)
(* unavailable.                                                            *)
(***************************************************************************)
ViewSettles ==
  <>[](token # 0 => /\ Ready /\ ~page.refreshing /\ ~page.due
                    /\ page.loadedPeriod = page.period
                    /\ page.recent >= page.ack \/ page.recent = Failed
                    /\ page.summary >= page.ack \/ page.summary = Failed)

=============================================================================
