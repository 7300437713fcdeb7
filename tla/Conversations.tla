--------------------------- MODULE Conversations ---------------------------
(***************************************************************************)
(* One conversation: POST /assistant/chat on several replicas of the       *)
(* assistant (services/assistant/routes.py), answered from the ledger and  *)
(* kept in Redis with a fallback in each process (conversations.py).       *)
(*                                                                         *)
(* A chat reads the history, retrieves figures, drafts an answer from them *)
(* and lets a model reword it; then it reads the history again to append   *)
(* to it and writes the whole list back.  Any of the three Redis calls may *)
(* fail, and a failed write may have been carried out.                     *)
(*                                                                         *)
(* The figures of an answer are represented by the version of the ledger   *)
(* they are from; the model has those of the draft before it and those of  *)
(* the earlier answers in the history.                                     *)
(***************************************************************************)
EXTENDS Integers, Sequences

CONSTANTS Replica,    \* processes of the assistant service
          Chat,       \* chats of this user and conversation (bounds the model)
          MaxTurns,   \* MAX_TURNS
          HistoryTurns, \* MAX_HISTORY_TURNS, what the model is given of the history
          MaxVersion  \* changes of the ledger (bounds the model)

ASSUME TurnsAssumption == MaxTurns \in Nat \ {0} /\ HistoryTurns \in Nat /\ MaxVersion \in Nat
ASSUME EvenAssumption == MaxTurns % 2 = 0   \* 20 in the code: trimming keeps whole chats

VARIABLES pc,      \* where a chat is
          at,      \* the replica that serves it
          seen,    \* the history it was answered from
          draft,   \* the figures it has retrieved
          reply,   \* the figures it answers with
          merged,  \* the list it is about to write
          prior,   \* history: the chats that were over when it began
          begun,   \* history: the version of the ledger when it began
          ledger,  \* the version of the user's transactions
          redis,   \* the list in Redis, <<>> if there is none
          local    \* the fallback list in each replica

store == <<redis, local>>
answer == <<draft, reply>>
vars == <<pc, at, seen, answer, merged, prior, begun, ledger, store>>

Init ==
  /\ pc = [c \in Chat |-> "new"]
  /\ at \in [Chat -> Replica]
  /\ seen = [c \in Chat |-> <<>>]
  /\ draft = [c \in Chat |-> 0] /\ reply = [c \in Chat |-> 0]
  /\ merged = [c \in Chat |-> <<>>]
  /\ prior = [c \in Chat |-> {}] /\ begun = [c \in Chat |-> 0]
  /\ ledger = 0
  /\ redis = <<>>
  /\ local = [r \in Replica |-> <<>>]

-----------------------------------------------------------------------------

\* A chat that was answered or refused, or lost with its replica.
Over == {"done", "refused", "lost"}

\* The two turns of a chat.
Turns(c) == <<[chat |-> c, role |-> "user"], [chat |-> c, role |-> "assistant"]>>

TrimmedOneMore(turns) ==
  SubSeq(turns, IF Len(turns) > MaxTurns + 1 THEN Len(turns) - MaxTurns ELSE 1, Len(turns))

\* turns[-MAX_TURNS:]
Trimmed(turns) ==
  SubSeq(turns, IF Len(turns) > MaxTurns THEN Len(turns) - MaxTurns + 1 ELSE 1, Len(turns))

\* history(): what Redis holds or, when it cannot be read, what the process holds.
Readings(c) == {redis, local[at[c]]}

\* guardrails.check: a message that asks for a write is refused before anything is read.
Refuse(c) ==
  /\ pc[c] = "new"
  /\ pc' = [pc EXCEPT ![c] = "refused"]
  /\ UNCHANGED <<at, seen, answer, merged, prior, begun, ledger, store>>

\* chat(): the history is read.
Ask(c) ==
  /\ pc[c] = "new"
  /\ \E turns \in Readings(c) : seen' = [seen EXCEPT ![c] = turns]
  /\ pc' = [pc EXCEPT ![c] = "asked"]
  /\ prior' = [prior EXCEPT ![c] = {d \in Chat : pc[d] \in Over}]
  /\ begun' = [begun EXCEPT ![c] = ledger]
  /\ UNCHANGED <<at, answer, merged, ledger, store>>

\* retrieve and build_answer: figures from the ledger, whatever the history says.
Retrieve(c) ==
  /\ pc[c] = "asked"
  /\ draft' = [draft EXCEPT ![c] = ledger]
  /\ pc' = [pc EXCEPT ![c] = "retrieved"]
  /\ UNCHANGED <<at, seen, reply, merged, prior, begun, ledger, store>>

\* Figures the model has before it: the draft's, and those of the last turns.
Given(c) ==
  {draft[c]} \cup
  {reply[seen[c][i].chat] : i \in {j \in 1..Len(seen[c]) : j > Len(seen[c]) - HistoryTurns}}

\* Mutant: a figure need only occur somewhere in what the model was given.
known_figures(c, figures) == figures \in Given(c)

\* The figures of a rewrite must be those of the draft, in their order.
valid_rewrite(c, figures) == figures = draft[c]

(***************************************************************************)
(* respond, within its 12 seconds: an accepted rewrite, or else the draft, *)
(* without a model, over the rate limit, after a provider error, an        *)
(* invalid reply or the deadline.                                          *)
(***************************************************************************)
Respond(c) ==
  /\ pc[c] = "retrieved"
  /\ \E figures \in {draft[c]} \cup {f \in Given(c) : valid_rewrite(c, f)} :
       reply' = [reply EXCEPT ![c] = figures]
  /\ pc' = [pc EXCEPT ![c] = "replied"]
  /\ UNCHANGED <<at, seen, draft, merged, prior, begun, ledger, store>>

MergePutsInFront(c) ==
  /\ pc[c] = "replied"
  /\ \E turns \in Readings(c) : merged' = [merged EXCEPT ![c] = Trimmed(Turns(c) \o turns)]
  /\ pc' = [pc EXCEPT ![c] = "merged"]
  /\ UNCHANGED <<at, seen, answer, prior, begun, ledger, store>>

\* append(): the history is read again.
Merge(c) ==
  /\ pc[c] = "replied"
  /\ \E turns \in Readings(c) : merged' = [merged EXCEPT ![c] = Trimmed(turns \o Turns(c))]
  /\ pc' = [pc EXCEPT ![c] = "merged"]
  /\ UNCHANGED <<at, seen, answer, prior, begun, ledger, store>>

Answered(c) ==
  /\ pc' = [pc EXCEPT ![c] = "done"]
  /\ UNCHANGED <<at, seen, answer, merged, prior, begun, ledger>>

\* append(): the SET succeeds.
Write(c) ==
  /\ pc[c] = "merged"
  /\ redis' = merged[c]
  /\ Answered(c)
  /\ UNCHANGED local

\* append(): the SET raises, carried out or not, and the turns go to the process.
WriteFails(c) ==
  /\ pc[c] = "merged"
  /\ redis' \in {redis, merged[c]}
  /\ local' = [local EXCEPT ![at[c]] = Trimmed(local[at[c]] \o Turns(c))]
  /\ Answered(c)

\* A replica starts again; its chats are lost with its list.
Restart(r) ==
  /\ pc' = [c \in Chat |-> IF at[c] = r /\ pc[c] \notin Over \cup {"new"} THEN "lost" ELSE pc[c]]
  /\ local' = [local EXCEPT ![r] = <<>>]
  /\ UNCHANGED <<at, seen, answer, merged, prior, begun, ledger, redis>>

\* The list reaches its TTL.
Expire ==
  /\ redis' = <<>>
  /\ UNCHANGED <<pc, at, seen, answer, merged, prior, begun, ledger, local>>

\* Transactions are added or corrected.
LedgerChange ==
  /\ ledger < MaxVersion
  /\ ledger' = ledger + 1
  /\ UNCHANGED <<pc, at, seen, answer, merged, prior, begun, store>>

Next ==
  \/ \E c \in Chat :
       \/ Refuse(c) \/ Ask(c) \/ Retrieve(c) \/ Respond(c)
       \/ Merge(c) \/ Write(c) \/ WriteFails(c)
  \/ \E r \in Replica : Restart(r)
  \/ Expire \/ LedgerChange

Spec == Init /\ [][Next]_vars

-----------------------------------------------------------------------------
(* Properties. *)

\* A list of whole chats, and one that tells no turn twice and every chat in its place.
Whole(turns) ==
  \A i \in 1..Len(turns) :
    IF i % 2 = 1 THEN turns[i].role = "user" /\ i < Len(turns)
                 ELSE turns[i].role = "assistant" /\ turns[i].chat = turns[i - 1].chat
Ordered(turns) ==
  \A i, j \in 1..Len(turns) :
    i < j => turns[i] # turns[j] /\ turns[j].chat \notin prior[turns[i].chat]

Lists == {redis} \cup {local[r] : r \in Replica} \cup {merged[c] : c \in Chat}

(***************************************************************************)
(* Trimming, lost updates and fallbacks never separate a question from its *)
(* answer: every list consists of whole chats.                             *)
(***************************************************************************)
WholeChats == \A turns \in Lists : Whole(turns)

(***************************************************************************)
(* No list tells a turn twice, nor a chat before one that was over when it *)
(* began, whichever of the stores it was pieced together from.             *)
(***************************************************************************)
InOrder == \A turns \in Lists : Ordered(turns)

(***************************************************************************)
(* No answer is older than its question: although the model is given the   *)
(* earlier answers of the conversation, the figures of a reply are those   *)
(* the ledger had at some time since the chat began.                       *)
(***************************************************************************)
ReplyIsGrounded ==
  \A c \in Chat : pc[c] \in {"replied", "merged", "done"} => reply[c] >= begun[c]

-----------------------------------------------------------------------------
(* The inductive invariant behind the properties, in parts. *)

Turn == [chat : Chat, role : {"user", "assistant"}]

TypeOK ==
  /\ pc \in [Chat -> {"new", "asked", "retrieved", "replied", "merged"} \cup Over]
  /\ at \in [Chat -> Replica]
  /\ draft \in [Chat -> Nat] /\ reply \in [Chat -> Nat]
  /\ seen \in [Chat -> Seq(Turn)] /\ merged \in [Chat -> Seq(Turn)]
  /\ prior \in [Chat -> SUBSET Chat] /\ begun \in [Chat -> Nat]
  /\ ledger \in Nat
  /\ redis \in Seq(Turn) /\ local \in [Replica -> Seq(Turn)]

\* Only chats that are over preceded another, and none itself.
PriorIsOver == \A c \in Chat : \A d \in prior[c] : pc[d] \in Over /\ d # c

\* The stores hold turns of chats that were answered.
Stored(turns) == \A i \in 1..Len(turns) : pc[turns[i].chat] = "done"
StoresAreDone == Stored(redis) /\ \A r \in Replica : Stored(local[r])

\* What a chat is to write are such turns and, once it has merged them, its own.
MergedIsOwn ==
  \A c \in Chat : \A i \in 1..Len(merged[c]) :
    \/ pc[merged[c][i].chat] = "done"
    \/ merged[c][i].chat = c /\ pc[c] \in {"merged", "lost"}

\* The figures in hand are no older than the chat.
DraftIsGrounded ==
  \A c \in Chat :
    /\ begun[c] <= ledger
    /\ pc[c] = "retrieved" => draft[c] >= begun[c]

IInv ==
  /\ TypeOK
  /\ PriorIsOver /\ StoresAreDone /\ MergedIsOwn /\ DraftIsGrounded
  /\ WholeChats /\ InOrder /\ ReplyIsGrounded
=============================================================================
