------------------------ MODULE ConversationsProofs ------------------------
(***************************************************************************)
(* Proofs about Conversations, for any number of replicas and chats, any   *)
(* history the model is given and any even MAX_TURNS.                      *)
(***************************************************************************)
EXTENDS Conversations, SequenceTheorems, TLAPS

USE TurnsAssumption

-----------------------------------------------------------------------------
(* Appending the turns of a chat to a list and trimming it. *)

\* The two turns of a chat.
LEMMA TurnsType ==
  ASSUME NEW c \in Chat
  PROVE  /\ Turns(c) \in Seq(Turn) /\ Len(Turns(c)) = 2
         /\ Turns(c)[1] = [chat |-> c, role |-> "user"]
         /\ Turns(c)[2] = [chat |-> c, role |-> "assistant"]
BY DEF Turns, Turn

\* A list of whole chats has an even number of turns.
LEMMA WholeIsEven ==
  ASSUME NEW turns \in Seq(Turn), Whole(turns)
  PROVE  Len(turns) \in Nat /\ Len(turns) % 2 = 0
<1>1. Len(turns) \in Nat
  OBVIOUS
<1>2. Len(turns) % 2 = 1 => Len(turns) \in 1..Len(turns)
  BY <1>1
<1>3. Len(turns) % 2 # 1
  BY <1>1, <1>2 DEF Whole
<1>4. QED
  BY <1>1, <1>3

\* The list with the turns of a chat at its end.
LEMMA Appended ==
  ASSUME NEW turns \in Seq(Turn), NEW c \in Chat
  PROVE  LET all == turns \o Turns(c) IN
         /\ all \in Seq(Turn) /\ Len(all) = Len(turns) + 2
         /\ \A i \in 1..Len(turns) : all[i] = turns[i]
         /\ all[Len(turns) + 1] = [chat |-> c, role |-> "user"]
         /\ all[Len(turns) + 2] = [chat |-> c, role |-> "assistant"]
<1>1. PICK two : two = Turns(c)
  OBVIOUS
<1>2. two \in Seq(Turn)
  BY <1>1, TurnsType
<1>3. Len(two) = 2
  BY <1>1, TurnsType
<1>4. two[1] = [chat |-> c, role |-> "user"] /\ two[2] = [chat |-> c, role |-> "assistant"]
  BY <1>1, TurnsType
<1>5. Len(turns) \in Nat
  OBVIOUS
<1>6. /\ turns \o two \in Seq(Turn) /\ Len(turns \o two) = Len(turns) + 2
      /\ \A i \in 1..(Len(turns) + 2) :
           (turns \o two)[i] = IF i <= Len(turns) THEN turns[i] ELSE two[i - Len(turns)]
  <2>1. /\ turns \o two \in Seq(Turn) /\ Len(turns \o two) = Len(turns) + Len(two)
        /\ \A i \in 1..(Len(turns) + Len(two)) :
             (turns \o two)[i] = IF i <= Len(turns) THEN turns[i] ELSE two[i - Len(turns)]
    BY ONLY turns \in Seq(Turn), <1>2, ConcatProperties, Zenon
  <2>2. QED
    BY ONLY <1>3, <2>1, Zenon
<1>7. \A i \in 1..Len(turns) : (turns \o two)[i] = turns[i]
  BY <1>5, <1>6
<1>8. /\ (turns \o two)[Len(turns) + 1] = two[1]
      /\ (turns \o two)[Len(turns) + 2] = two[2]
  <2>1. PICK n \in Nat : n = Len(turns)
    BY <1>5
  <2>2. /\ n + 1 \in 1..(n + 2) /\ n + 2 \in 1..(n + 2)
        /\ ~(n + 1 <= n) /\ ~(n + 2 <= n) /\ (n + 1) - n = 1 /\ (n + 2) - n = 2
    OBVIOUS
  <2>3. QED
    BY <1>6, <2>1, <2>2
<1>9. QED
  BY <1>1, <1>4, <1>6, <1>7, <1>8

\* Whole chats stay whole.
LEMMA AppendedWhole ==
  ASSUME NEW turns \in Seq(Turn), NEW c \in Chat, Whole(turns)
  PROVE  Whole(turns \o Turns(c))
<1> DEFINE all == turns \o Turns(c)
           n == Len(turns)
<1>1. n \in Nat /\ n % 2 = 0
  BY WholeIsEven
<1>2. /\ Len(all) = n + 2
      /\ \A i \in 1..n : all[i] = turns[i]
      /\ all[n + 1] = [chat |-> c, role |-> "user"]
      /\ all[n + 2] = [chat |-> c, role |-> "assistant"]
  BY Appended
<1>3. \A i \in 1..n : IF i % 2 = 1 THEN turns[i].role = "user" /\ i < n
                      ELSE turns[i].role = "assistant" /\ turns[i].chat = turns[i - 1].chat
  BY DEF Whole
<1> HIDE DEF all, n
<1> SUFFICES ASSUME NEW i \in 1..(n + 2)
             PROVE  IF i % 2 = 1 THEN all[i].role = "user" /\ i < n + 2
                    ELSE all[i].role = "assistant" /\ all[i].chat = all[i - 1].chat
  BY <1>2 DEF Whole, all
<1>4. CASE i <= n
  <2>1. i \in 1..n /\ (i % 2 # 1 => i - 1 \in 1..n)
    BY <1>1, <1>4
  <2>2. QED
    BY <1>1, <1>2, <1>3, <2>1
<1>5. CASE i = n + 1
  <2>1. i % 2 = 1 /\ i < n + 2
    BY <1>1, <1>5
  <2>2. QED
    BY <1>2, <1>5, <2>1
<1>6. CASE i = n + 2
  <2>1. i % 2 # 1 /\ i - 1 = n + 1
    BY <1>1, <1>6
  <2>2. QED
    BY <1>2, <1>6, <2>1
<1>7. QED
  BY <1>1, <1>4, <1>5, <1>6

\* Trimming drops turns from the front, an even number of them if there is an even number.
LEMMA TrimmedIs ==
  ASSUME NEW turns \in Seq(Turn)
  PROVE  \E k \in Nat :
           /\ k <= Len(turns)
           /\ Len(turns) % 2 = 0 => k % 2 = 0
           /\ Trimmed(turns) \in Seq(Turn) /\ Len(Trimmed(turns)) = Len(turns) - k
           /\ \A i \in 1..(Len(turns) - k) : Trimmed(turns)[i] = turns[i + k]
<1> DEFINE n == Len(turns)
           k == IF n > MaxTurns THEN n - MaxTurns ELSE 0
<1>1. n \in Nat
  OBVIOUS
<1>2. k \in Nat /\ k <= n /\ (n % 2 = 0 => k % 2 = 0)
  <2>1. CASE n > MaxTurns
    <3>1. k = n - MaxTurns /\ k \in Nat
      BY <1>1, <2>1
    <3>2. n % 2 = 0 => (n - MaxTurns) % 2 = 0
      <4>1. PICK m \in Nat : m = MaxTurns
        OBVIOUS
      <4>2. m % 2 = 0
        BY <4>1, EvenAssumption
      <4>3. n % 2 = 0 => (n - m) % 2 = 0
        BY ONLY <1>1, <4>2
      <4>4. QED
        BY <4>1, <4>3
    <3>3. k <= n
      BY <1>1, <3>1
    <3> HIDE DEF k
    <3>4. QED
      BY <3>1, <3>2, <3>3
  <2>2. CASE ~(n > MaxTurns)
    BY <1>1, <2>2
  <2>3. QED
    BY <2>1, <2>2
<1>3. Trimmed(turns) = SubSeq(turns, k + 1, n)
  BY <1>1 DEF Trimmed
<1> HIDE DEF k
<1>4. /\ SubSeq(turns, k + 1, n) \in Seq(Turn)
      /\ Len(SubSeq(turns, k + 1, n)) = n - k
      /\ \A i \in 1..(n - k) : SubSeq(turns, k + 1, n)[i] = turns[i + k]
  BY <1>1, <1>2
<1>5. QED
  BY <1>2, <1>3, <1>4

\* And so leaves whole chats.
LEMMA TrimmedWhole ==
  ASSUME NEW turns \in Seq(Turn), Whole(turns)
  PROVE  Whole(Trimmed(turns))
<1>1. PICK k \in Nat :
        /\ k <= Len(turns)
        /\ Len(turns) % 2 = 0 => k % 2 = 0
        /\ Len(Trimmed(turns)) = Len(turns) - k
        /\ \A i \in 1..(Len(turns) - k) : Trimmed(turns)[i] = turns[i + k]
  BY TrimmedIs
<1> DEFINE n == Len(turns)
           t == Trimmed(turns)
<1>2. n \in Nat /\ k % 2 = 0
  BY <1>1, WholeIsEven
<1>3. \A i \in 1..n : IF i % 2 = 1 THEN turns[i].role = "user" /\ i < n
                      ELSE turns[i].role = "assistant" /\ turns[i].chat = turns[i - 1].chat
  BY DEF Whole
<1>4. Len(t) = n - k /\ \A i \in 1..(n - k) : t[i] = turns[i + k]
  BY <1>1
<1> HIDE DEF n, t
<1> SUFFICES ASSUME NEW i \in 1..(n - k)
             PROVE  IF i % 2 = 1 THEN t[i].role = "user" /\ i < n - k
                    ELSE t[i].role = "assistant" /\ t[i].chat = t[i - 1].chat
  BY <1>4 DEF Whole, t
<1>5. i + k \in 1..n /\ (i + k) % 2 = i % 2
  BY <1>2
<1>6. CASE i % 2 = 1
  <2>1. turns[i + k].role = "user" /\ i + k < n
    BY <1>3, <1>5, <1>6
  <2>2. QED
    <3>1. t[i] = turns[i + k]
      BY <1>4
    <3>2. i < n - k
      BY <1>2, <2>1
    <3>3. QED
      BY <1>6, <2>1, <3>1, <3>2
<1>7. CASE i % 2 # 1
  <2>1. turns[i + k].role = "assistant" /\ turns[i + k].chat = turns[(i + k) - 1].chat
    BY <1>3, <1>5, <1>7
  <2>2. i - 1 \in 1..(n - k) /\ (i - 1) + k = (i + k) - 1
    BY <1>2, <1>7
  <2>3. QED
    BY <1>4, <1>7, <2>1, <2>2
<1>8. QED
  BY <1>6, <1>7

\* A list that does not have the chat yet, nor follows it, keeps its order with the chat at its end.
LEMMA AppendedOrdered ==
  ASSUME NEW turns \in Seq(Turn), NEW c \in Chat, Ordered(turns), c \notin prior[c],
         \A i \in 1..Len(turns) : turns[i].chat # c /\ c \notin prior[turns[i].chat]
  PROVE  Ordered(turns \o Turns(c))
<1> DEFINE all == turns \o Turns(c)
           n == Len(turns)
<1>1. n \in Nat
  OBVIOUS
<1>2. /\ Len(all) = n + 2
      /\ \A i \in 1..n : all[i] = turns[i]
      /\ all[n + 1] = [chat |-> c, role |-> "user"]
      /\ all[n + 2] = [chat |-> c, role |-> "assistant"]
  BY Appended
<1>3. \A i, j \in 1..n : i < j => turns[i] # turns[j] /\ turns[j].chat \notin prior[turns[i].chat]
  BY DEF Ordered
<1>4. \A i \in 1..n : turns[i].chat # c /\ c \notin prior[turns[i].chat]
  OBVIOUS
<1> HIDE DEF all, n
<1> SUFFICES ASSUME NEW i \in 1..(n + 2), NEW j \in 1..(n + 2), i < j
             PROVE  all[i] # all[j] /\ all[j].chat \notin prior[all[i].chat]
  BY <1>2 DEF Ordered, all
<1>5. CASE j <= n
  <2>1. i \in 1..n /\ j \in 1..n
    BY <1>1, <1>5
  <2>2. QED
    BY <1>2, <1>3, <2>1
<1>6. CASE j > n /\ i <= n
  <2>1. i \in 1..n /\ j \in {n + 1, n + 2}
    BY <1>1, <1>6
  <2>2. all[j].chat = c /\ all[i] = turns[i]
    BY <1>2, <2>1
  <2>3. QED
    BY <1>4, <2>1, <2>2
<1>7. CASE i > n
  <2>1. i = n + 1 /\ j = n + 2
    BY <1>1, <1>7
  <2>2. all[i].role = "user" /\ all[j].role = "assistant" /\ all[i].chat = c /\ all[j].chat = c
    BY <1>2, <2>1
  <2>3. all[i] # all[j]
    BY <2>2
  <2>4. QED
    BY <2>2, <2>3
<1>8. QED
  BY <1>1, <1>5, <1>6, <1>7

\* Trimming keeps the order.
LEMMA TrimmedOrdered ==
  ASSUME NEW turns \in Seq(Turn), Ordered(turns)
  PROVE  Ordered(Trimmed(turns))
<1>1. PICK k \in Nat :
        /\ k <= Len(turns)
        /\ Len(Trimmed(turns)) = Len(turns) - k
        /\ \A i \in 1..(Len(turns) - k) : Trimmed(turns)[i] = turns[i + k]
  BY TrimmedIs
<1>2. \A i \in 1..(Len(turns) - k) : i + k \in 1..Len(turns)
  BY <1>1
<1>3. \A i, j \in 1..(Len(turns) - k) : i < j => i + k < j + k
  BY <1>1
<1>4. QED
  BY <1>1, <1>2, <1>3 DEF Ordered

\* Every turn of the result is one of the list's or of the chat's.
LEMMA ResultTurns ==
  ASSUME NEW turns \in Seq(Turn), NEW c \in Chat
  PROVE  LET new == Trimmed(turns \o Turns(c)) IN
         /\ new \in Seq(Turn)
         /\ \A i \in 1..Len(new) :
              new[i].chat = c \/ \E j \in 1..Len(turns) : new[i].chat = turns[j].chat
<1>1. PICK all : all = turns \o Turns(c)
  OBVIOUS
<1>2. /\ all \in Seq(Turn) /\ Len(all) = Len(turns) + 2
      /\ \A i \in 1..Len(turns) : all[i] = turns[i]
      /\ all[Len(turns) + 1].chat = c /\ all[Len(turns) + 2].chat = c
  <2>1. /\ all \in Seq(Turn) /\ Len(all) = Len(turns) + 2
        /\ \A i \in 1..Len(turns) : all[i] = turns[i]
        /\ all[Len(turns) + 1] = [chat |-> c, role |-> "user"]
        /\ all[Len(turns) + 2] = [chat |-> c, role |-> "assistant"]
    BY ONLY turns \in Seq(Turn), c \in Chat, <1>1, Appended, Zenon
  <2>2. QED
    BY <2>1
<1>3. PICK k \in Nat :
        /\ k <= Len(all)
        /\ Trimmed(all) \in Seq(Turn) /\ Len(Trimmed(all)) = Len(all) - k
        /\ \A i \in 1..(Len(all) - k) : Trimmed(all)[i] = all[i + k]
  BY <1>2, TrimmedIs
<1>4. PICK n \in Nat : n = Len(turns)
  OBVIOUS
<1>5. ASSUME NEW i \in 1..Len(Trimmed(all))
      PROVE  \/ Trimmed(all)[i].chat = c
             \/ \E j \in 1..Len(turns) : Trimmed(all)[i].chat = turns[j].chat
  <2>1. i \in 1..((n + 2) - k) /\ Trimmed(all)[i] = all[i + k]
    BY <1>2, <1>3, <1>4
  <2>2. i + k \in 1..n \/ i + k = n + 1 \/ i + k = n + 2
    BY <2>1
  <2>3. QED
    BY <1>2, <1>4, <2>1, <2>2
<1>6. QED
  BY <1>1, <1>3, <1>5

\* Together: what append() makes of a stored list.
LEMMA AppendKeeps ==
  ASSUME NEW turns \in Seq(Turn), NEW c \in Chat, Whole(turns), Ordered(turns), Stored(turns),
         PriorIsOver, pc[c] \notin Over
  PROVE  Whole(Trimmed(turns \o Turns(c))) /\ Ordered(Trimmed(turns \o Turns(c)))
<1>1. turns \o Turns(c) \in Seq(Turn)
  BY Appended
<1>2. \A i \in 1..Len(turns) : turns[i].chat \in Chat
  <2>1. \A i \in 1..Len(turns) : turns[i] \in Turn
    BY ElementOfSeq
  <2>2. QED
    BY <2>1 DEF Turn
<1>3. \A i \in 1..Len(turns) : turns[i].chat # c /\ c \notin prior[turns[i].chat]
  BY <1>2 DEF Stored, PriorIsOver, Over
<1>4. c \notin prior[c]
  BY DEF PriorIsOver
<1>5. QED
  BY <1>1, <1>3, <1>4, AppendedWhole, AppendedOrdered, TrimmedWhole, TrimmedOrdered

-----------------------------------------------------------------------------
(* The invariant of a chat's life, list by list. *)

\* The lists, one by one.
LEMMA EveryList ==
  /\ WholeChats <=> /\ Whole(redis)
                    /\ \A r \in Replica : Whole(local[r])
                    /\ \A c \in Chat : Whole(merged[c])
  /\ InOrder <=> /\ Ordered(redis)
                 /\ \A r \in Replica : Ordered(local[r])
                 /\ \A c \in Chat : Ordered(merged[c])
BY DEF WholeChats, InOrder, Lists

LEMMA InitIInv == Init => IInv
<1> SUFFICES ASSUME Init
             PROVE  IInv
  OBVIOUS
<1>1. <<>> \in Seq(Turn) /\ Len(<<>>) = 0
  OBVIOUS
<1>2. TypeOK
  BY <1>1 DEF Init, TypeOK
<1>3. /\ redis = <<>> /\ \A r \in Replica : local[r] = <<>>
      /\ \A c \in Chat : merged[c] = <<>>
  BY DEF Init
<1>4. Whole(<<>>) /\ Ordered(<<>>) /\ Stored(<<>>)
  BY DEF Whole, Ordered, Stored
<1>5. WholeChats /\ InOrder
  BY <1>3, <1>4, EveryList
<1>6. StoresAreDone
  BY <1>3, <1>4 DEF StoresAreDone
<1>7. MergedIsOwn
  BY <1>3 DEF MergedIsOwn
<1>8. PriorIsOver /\ DraftIsGrounded /\ ReplyIsGrounded
  BY DEF Init, PriorIsOver, DraftIsGrounded, ReplyIsGrounded
<1>9. QED
  BY <1>2, <1>5, <1>6, <1>7, <1>8 DEF IInv

-----------------------------------------------------------------------------
(* What the steps have in common. *)

\* A chat that is over stays so; one that has merged is answered or lost.
PcGrows ==
  \A d \in Chat :
    \/ pc'[d] = pc[d]
    \/ pc[d] \notin Over /\ (pc[d] = "merged" => pc'[d] \in {"done", "lost"})

\* The lists after a step that lets prior alone.
LEMMA EveryListNext ==
  ASSUME prior' = prior
  PROVE  /\ WholeChats' <=> /\ Whole(redis')
                            /\ \A r \in Replica : Whole(local'[r])
                            /\ \A c \in Chat : Whole(merged'[c])
         /\ InOrder' <=> /\ Ordered(redis')
                         /\ \A r \in Replica : Ordered(local'[r])
                         /\ \A c \in Chat : Ordered(merged'[c])
<1>1. WholeChats' <=> /\ Whole(redis')
                      /\ \A r \in Replica : Whole(local'[r])
                      /\ \A c \in Chat : Whole(merged'[c])
  BY DEF WholeChats, Lists
<1>2. \A turns : Ordered(turns)' <=> Ordered(turns)
  BY DEF Ordered
<1>3. InOrder' <=> \A turns \in Lists' : Ordered(turns)
  BY <1>2 DEF InOrder
<1>4. QED
  BY <1>1, <1>3 DEF Lists

\* The turns of a list are of chats.
LEMMA TurnsOfChats ==
  ASSUME NEW turns \in Seq(Turn)
  PROVE  \A i \in 1..Len(turns) : turns[i].chat \in Chat
<1>1. \A i \in 1..Len(turns) : turns[i] \in Turn
  BY ElementOfSeq
<1>2. QED
  BY <1>1 DEF Turn

\* Stored turns remain those of answered chats.
LEMMA StoredKept ==
  ASSUME PcGrows, NEW turns \in Seq(Turn), Stored(turns)
  PROVE  \A i \in 1..Len(turns) : pc'[turns[i].chat] = "done"
<1>1. \A i \in 1..Len(turns) : turns[i].chat \in Chat
  BY TurnsOfChats
<1>2. \A d \in Chat : pc[d] = "done" => pc'[d] = "done"
  BY DEF PcGrows, Over
<1>3. QED
  BY <1>1, <1>2 DEF Stored

\* Lists that are left alone stay as they should be.
LEMMA PriorKept ==
  ASSUME IInv, PcGrows, prior' = prior
  PROVE  PriorIsOver'
<1>1. \A c \in Chat : prior[c] \subseteq Chat
  BY DEF IInv, TypeOK
<1>2. QED
  BY <1>1 DEF PcGrows, IInv, PriorIsOver

LEMMA RedisKept ==
  ASSUME IInv, PcGrows, redis' = redis
  PROVE  Stored(redis)'
<1>1. PICK turns \in Seq(Turn) : turns = redis
  BY DEF IInv, TypeOK
<1>2. QED
  BY <1>1, StoredKept DEF IInv, StoresAreDone, Stored

LEMMA LocalKept ==
  ASSUME IInv, PcGrows, NEW r \in Replica, local'[r] = local[r]
  PROVE  Stored(local[r])'
<1>1. PICK turns \in Seq(Turn) : turns = local[r]
  BY DEF IInv, TypeOK
<1>2. QED
  BY <1>1, StoredKept DEF IInv, StoresAreDone, Stored

LEMMA MergedKept ==
  ASSUME IInv, PcGrows, NEW c \in Chat, merged'[c] = merged[c]
  PROVE  \A i \in 1..Len(merged'[c]) :
           \/ pc'[merged'[c][i].chat] = "done"
           \/ merged'[c][i].chat = c /\ pc'[c] \in {"merged", "lost"}
<1>1. PICK turns \in Seq(Turn) : turns = merged[c]
  BY DEF IInv, TypeOK
<1>2. ASSUME NEW i \in 1..Len(turns)
      PROVE  \/ pc'[turns[i].chat] = "done"
             \/ turns[i].chat = c /\ pc'[c] \in {"merged", "lost"}
  <2>1. turns[i].chat \in Chat
    BY TurnsOfChats
  <2>2. \/ pc[turns[i].chat] = "done"
        \/ turns[i].chat = c /\ pc[c] \in {"merged", "lost"}
    BY <1>1 DEF IInv, MergedIsOwn
  <2>3. QED
    BY <2>1, <2>2 DEF PcGrows, Over
<1>3. QED
  BY <1>1, <1>2

\* A step that touches neither the lists nor prior.
LEMMA QuietStep ==
  ASSUME IInv, PcGrows, UNCHANGED <<merged, prior, store>>
  PROVE  PriorIsOver' /\ StoresAreDone' /\ MergedIsOwn' /\ WholeChats' /\ InOrder'
<1>1. redis' = redis /\ local' = local
  BY DEF store
<1>2. PriorIsOver'
  BY PriorKept
<1>3. StoresAreDone'
  BY <1>1, RedisKept, LocalKept DEF StoresAreDone
<1>4. MergedIsOwn'
  BY MergedKept DEF MergedIsOwn
<1>5. WholeChats' /\ InOrder'
  BY <1>1, EveryList, EveryListNext DEF IInv
<1>6. QED
  BY <1>2, <1>3, <1>4, <1>5

-----------------------------------------------------------------------------
(* One lemma for each action. *)

LEMMA RefuseKeeps ==
  ASSUME IInv, NEW c \in Chat, Refuse(c)
  PROVE  IInv'
<1> USE DEF Refuse, IInv
<1>1. TypeOK'
  BY DEF TypeOK, answer, store, Over
<1>2. PcGrows
  BY DEF PcGrows, TypeOK, Over
<1>3. DraftIsGrounded' /\ ReplyIsGrounded'
  BY DEF DraftIsGrounded, ReplyIsGrounded, TypeOK, answer
<1>4. QED
  BY <1>1, <1>2, <1>3, QuietStep

LEMMA RetrieveKeeps ==
  ASSUME IInv, NEW c \in Chat, Retrieve(c)
  PROVE  IInv'
<1> USE DEF Retrieve, IInv
<1>1. TypeOK'
  BY DEF TypeOK, store
<1>2. PcGrows
  BY DEF PcGrows, TypeOK, Over
<1>3. DraftIsGrounded' /\ ReplyIsGrounded'
  BY DEF DraftIsGrounded, ReplyIsGrounded, TypeOK
<1>4. QED
  BY <1>1, <1>2, <1>3, QuietStep

\* The rewrite is accepted only with the figures of the draft, so the reply has those.
LEMMA RespondKeeps ==
  ASSUME IInv, NEW c \in Chat, Respond(c)
  PROVE  IInv'
<1> USE DEF Respond, IInv
<1>1. reply' = [reply EXCEPT ![c] = draft[c]]
  BY DEF valid_rewrite
<1>2. TypeOK'
  BY <1>1 DEF TypeOK, store
<1>3. PcGrows
  BY DEF PcGrows, TypeOK, Over
<1>4. DraftIsGrounded' /\ ReplyIsGrounded'
  BY <1>1 DEF DraftIsGrounded, ReplyIsGrounded, TypeOK
<1>5. QED
  BY <1>2, <1>3, <1>4, QuietStep

LEMMA LedgerChangeKeeps ==
  ASSUME IInv, LedgerChange
  PROVE  IInv'
<1> USE DEF LedgerChange, IInv
<1>1. TypeOK'
  BY DEF TypeOK, answer, store
<1>2. PcGrows
  BY DEF PcGrows
<1>3. DraftIsGrounded' /\ ReplyIsGrounded'
  BY DEF DraftIsGrounded, ReplyIsGrounded, TypeOK, answer
<1>4. QED
  BY <1>1, <1>2, <1>3, QuietStep

\* A chat begins: only its own entry of prior changes, and no list has it yet.
LEMMA AskKeeps ==
  ASSUME IInv, NEW c \in Chat, Ask(c)
  PROVE  IInv'
<1> USE DEF Ask, IInv
<1>1. redis' = redis /\ local' = local /\ draft' = draft /\ reply' = reply
  BY DEF store, answer
<1>2. pc[c] = "new" /\ pc' = [pc EXCEPT ![c] = "asked"]
  OBVIOUS
<1>3. PICK turns : turns \in Readings(c) /\ seen' = [seen EXCEPT ![c] = turns]
  OBVIOUS
<1>4. turns \in Seq(Turn)
  BY <1>3 DEF Readings, TypeOK
<1>5. prior' = [prior EXCEPT ![c] = {d \in Chat : pc[d] \in Over}]
  OBVIOUS
<1>6. TypeOK'
  BY <1>1, <1>3, <1>4 DEF TypeOK
<1>7. PcGrows
  BY DEF PcGrows, TypeOK, Over
<1>8. PriorIsOver'
  <2> SUFFICES ASSUME NEW e \in Chat, NEW d \in prior'[e]
               PROVE  pc'[d] \in Over /\ d # e
    BY DEF PriorIsOver
  <2>1. CASE e = c
    <3>1. d \in Chat /\ pc[d] \in Over
      BY <1>5, <2>1 DEF TypeOK
    <3>2. QED
      BY <1>2, <2>1, <3>1 DEF TypeOK, Over
  <2>2. CASE e # c
    <3>1. d \in prior[e] /\ d \in Chat
      BY <1>5, <2>2 DEF TypeOK
    <3>2. pc[d] \in Over /\ d # e
      BY <3>1 DEF PriorIsOver
    <3>3. QED
      BY <1>2, <3>1, <3>2 DEF TypeOK, Over
  <2>3. QED
    BY <2>1, <2>2
<1>9. StoresAreDone'
  BY <1>1, <1>7, RedisKept, LocalKept DEF StoresAreDone
<1>10. MergedIsOwn'
  BY <1>7, MergedKept DEF MergedIsOwn
<1>11. WholeChats'
  BY <1>1 DEF WholeChats, Lists
<1>12. InOrder'
  <2>1. ASSUME NEW l \in Seq(Turn), Ordered(l),
               \A i \in 1..Len(l) : l[i].chat # c
        PROVE  Ordered(l)'
    <3>1. \A i \in 1..Len(l) : l[i].chat \in Chat
      BY TurnsOfChats
    <3>2. \A i \in 1..Len(l) : prior'[l[i].chat] = prior[l[i].chat]
      BY <1>5, <2>1, <3>1 DEF TypeOK
    <3>3. QED
      BY <2>1, <3>2 DEF Ordered
  <2>2. ASSUME NEW l \in Lists
        PROVE  l \in Seq(Turn) /\ \A i \in 1..Len(l) : l[i].chat # c
    <3>1. CASE l = redis
      BY <1>2, <3>1 DEF TypeOK, StoresAreDone, Stored
    <3>2. CASE \E r \in Replica : l = local[r]
      BY <1>2, <3>2 DEF TypeOK, StoresAreDone, Stored
    <3>3. CASE \E d \in Chat : l = merged[d]
      <4>1. PICK d \in Chat : l = merged[d]
        BY <3>3
      <4>2. \A i \in 1..Len(l) : \/ pc[l[i].chat] = "done"
                                 \/ l[i].chat = d /\ pc[d] \in {"merged", "lost"}
        BY <4>1 DEF MergedIsOwn
      <4>3. \A i \in 1..Len(l) : pc[l[i].chat] # "new"
        BY <4>2
      <4>4. l \in Seq(Turn)
        BY <4>1 DEF TypeOK
      <4>5. QED
        BY <1>2, <4>3, <4>4
    <3>4. QED
      BY <3>1, <3>2, <3>3 DEF Lists
  <2>3. Lists' = Lists
    BY <1>1 DEF Lists
  <2>4. QED
    BY <2>1, <2>2, <2>3 DEF InOrder
<1>13. DraftIsGrounded' /\ ReplyIsGrounded'
  BY <1>1 DEF DraftIsGrounded, ReplyIsGrounded, TypeOK
<1>14. QED
  BY <1>6, <1>8, <1>9, <1>10, <1>11, <1>12, <1>13

\* The list that append() is about to write.
LEMMA MergeKeeps ==
  ASSUME IInv, NEW c \in Chat, Merge(c)
  PROVE  IInv'
<1> USE DEF Merge, IInv
<1>1. redis' = redis /\ local' = local /\ draft' = draft /\ reply' = reply /\ prior' = prior
  BY DEF store, answer
<1>2. pc[c] = "replied" /\ pc' = [pc EXCEPT ![c] = "merged"]
  OBVIOUS
<1>3. PICK turns : /\ turns \in Readings(c)
                   /\ merged' = [merged EXCEPT ![c] = Trimmed(turns \o Turns(c))]
  OBVIOUS
<1>4. turns \in Seq(Turn) /\ Whole(turns) /\ Ordered(turns) /\ Stored(turns)
  <2>1. at[c] \in Replica /\ turns \in {redis, local[at[c]]}
    BY <1>3 DEF Readings, TypeOK
  <2>2. QED
    BY <2>1, EveryList DEF TypeOK, StoresAreDone
<1>5. PICK new : new = Trimmed(turns \o Turns(c))
  OBVIOUS
<1>6. /\ new \in Seq(Turn)
      /\ \A i \in 1..Len(new) :
           new[i].chat = c \/ \E j \in 1..Len(turns) : new[i].chat = turns[j].chat
  BY <1>4, <1>5, ResultTurns
<1>7. Whole(new) /\ Ordered(new)
  <2>1. pc[c] \notin Over
    BY <1>2 DEF Over
  <2>2. QED
    BY <1>4, <1>5, <2>1, AppendKeeps
<1>8. merged'[c] = new /\ \A d \in Chat : d # c => merged'[d] = merged[d]
  BY <1>3, <1>5 DEF TypeOK
<1>9. TypeOK'
  BY <1>1, <1>3, <1>5, <1>6 DEF TypeOK
<1>10. PcGrows
  BY DEF PcGrows, TypeOK, Over
<1>11. PriorIsOver'
  BY <1>1, <1>10, PriorKept
<1>12. StoresAreDone'
  BY <1>1, <1>10, RedisKept, LocalKept DEF StoresAreDone
<1>13. MergedIsOwn'
  <2>1. \A j \in 1..Len(turns) : pc'[turns[j].chat] = "done"
    BY <1>4, <1>10, StoredKept
  <2>2. pc'[c] = "merged"
    BY <1>2 DEF TypeOK
  <2>3. ASSUME NEW d \in Chat, NEW i \in 1..Len(merged'[d])
        PROVE  \/ pc'[merged'[d][i].chat] = "done"
               \/ merged'[d][i].chat = d /\ pc'[d] \in {"merged", "lost"}
    <3>1. CASE d = c
      BY <1>6, <1>8, <2>1, <2>2, <3>1
    <3>2. CASE d # c
      BY <1>8, <1>10, <3>2, MergedKept
    <3>3. QED
      BY <3>1, <3>2
  <2>4. QED
    BY <2>3 DEF MergedIsOwn
<1>14. WholeChats' /\ InOrder'
  <2>1. \A d \in Chat : Whole(merged'[d]) /\ Ordered(merged'[d])
    BY <1>7, <1>8, EveryList
  <2>2. QED
    BY <1>1, <2>1, EveryList, EveryListNext
<1>15. DraftIsGrounded' /\ ReplyIsGrounded'
  BY <1>1 DEF DraftIsGrounded, ReplyIsGrounded, TypeOK
<1>16. QED
  BY <1>9, <1>11, <1>12, <1>13, <1>14, <1>15

\* The end of a chat, whatever the stores hold by then.
LEMMA AnsweredKeeps ==
  ASSUME IInv, NEW c \in Chat, pc[c] = "merged", Answered(c),
         redis' \in {redis, merged[c]}, local' \in [Replica -> Seq(Turn)],
         \A r \in Replica : /\ Whole(local'[r]) /\ Ordered(local'[r])
                            /\ \A i \in 1..Len(local'[r]) : pc'[local'[r][i].chat] = "done"
  PROVE  IInv'
<1> USE DEF Answered, IInv
<1>1. draft' = draft /\ reply' = reply /\ prior' = prior /\ merged' = merged
  BY DEF answer
<1>2. pc' = [pc EXCEPT ![c] = "done"]
  OBVIOUS
<1>3. TypeOK'
  BY <1>1, <1>2 DEF TypeOK, Over
<1>4. PcGrows
  BY <1>2 DEF PcGrows, TypeOK, Over
<1>5. PriorIsOver'
  BY <1>1, <1>4, PriorKept
<1>6. MergedIsOwn'
  BY <1>1, <1>4, MergedKept DEF MergedIsOwn
<1>7. \A i \in 1..Len(redis') : pc'[redis'[i].chat] = "done"
  <2>1. CASE redis' = redis
    BY <1>4, <2>1, RedisKept DEF Stored
  <2>2. CASE redis' = merged[c]
    <3>1. pc'[c] = "done"
      BY <1>2 DEF TypeOK
    <3>2. QED
      BY <1>1, <1>4, <2>2, <3>1, MergedKept
  <2>3. QED
    BY <2>1, <2>2
<1>8. StoresAreDone'
  BY <1>7 DEF StoresAreDone, Stored
<1>9. WholeChats' /\ InOrder'
  BY <1>1, EveryList, EveryListNext
<1>10. DraftIsGrounded' /\ ReplyIsGrounded'
  BY <1>1 DEF DraftIsGrounded, ReplyIsGrounded, TypeOK
<1>11. QED
  BY <1>3, <1>5, <1>6, <1>8, <1>9, <1>10

LEMMA WriteKeeps ==
  ASSUME IInv, NEW c \in Chat, Write(c)
  PROVE  IInv'
<1>1. pc[c] = "merged" /\ Answered(c) /\ redis' = merged[c] /\ local' = local
  BY DEF Write
<1>2. PcGrows
  BY <1>1 DEF Answered, PcGrows, IInv, TypeOK, Over
<1>3. \A r \in Replica : \A i \in 1..Len(local'[r]) : pc'[local'[r][i].chat] = "done"
  BY <1>1, <1>2, LocalKept DEF Stored
<1>4. local' \in [Replica -> Seq(Turn)]
  BY <1>1 DEF IInv, TypeOK
<1>5. \A r \in Replica : Whole(local'[r]) /\ Ordered(local'[r])
  BY <1>1, EveryList DEF IInv
<1>6. QED
  BY <1>1, <1>3, <1>4, <1>5, AnsweredKeeps

\* The fallback gets the turns of a chat that it cannot have yet.
LEMMA WriteFailsKeeps ==
  ASSUME IInv, NEW c \in Chat, WriteFails(c)
  PROVE  IInv'
<1>1. /\ pc[c] = "merged" /\ Answered(c) /\ redis' \in {redis, merged[c]}
      /\ local' = [local EXCEPT ![at[c]] = Trimmed(local[at[c]] \o Turns(c))]
  BY DEF WriteFails
<1>2. PICK r \in Replica : r = at[c]
  BY DEF IInv, TypeOK
<1>3. PICK turns \in Seq(Turn) : turns = local[r]
  BY DEF IInv, TypeOK
<1>4. Whole(turns) /\ Ordered(turns) /\ Stored(turns)
  BY <1>3, EveryList DEF IInv, StoresAreDone
<1>5. PICK new : new = Trimmed(turns \o Turns(c))
  OBVIOUS
<1>6. /\ new \in Seq(Turn)
      /\ \A i \in 1..Len(new) :
           new[i].chat = c \/ \E j \in 1..Len(turns) : new[i].chat = turns[j].chat
  BY <1>5, ResultTurns
<1>7. Whole(new) /\ Ordered(new)
  <2>1. pc[c] \notin Over
    BY <1>1 DEF Over
  <2>2. QED
    BY <1>4, <1>5, <2>1, AppendKeeps DEF IInv
<1>8. /\ local' \in [Replica -> Seq(Turn)] /\ local'[r] = new
      /\ \A q \in Replica : q # r => local'[q] = local[q]
  BY <1>1, <1>2, <1>3, <1>5, <1>6 DEF IInv, TypeOK
<1>9. PcGrows /\ pc'[c] = "done"
  BY <1>1 DEF Answered, PcGrows, IInv, TypeOK, Over
<1>10. ASSUME NEW q \in Replica
       PROVE  /\ Whole(local'[q]) /\ Ordered(local'[q])
              /\ \A i \in 1..Len(local'[q]) : pc'[local'[q][i].chat] = "done"
  <2>1. CASE q = r
    <3>1. \A j \in 1..Len(turns) : pc'[turns[j].chat] = "done"
      BY <1>4, <1>9, StoredKept
    <3>2. QED
      BY <1>6, <1>7, <1>8, <1>9, <2>1, <3>1
  <2>2. CASE q # r
    <3>1. Stored(local[q])'
      BY <1>8, <1>9, <2>2, LocalKept
    <3>2. QED
      BY <1>8, <2>2, <3>1, EveryList DEF Stored, IInv
  <2>3. QED
    BY <2>1, <2>2
<1>11. QED
  BY <1>1, <1>8, <1>10, AnsweredKeeps

\* The empty list is as it should be.
LEMMA EmptyList == Whole(<<>>) /\ Ordered(<<>>) /\ <<>> \in Seq(Turn) /\ Len(<<>>) = 0
BY DEF Whole, Ordered

LEMMA RestartKeeps ==
  ASSUME IInv, NEW r \in Replica, Restart(r)
  PROVE  IInv'
<1> USE DEF Restart, IInv
<1>1. /\ redis' = redis /\ draft' = draft /\ reply' = reply /\ prior' = prior /\ merged' = merged
      /\ at' = at /\ seen' = seen /\ begun' = begun /\ ledger' = ledger
  BY DEF answer
<1>2. /\ local' \in [Replica -> Seq(Turn)] /\ local'[r] = <<>>
      /\ \A q \in Replica : q # r => local'[q] = local[q]
  BY EmptyList DEF TypeOK
<1>3. \A d \in Chat : pc'[d] = pc[d] \/ (pc'[d] = "lost" /\ pc[d] \notin Over)
  OBVIOUS
<1>4. TypeOK'
  BY <1>1, <1>2, <1>3 DEF TypeOK, Over
<1>5. PcGrows
  BY <1>3 DEF PcGrows
<1>6. PriorIsOver'
  BY <1>1, <1>5, PriorKept
<1>7. MergedIsOwn'
  BY <1>1, <1>5, MergedKept DEF MergedIsOwn
<1>8. StoresAreDone'
  <2>1. ASSUME NEW q \in Replica
        PROVE  Stored(local[q])'
    <3>1. CASE q = r
      BY <1>2, <3>1, EmptyList DEF Stored
    <3>2. CASE q # r
      BY <1>2, <1>5, <3>2, LocalKept
    <3>3. QED
      BY <3>1, <3>2
  <2>2. QED
    BY <1>1, <1>5, <2>1, RedisKept DEF StoresAreDone
<1>9. WholeChats' /\ InOrder'
  <2>1. \A q \in Replica : Whole(local'[q]) /\ Ordered(local'[q])
    BY <1>2, EveryList, EmptyList
  <2>2. QED
    BY <1>1, <2>1, EveryList, EveryListNext
<1>10. DraftIsGrounded' /\ ReplyIsGrounded'
  BY <1>1, <1>3 DEF DraftIsGrounded, ReplyIsGrounded
<1>11. QED
  BY <1>4, <1>6, <1>7, <1>8, <1>9, <1>10

LEMMA ExpireKeeps ==
  ASSUME IInv, Expire
  PROVE  IInv'
<1> USE DEF Expire, IInv
<1>1. PcGrows
  BY DEF PcGrows
<1>2. TypeOK'
  BY EmptyList DEF TypeOK, answer
<1>3. PriorIsOver'
  BY <1>1, PriorKept
<1>4. MergedIsOwn'
  BY <1>1, MergedKept DEF MergedIsOwn
<1>5. StoresAreDone'
  <2>1. Stored(redis)'
    BY EmptyList DEF Stored
  <2>2. QED
    BY <1>1, <2>1, LocalKept DEF StoresAreDone
<1>6. WholeChats' /\ InOrder'
  BY EmptyList, EveryList, EveryListNext
<1>7. DraftIsGrounded' /\ ReplyIsGrounded'
  BY DEF DraftIsGrounded, ReplyIsGrounded, answer
<1>8. QED
  BY <1>2, <1>3, <1>4, <1>5, <1>6, <1>7

-----------------------------------------------------------------------------
LEMMA NextIInv == IInv /\ [Next]_vars => IInv'
<1> SUFFICES ASSUME IInv, [Next]_vars
             PROVE  IInv'
  OBVIOUS
<1>1. ASSUME NEW c \in Chat,
             \/ Refuse(c) \/ Ask(c) \/ Retrieve(c) \/ Respond(c)
             \/ Merge(c) \/ Write(c) \/ WriteFails(c)
      PROVE  IInv'
  BY <1>1, RefuseKeeps, AskKeeps, RetrieveKeeps, RespondKeeps, MergeKeeps, WriteKeeps,
     WriteFailsKeeps
<1>2. ASSUME NEW r \in Replica, Restart(r)
      PROVE  IInv'
  BY <1>2, RestartKeeps
<1>3. CASE UNCHANGED vars
  <2> USE <1>3 DEF vars, IInv
  <2>1. TypeOK' /\ DraftIsGrounded' /\ ReplyIsGrounded'
    BY DEF TypeOK, DraftIsGrounded, ReplyIsGrounded, answer, store
  <2>2. PcGrows
    BY DEF PcGrows
  <2>3. QED
    BY <2>1, <2>2, QuietStep
<1>4. QED
  BY <1>1, <1>2, <1>3, ExpireKeeps, LedgerChangeKeeps DEF Next

\* The parts of IInv hold in every reachable state of a conversation.
THEOREM Invariant == Spec => []IInv
<1>1. QED
  BY InitIInv, NextIInv, PTL DEF Spec

\* No list, in Redis, in a process or on its way, ever separates a question from its answer.
THEOREM ChatsStayWhole == Spec => []WholeChats
<1>1. IInv => WholeChats
  BY DEF IInv
<1>2. QED
  BY <1>1, Invariant, PTL

\* Nor does one repeat a turn, or tell a chat before one that was over when it began.
THEOREM ChatsStayInOrder == Spec => []InOrder
<1>1. IInv => InOrder
  BY DEF IInv
<1>2. QED
  BY <1>1, Invariant, PTL

\* The figures of a reply are no older than its question, whatever the model was given.
THEOREM RepliesAreGrounded == Spec => []ReplyIsGrounded
<1>1. IInv => ReplyIsGrounded
  BY DEF IInv
<1>2. QED
  BY <1>1, Invariant, PTL
=============================================================================
