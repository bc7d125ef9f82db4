--------------------------- MODULE Speech_proofs ---------------------------
(***************************************************************************)
(* The theorems about speech, for every value of the constants: those of   *)
(* the semaphore that limits the syntheses, and those of a guild's queue   *)
(* and its worker.                                                         *)
(***************************************************************************)
EXTENDS PrioritySemaphore, GuildSpeech, FiniteLemmas

(***************************************************************************)
(* The semaphore, for every finite set of tasks, every number of slots and *)
(* every streak.  What carries the induction is that a pending task is     *)
(* never forgotten (it stands in a queue), that a free slot means empty    *)
(* queues, and that slots are counted right.                               *)
(***************************************************************************)
InAQueue(t) == InQueue(t, foreground) \/ InQueue(t, background)
PendingQueued == \A t \in Tasks : state[t] = "pending" => InAQueue(t)
FreeMeansEmpty == value > 0 => foreground = <<>> /\ background = <<>>

SemaphoreInv ==
    /\ SemaphoreTypeOK
    /\ SlotsConserved
    /\ PendingQueued
    /\ FreeMeansEmpty

-----------------------------------------------------------------------------
\* A queue with live waiters has a first one, which is pending.
LEMMA FirstIsLive ==
    ASSUME NEW q \in Seq(Tasks), Live(q) # {}
    PROVE  /\ First(q) \in 1..Len(q)
           /\ q[First(q)] \in Tasks
           /\ state[q[First(q)]] = "pending"
           /\ \A k \in Live(q) : First(q) <= k
<1>1. Live(q) \subseteq Nat
  BY DEF Live
<1>2. PICK i \in Live(q) : \A k \in Live(q) : i <= k
  BY <1>1, LeastElement
<1>3. First(q) \in Live(q) /\ \A k \in Live(q) : First(q) <= k
  BY <1>2 DEF First
<1> QED
  BY <1>3 DEF Live

\* Serving a queue loses no pending task but the one that is served.
LEMMA AfterKeepsOthers ==
    ASSUME NEW q \in Seq(Tasks)
    PROVE  /\ After(q) \in Seq(Tasks)
           /\ \A u \in Tasks :
                 /\ state[u] = "pending" /\ InQueue(u, q)
                 /\ Live(q) # {} => u # q[First(q)]
                 => InQueue(u, After(q))
<1>1. CASE Live(q) = {}
  BY <1>1 DEF After, Live, InQueue
<1>2. CASE Live(q) # {}
  <2> DEFINE f == First(q)
             n == Len(q)
             s == SubSeq(q, f + 1, n)
  <2>1. f \in 1..n /\ n \in Nat /\ \A k \in Live(q) : f <= k
    BY <1>2, FirstIsLive
  <2>2. /\ s \in Seq(Tasks)
        /\ Len(s) = IF f + 1 <= n THEN n - f ELSE 0
        /\ \A i \in 1..(n - f) : s[i] = q[f + i]
    <3>1. f + 1 \in Int /\ n \in Int /\ \A i \in (f + 1)..n : q[i] \in Tasks
      BY <2>1
    <3> HIDE DEF f, n, s
    <3>2. /\ SubSeq(q, f + 1, n) \in Seq(Tasks)
          /\ Len(SubSeq(q, f + 1, n)) =
                IF f + 1 <= n THEN n - (f + 1) + 1 ELSE 0
          /\ \A i \in 1..(n - (f + 1) + 1) :
                SubSeq(q, f + 1, n)[i] = q[(f + 1) + i - 1]
      BY <3>1, SubSeqProperties
    <3> QED
      BY <2>1, <3>2 DEF s
  <2>3. After(q) = s
    BY <1>2 DEF After
  <2> HIDE DEF s
  <2>4. ASSUME NEW u \in Tasks, state[u] = "pending", InQueue(u, q), u # q[f]
        PROVE  InQueue(u, s)
    <3>1. PICK i \in DOMAIN q : q[i] = u
      BY <2>4 DEF InQueue
    <3>2. i \in Live(q)
      BY <2>4, <3>1 DEF Live
    <3>3. i \in 1..n /\ i > f
      BY <2>1, <2>4, <3>1, <3>2
    <3>4. i - f \in 1..(n - f) /\ i - f \in 1..Len(s) /\ f + (i - f) = i
      BY <2>1, <2>2, <3>3
    <3>5. s[i - f] = u
      BY <2>2, <3>1, <3>4
    <3> QED
      BY <2>2, <3>4, <3>5 DEF InQueue
  <2> QED
    BY <1>2, <2>2, <2>3, <2>4
<1> QED
  BY <1>1, <1>2

\* Taking one task out of a queue leaves the others in it.
LEMMA WithoutKeepsOthers ==
    ASSUME NEW q \in Seq(Tasks), NEW t \in Tasks
    PROVE  /\ Without(q, t) \in Seq(Tasks)
           /\ \A u \in Tasks \ {t} : InQueue(u, q) => InQueue(u, Without(q, t))
<1>1. CASE ~InQueue(t, q)
  BY <1>1 DEF Without
<1>2. CASE InQueue(t, q)
  <2> DEFINE j == CHOOSE i \in DOMAIN q : q[i] = t
             n == Len(q)
             a == SubSeq(q, 1, j - 1)
             b == SubSeq(q, j + 1, n)
  <2>1. j \in 1..n /\ q[j] = t /\ n \in Nat
    BY <1>2 DEF InQueue
  <2>2. Without(q, t) = a \o b
    BY <1>2 DEF Without
  <2> HIDE DEF j
  <2>3. /\ a \in Seq(Tasks) /\ Len(a) = j - 1
        /\ \A i \in 1..(j - 1) : a[i] = q[i]
    <3>1. j - 1 \in Int /\ \A i \in 1..(j - 1) : q[i] \in Tasks
      BY <2>1
    <3>2. /\ SubSeq(q, 1, j - 1) \in Seq(Tasks)
          /\ Len(SubSeq(q, 1, j - 1)) =
                IF 1 <= j - 1 THEN (j - 1) - 1 + 1 ELSE 0
          /\ \A i \in 1..((j - 1) - 1 + 1) :
                SubSeq(q, 1, j - 1)[i] = q[1 + i - 1]
      BY <3>1, SubSeqProperties
    <3> QED
      BY <2>1, <3>2
  <2>4. /\ b \in Seq(Tasks) /\ Len(b) = n - j
        /\ \A i \in 1..(n - j) : b[i] = q[j + i]
    <3>1. j + 1 \in Int /\ n \in Int /\ \A i \in (j + 1)..n : q[i] \in Tasks
      BY <2>1
    <3>2. /\ SubSeq(q, j + 1, n) \in Seq(Tasks)
          /\ Len(SubSeq(q, j + 1, n)) =
                IF j + 1 <= n THEN n - (j + 1) + 1 ELSE 0
          /\ \A i \in 1..(n - (j + 1) + 1) :
                SubSeq(q, j + 1, n)[i] = q[(j + 1) + i - 1]
      <4> HIDE DEF n
      <4> QED
        BY <3>1, SubSeqProperties
    <3> QED
      BY <2>1, <3>2
  <2> HIDE DEF a, b
  <2>5. /\ a \o b \in Seq(Tasks)
        /\ Len(a \o b) = Len(a) + Len(b)
        /\ \A i \in 1..(Len(a) + Len(b)) :
              (a \o b)[i] = IF i <= Len(a) THEN a[i] ELSE b[i - Len(a)]
    BY <2>3, <2>4, ConcatProperties
  <2>5a. DOMAIN (a \o b) = 1..Len(a \o b)
    BY <2>5, LenProperties
  <2>6. ASSUME NEW u \in Tasks \ {t}, InQueue(u, q)
        PROVE  InQueue(u, a \o b)
    <3>1. PICK i \in 1..n : q[i] = u
      BY <2>6 DEF InQueue
    <3>2. CASE i < j
      <4>1. i \in 1..Len(a \o b) /\ (a \o b)[i] = u
        BY <2>1, <2>3, <2>4, <2>5, <3>1, <3>2
      <4> QED
        BY <2>5a, <4>1, Zenon DEF InQueue
    <3>3. CASE i > j
      <4>1. /\ i - 1 \in 1..Len(a \o b) /\ ~(i - 1 <= Len(a))
            /\ (i - 1) - Len(a) = i - j /\ i - j \in 1..(n - j)
            /\ j + (i - j) = i
        BY <2>1, <2>3, <2>4, <2>5, <3>1, <3>3
      <4>2. (a \o b)[i - 1] = b[i - j] /\ b[i - j] = u
        BY <2>3, <2>4, <2>5, <3>1, <4>1
      <4> QED
        BY <2>5a, <4>1, <4>2, Zenon DEF InQueue
    <3> QED
      BY <2>1, <2>6, <3>1, <3>2, <3>3
  <2> QED
    BY <2>2, <2>5, <2>6
<1> QED
  BY <1>1, <1>2

\* Joining a queue's end.
LEMMA AppendQueues ==
    ASSUME NEW q \in Seq(Tasks), NEW t \in Tasks
    PROVE  /\ Append(q, t) \in Seq(Tasks)
           /\ InQueue(t, Append(q, t))
           /\ \A u \in Tasks : InQueue(u, q) => InQueue(u, Append(q, t))
BY AppendProperties DEF InQueue

-----------------------------------------------------------------------------
\* The tasks that have a slot are finitely many, and one of them more or less
\* is one slot more or less.
LEMMA TakenFinite == IsFiniteSet(WithSlot) /\ Cardinality(WithSlot) \in Nat
<1>1. WithSlot \subseteq Tasks
  BY DEF WithSlot
<1> QED
  BY <1>1, TasksAssumption, FS_Subset, FS_CardinalityType

LEMMA OneMoreTaken ==
    ASSUME NEW t, t \notin WithSlot
    PROVE  Cardinality(WithSlot \cup {t}) = Cardinality(WithSlot) + 1
BY TakenFinite, FS_AddElement

LEMMA OneLessTaken ==
    ASSUME NEW t \in WithSlot
    PROVE  Cardinality(WithSlot \ {t}) = Cardinality(WithSlot) - 1
BY TakenFinite, FS_RemoveElement

LEMMA HandedOver ==
    ASSUME NEW t \in WithSlot, NEW u, u \notin WithSlot
    PROVE  Cardinality((WithSlot \ {t}) \cup {u}) = Cardinality(WithSlot)
<1>1. IsFiniteSet(WithSlot \ {t}) /\ u \notin WithSlot \ {t}
  BY TakenFinite, FS_RemoveElement
<1>2. Cardinality((WithSlot \ {t}) \cup {u}) = Cardinality(WithSlot \ {t}) + 1
  BY <1>1, FS_AddElement
<1> QED
  BY <1>2, OneLessTaken, TakenFinite

\* What release finds: who is next stands at the head of the queue it serves,
\* and where nobody is next no live waiter is in either queue.
LEMMA WhoIsNext ==
    ASSUME SemaphoreTypeOK
    PROVE  /\ ~(ServesForeground /\ ServesBackground)
           /\ ServesForeground => /\ Live(foreground) # {}
                                  /\ NextTask = foreground[First(foreground)]
           /\ ServesBackground => /\ Live(background) # {}
                                  /\ NextTask = background[First(background)]
           /\ ServesForeground \/ ServesBackground =>
                 NextTask \in Tasks /\ state[NextTask] = "pending"
           /\ ~(ServesForeground \/ ServesBackground) =>
                 Live(foreground) = {} /\ Live(background) = {}
<1>1. foreground \in Seq(Tasks) /\ background \in Seq(Tasks)
  BY DEF SemaphoreTypeOK
<1>2. ~(ServesForeground /\ ServesBackground)
  BY DEF ServesForeground, ServesBackground
<1>3. ServesForeground => /\ Live(foreground) # {}
                          /\ NextTask = foreground[First(foreground)]
  BY DEF ServesForeground, NextTask
<1>4. ServesBackground => /\ Live(background) # {}
                          /\ NextTask = background[First(background)]
  BY <1>2 DEF ServesBackground, NextTask
<1>5. ~(ServesForeground \/ ServesBackground) =>
         Live(foreground) = {} /\ Live(background) = {}
  BY DEF ServesForeground, ServesBackground
<1> QED
  BY <1>1, <1>2, <1>3, <1>4, <1>5, FirstIsLive

LEMMA SemaphoreInitInv == SemaphoreInit => SemaphoreInv
<1> SUFFICES ASSUME SemaphoreInit PROVE SemaphoreInv
  OBVIOUS
<1>1. WithSlot = {}
  BY DEF SemaphoreInit, WithSlot
<1>2. Cardinality(WithSlot) = 0
  BY <1>1, FS_EmptySet
<1>3. SemaphoreTypeOK
  BY SlotsAssumption, StreakAssumption, EmptySeq DEF SemaphoreInit, SemaphoreTypeOK, State
<1> QED
  BY <1>2, <1>3, SlotsAssumption
     DEF SemaphoreInit, SemaphoreInv, SlotsConserved, PendingQueued, FreeMeansEmpty

\* release hands the slot of its task to the next waiter, or frees it when no
\* live waiter is left: then both queues are emptied.
LEMMA ReleaseInv ==
    ASSUME SemaphoreInv, NEW t \in Tasks, state[t] \in {"holding", "withdrawn"},
           ReleaseSlot(t)
    PROVE  SemaphoreInv'
<1>1. /\ SemaphoreTypeOK /\ t \in WithSlot
      /\ foreground \in Seq(Tasks) /\ background \in Seq(Tasks)
  BY DEF SemaphoreInv, SemaphoreTypeOK, WithSlot
<1>2. /\ foreground' \in Seq(Tasks) /\ background' \in Seq(Tasks)
      /\ streak' \in 0..MaxStreak
  <2>1. foreground' \in {foreground, After(foreground)}
    BY DEF ReleaseSlot
  <2>2. background' \in {background, After(background)}
    BY DEF ReleaseSlot
  <2>3. streak' \in 0..MaxStreak
    BY <1>1, StreakAssumption DEF SemaphoreTypeOK, ReleaseSlot
  <2> QED
    BY <1>1, <2>1, <2>2, <2>3, AfterKeepsOthers
<1>3. CASE ServesForeground \/ ServesBackground
  <2> DEFINE u == NextTask
  <2>1. /\ u \in Tasks /\ state[u] = "pending" /\ u # t /\ u \notin WithSlot
        /\ state' = [state EXCEPT ![t] = "idle", ![u] = "granted"]
        /\ value' = value
    BY <1>1, <1>3, WhoIsNext DEF ReleaseSlot, Raised, WithSlot
  <2> HIDE DEF u
  <2>2. SemaphoreTypeOK'
    BY <1>1, <1>2, <2>1 DEF SemaphoreTypeOK, State
  <2>3. SlotsConserved'
    <3>1. WithSlot' = (WithSlot \ {t}) \cup {u}
      BY <1>1, <2>1 DEF WithSlot, SemaphoreTypeOK
    <3> QED
      BY <1>1, <2>1, <3>1, HandedOver DEF SemaphoreInv, SlotsConserved
  <2>4. FreeMeansEmpty'
    <3>1. value = 0
      <4>1. ServesForeground => foreground # <<>>
        BY WhoIsNext, <1>1, EmptySeq DEF Live
      <4>2. ServesBackground => background # <<>>
        BY WhoIsNext, <1>1, EmptySeq DEF Live
      <4> QED
        BY <1>1, <1>3, <4>1, <4>2, SlotsAssumption DEF SemaphoreInv, FreeMeansEmpty, SemaphoreTypeOK
    <3> QED
      BY <2>1, <3>1 DEF FreeMeansEmpty
  <2>5. ASSUME NEW w \in Tasks, state'[w] = "pending"
        PROVE  InAQueue(w)'
    <3>1. state[w] = "pending" /\ w # u
      BY <1>1, <2>1, <2>5 DEF SemaphoreTypeOK
    <3>2. InQueue(w, foreground) => InQueue(w, foreground')
      <4>1. foreground' \in {foreground, After(foreground)}
        BY DEF ReleaseSlot
      <4>2. Live(foreground) # {} /\ foreground' = After(foreground) =>
               foreground' = foreground \/ u = foreground[First(foreground)]
        BY <1>1, <1>3, WhoIsNext
           DEF u, ReleaseSlot, ServesForeground, ServesBackground
      <4> QED
        BY <1>1, <3>1, <4>1, <4>2, AfterKeepsOthers
    <3>3. InQueue(w, background) => InQueue(w, background')
      <4>1. background' \in {background, After(background)}
        BY DEF ReleaseSlot
      <4>2. Live(background) # {} /\ background' = After(background) =>
               background' = background \/ u = background[First(background)]
        BY <1>1, <1>3, WhoIsNext
           DEF u, ReleaseSlot, ServesForeground, ServesBackground
      <4> QED
        BY <1>1, <3>1, <4>1, <4>2, AfterKeepsOthers
    <3> QED
      BY <3>1, <3>2, <3>3 DEF SemaphoreInv, PendingQueued, InAQueue, InQueue
  <2> QED
    BY <2>2, <2>3, <2>4, <2>5 DEF SemaphoreInv, PendingQueued
<1>4. CASE ~(ServesForeground \/ ServesBackground)
  <2>1. /\ Live(foreground) = {} /\ Live(background) = {}
        /\ state' = [state EXCEPT ![t] = "idle"]
        /\ value' = value + 1
        /\ foreground' = <<>> /\ background' = <<>>
    BY <1>1, <1>4, WhoIsNext DEF ReleaseSlot, Raised, After
  <2>2. WithSlot' = WithSlot \ {t}
    BY <1>1, <2>1 DEF WithSlot, SemaphoreTypeOK
  <2>3. value + Cardinality(WithSlot) = Slots /\ Cardinality(WithSlot') = Cardinality(WithSlot) - 1
    BY <1>1, <2>2, OneLessTaken DEF SemaphoreInv, SlotsConserved
  <2>4. Cardinality(WithSlot') \in Nat
    BY <1>1, <2>2, TakenFinite, FS_RemoveElement, FS_CardinalityType
  <2>5. SlotsConserved' /\ value' \in 0..Slots
    BY <1>1, <2>1, <2>3, <2>4, TakenFinite, SlotsAssumption DEF SlotsConserved, SemaphoreTypeOK
  <2>6. SemaphoreTypeOK'
    BY <1>1, <1>2, <2>1, <2>5 DEF SemaphoreTypeOK, State
  <2>7. PendingQueued'
    BY <1>1, <2>1 DEF SemaphoreInv, PendingQueued, InAQueue, InQueue, Live, SemaphoreTypeOK
  <2> QED
    BY <2>1, <2>5, <2>6, <2>7 DEF SemaphoreInv, FreeMeansEmpty
<1> QED
  BY <1>3, <1>4

LEMMA AcquireAtOnceInv ==
    ASSUME SemaphoreInv, NEW t \in Tasks, AcquireAtOnce(t)
    PROVE  SemaphoreInv'
<1>1. /\ SemaphoreTypeOK /\ value > 0 /\ t \notin WithSlot
      /\ foreground = <<>> /\ background = <<>>
      /\ state[t] = "idle" /\ state' = [state EXCEPT ![t] = "holding"]
      /\ value' = value - 1
      /\ UNCHANGED <<foreground, background, streak>>
  BY DEF SemaphoreInv, AcquireAtOnce, FreeAtOnce, WithSlot
<1>2. SemaphoreTypeOK'
  BY <1>1, SlotsAssumption DEF SemaphoreTypeOK, State
<1>3. SlotsConserved'
  <2>1. WithSlot' = WithSlot \cup {t}
    BY <1>1 DEF WithSlot, SemaphoreTypeOK
  <2> QED
    BY <1>1, <2>1, OneMoreTaken, TakenFinite, SlotsAssumption
       DEF SemaphoreInv, SlotsConserved, SemaphoreTypeOK
<1>4. PendingQueued'
  BY <1>1 DEF SemaphoreInv, PendingQueued, InAQueue, InQueue, SemaphoreTypeOK
<1>5. FreeMeansEmpty'
  BY <1>1 DEF FreeMeansEmpty
<1> QED
  BY <1>2, <1>3, <1>4, <1>5 DEF SemaphoreInv

\* A task waits only while no slot is free.
LEMMA AcquireWaitsInv ==
    ASSUME SemaphoreInv, NEW t \in Tasks, NEW first \in BOOLEAN, AcquireWaits(t, first)
    PROVE  SemaphoreInv'
<1>1. /\ SemaphoreTypeOK /\ value = 0
      /\ foreground \in Seq(Tasks) /\ background \in Seq(Tasks)
      /\ state[t] = "idle" /\ state' = [state EXCEPT ![t] = "pending"]
      /\ UNCHANGED <<value, streak>>
  BY SlotsAssumption DEF SemaphoreInv, AcquireWaits, FreeAtOnce, FreeMeansEmpty, SemaphoreTypeOK
<1>2. \/ foreground' = Append(foreground, t) /\ background' = background
      \/ background' = Append(background, t) /\ foreground' = foreground
  BY DEF AcquireWaits
<1>3. SemaphoreTypeOK'
  BY <1>1, <1>2, AppendQueues DEF SemaphoreTypeOK, State
<1>4. SlotsConserved'
  <2>1. WithSlot' = WithSlot
    BY <1>1 DEF WithSlot, SemaphoreTypeOK
  <2> QED
    BY <1>1, <2>1 DEF SemaphoreInv, SlotsConserved
<1>5. ASSUME NEW w \in Tasks, state'[w] = "pending"
      PROVE  InAQueue(w)'
  <2>1. w = t \/ InQueue(w, foreground) \/ InQueue(w, background)
    BY <1>1, <1>5 DEF SemaphoreInv, PendingQueued, InAQueue, SemaphoreTypeOK
  <2>2. InQueue(w, foreground') \/ InQueue(w, background')
    BY <1>1, <1>2, <2>1, AppendQueues
  <2> QED
    BY <2>2 DEF InAQueue, InQueue
<1>6. FreeMeansEmpty'
  BY <1>1 DEF FreeMeansEmpty
<1> QED
  BY <1>3, <1>4, <1>5, <1>6 DEF SemaphoreInv, PendingQueued

\* A task goes on or is cancelled: what it has does not change.
LEMMA StateOnlyInv ==
    ASSUME SemaphoreInv, NEW t \in Tasks, Resume(t) \/ Cancel(t)
    PROVE  SemaphoreInv'
<1>1. /\ SemaphoreTypeOK
      /\ state[t] \in {"pending", "granted"}
      /\ UNCHANGED <<value, foreground, background, streak>>
      /\ \E s \in {"cancelled", "withdrawn", "holding"} :
            /\ state' = [state EXCEPT ![t] = s]
            /\ s = "cancelled" <=> state[t] = "pending"
  BY DEF SemaphoreInv, Resume, Cancel
<1>2. SemaphoreTypeOK'
  BY <1>1 DEF SemaphoreTypeOK, State
<1>3. WithSlot' = WithSlot
  BY <1>1 DEF WithSlot, SemaphoreTypeOK
<1>4. PendingQueued'
  BY <1>1 DEF SemaphoreInv, PendingQueued, InAQueue, InQueue, SemaphoreTypeOK
<1> QED
  BY <1>1, <1>2, <1>3, <1>4 DEF SemaphoreInv, SlotsConserved, FreeMeansEmpty

\* A cancelled task leaves the queues to the others.
LEMMA ResumeCancelledInv ==
    ASSUME SemaphoreInv, NEW t \in Tasks, ResumeCancelled(t)
    PROVE  SemaphoreInv'
<1>1. /\ SemaphoreTypeOK
      /\ foreground \in Seq(Tasks) /\ background \in Seq(Tasks)
      /\ state[t] = "cancelled" /\ state' = [state EXCEPT ![t] = "idle"]
      /\ foreground' = Without(foreground, t)
      /\ background' = Without(background, t)
      /\ UNCHANGED <<value, streak>>
  BY DEF SemaphoreInv, ResumeCancelled, SemaphoreTypeOK
<1>2. SemaphoreTypeOK'
  BY <1>1, WithoutKeepsOthers DEF SemaphoreTypeOK, State
<1>3. WithSlot' = WithSlot
  BY <1>1 DEF WithSlot, SemaphoreTypeOK
<1>4. ASSUME NEW w \in Tasks, state'[w] = "pending"
      PROVE  InAQueue(w)'
  <2>1. w # t /\ (InQueue(w, foreground) \/ InQueue(w, background))
    BY <1>1, <1>4 DEF SemaphoreInv, PendingQueued, InAQueue, SemaphoreTypeOK
  <2>2. InQueue(w, foreground') \/ InQueue(w, background')
    BY <1>1, <2>1, WithoutKeepsOthers
  <2> QED
    BY <2>2 DEF InAQueue, InQueue
<1>5. FreeMeansEmpty'
  <2>1. Without(<<>>, t) = <<>>
    BY DEF Without, InQueue
  <2> QED
    BY <1>1, <2>1 DEF SemaphoreInv, FreeMeansEmpty
<1> QED
  BY <1>1, <1>2, <1>3, <1>4, <1>5 DEF SemaphoreInv, SlotsConserved, PendingQueued

\* A promoted task changes queues while no slot is free.
LEMMA PromoteInv ==
    ASSUME SemaphoreInv, NEW t \in Tasks, Promote(t)
    PROVE  SemaphoreInv'
<1>1. /\ SemaphoreTypeOK
      /\ foreground \in Seq(Tasks) /\ background \in Seq(Tasks)
      /\ background # <<>>
      /\ foreground' = Append(foreground, t)
      /\ background' = Without(background, t)
      /\ UNCHANGED <<value, streak, state>>
  BY DEF SemaphoreInv, Promote, SemaphoreTypeOK, InQueue
<1>2. SemaphoreTypeOK'
  BY <1>1, AppendQueues, WithoutKeepsOthers DEF SemaphoreTypeOK
<1>3. WithSlot' = WithSlot
  BY <1>1 DEF WithSlot
<1>4. ASSUME NEW w \in Tasks, state'[w] = "pending"
      PROVE  InAQueue(w)'
  <2>1. InQueue(w, foreground) \/ InQueue(w, background)
    BY <1>1, <1>4 DEF SemaphoreInv, PendingQueued, InAQueue
  <2>2. InQueue(w, foreground') \/ InQueue(w, background')
    BY <1>1, <2>1, AppendQueues, WithoutKeepsOthers
  <2> QED
    BY <2>2 DEF InAQueue, InQueue
<1>5. FreeMeansEmpty'
  BY <1>1 DEF SemaphoreInv, FreeMeansEmpty
<1> QED
  BY <1>1, <1>2, <1>3, <1>4, <1>5 DEF SemaphoreInv, SlotsConserved, PendingQueued

LEMMA SemaphoreNextInv == SemaphoreInv /\ [SemaphoreNext]_semaphoreVars => SemaphoreInv'
<1> SUFFICES ASSUME SemaphoreInv, [SemaphoreNext]_semaphoreVars PROVE SemaphoreInv'
  OBVIOUS
<1>1. ASSUME NEW t \in Tasks, Release(t) \/ ResumeWithdrawn(t) PROVE SemaphoreInv'
  BY <1>1, ReleaseInv DEF Release, ResumeWithdrawn, PassOn
<1>2. CASE UNCHANGED semaphoreVars
  BY <1>2 DEF semaphoreVars, SemaphoreInv, SemaphoreTypeOK, SlotsConserved, WithSlot, PendingQueued, InAQueue,
              InQueue, FreeMeansEmpty
<1> QED
  BY <1>1, <1>2, AcquireAtOnceInv, AcquireWaitsInv, StateOnlyInv,
     ResumeCancelledInv, PromoteInv DEF SemaphoreNext, Resumes

THEOREM SemaphoreInvariance == SemaphoreSpec => []SemaphoreInv
BY SemaphoreInitInv, SemaphoreNextInv, PTL DEF SemaphoreSpec

\* The count, the queues and the states of the tasks stay well formed.
THEOREM SemaphoreTyped == SemaphoreSpec => []SemaphoreTypeOK
BY SemaphoreInvariance, PTL DEF SemaphoreInv

\* A semaphore neither loses nor makes slots, whatever tasks are cancelled.
THEOREM SlotsNeverLost == SemaphoreSpec => []SlotsConserved
BY SemaphoreInvariance, PTL DEF SemaphoreInv

\* While a slot is free no task waits for one, however the waiters came, were
\* promoted or were cancelled.
THEOREM FreeSlotsAreTaken == SemaphoreSpec => []NoIdleSlot
<1>1. SemaphoreInv => NoIdleSlot
  BY DEF SemaphoreInv, NoIdleSlot, FreeMeansEmpty, PendingQueued, InAQueue, InQueue
<1> QED
  BY <1>1, SemaphoreInvariance, PTL

-----------------------------------------------------------------------------
\* The two modules extend FiniteSets separately; their Cardinality is the same.
LEMMA SameCardinality == \A S : Pool!Cardinality(S) = Cardinality(S)
BY DEF Pool!Cardinality, Cardinality, Pool!IsFiniteSet, IsFiniteSet

\* Where the pool sees each task, and who it sees inside.
LEMMA Places ==
    /\ [t \in Tasks |-> PlaceOf(t)] \in [Tasks -> {"out", "asking", "inside"}]
    /\ Pool!Inside = WithSlot
<1>1. \A t \in Tasks : PlaceOf(t) \in {"out", "asking", "inside"}
  BY DEF PlaceOf
<1>2. \A t \in Tasks :
         PlaceOf(t) = "inside" <=> state[t] \in {"granted", "withdrawn", "holding"}
  BY DEF PlaceOf
<1> QED
  BY <1>1, <1>2 DEF Pool!Inside, WithSlot

\* What a changed state is to the pool.
LEMMA PlaceMoves ==
    ASSUME state \in [Tasks -> State], NEW t \in Tasks, NEW s \in State,
           state' = [state EXCEPT ![t] = s]
    PROVE  /\ \A u \in Tasks : u # t => PlaceOf(u)' = PlaceOf(u)
           /\ s \in {"granted", "withdrawn", "holding"} => PlaceOf(t)' = "inside"
           /\ s = "pending" => PlaceOf(t)' = "asking"
           /\ s \in {"idle", "cancelled"} => PlaceOf(t)' = "out"
BY DEF PlaceOf, State

LEMMA Refinement ==
    ASSUME SemaphoreInv, [SemaphoreNext]_semaphoreVars
    PROVE  Pool!Next \/ UNCHANGED [t \in Tasks |-> PlaceOf(t)]
<1> DEFINE place == [t \in Tasks |-> PlaceOf(t)]
<1>1. SemaphoreTypeOK /\ state \in [Tasks -> State]
  BY DEF SemaphoreInv, SemaphoreTypeOK
<1>2. ASSUME NEW t \in Tasks, NEW s \in State, state' = [state EXCEPT ![t] = s],
             PlaceOf(t)' = PlaceOf(t)
      PROVE  UNCHANGED place
  BY <1>1, <1>2, PlaceMoves
<1>3. ASSUME NEW t \in Tasks, NEW s \in State, NEW from, NEW to,
             state' = [state EXCEPT ![t] = s], PlaceOf(t) = from, PlaceOf(t)' = to
      PROVE  Pool!Move(t, from, to)
  <2>1. place' = [place EXCEPT ![t] = to]
    BY <1>1, <1>3, PlaceMoves
  <2> QED
    BY <1>3, <2>1 DEF Pool!Move
<1>4. ASSUME NEW t \in Tasks, AcquireAtOnce(t)
      PROVE  Pool!Next
  <2>1. /\ state[t] = "idle" /\ state' = [state EXCEPT ![t] = "holding"]
        /\ "holding" \in State /\ value > 0
    BY <1>4 DEF AcquireAtOnce, FreeAtOnce, State
  <2>2. PlaceOf(t) = "out" /\ PlaceOf(t)' = "inside"
    BY <1>1, <2>1, PlaceMoves DEF PlaceOf
  <2>3. Cardinality(WithSlot) < Slots
    BY <1>1, <2>1, TakenFinite, SlotsAssumption DEF SemaphoreInv, SlotsConserved, SemaphoreTypeOK
  <2>4. Pool!Cardinality(Pool!Inside) < Slots
    BY <2>3, Places, SameCardinality
  <2>5. Pool!Enter(t)
    BY <1>3, <2>1, <2>2, <2>4 DEF Pool!Enter
  <2> QED
    BY <2>5 DEF Pool!Next
<1>5. ASSUME NEW t \in Tasks, NEW first \in BOOLEAN, AcquireWaits(t, first)
      PROVE  Pool!Next
  <2>1. state[t] = "idle" /\ state' = [state EXCEPT ![t] = "pending"] /\ "pending" \in State
    BY <1>5 DEF AcquireWaits, State
  <2>2. PlaceOf(t) = "out" /\ PlaceOf(t)' = "asking"
    BY <1>1, <2>1, PlaceMoves DEF PlaceOf
  <2>3. Pool!Ask(t)
    BY <1>3, <2>1, <2>2 DEF Pool!Ask
  <2> QED
    BY <2>3 DEF Pool!Next
<1>6. ASSUME NEW t \in Tasks, Release(t) \/ ResumeWithdrawn(t)
      PROVE  Pool!Next
  <2>1. ReleaseSlot(t) /\ state[t] \in {"holding", "withdrawn"} /\ PlaceOf(t) = "inside"
    BY <1>6 DEF Release, ResumeWithdrawn, PassOn, PlaceOf
  <2>2. CASE ServesForeground \/ ServesBackground
    <3> DEFINE u == NextTask
    <3>1. /\ u \in Tasks /\ state[u] = "pending" /\ u # t
          /\ state' = [state EXCEPT ![t] = "idle", ![u] = "granted"]
      BY <1>1, <2>1, <2>2, WhoIsNext DEF ReleaseSlot
    <3> HIDE DEF u
    <3>2. /\ PlaceOf(u) = "asking"
          /\ \A w \in Tasks : PlaceOf(w)' = IF w = t THEN "out"
                                            ELSE IF w = u THEN "inside" ELSE PlaceOf(w)
      BY <1>1, <3>1 DEF PlaceOf
    <3>3. place' = [place EXCEPT ![t] = "out", ![u] = "inside"]
      BY <3>1, <3>2
    <3>4. Pool!HandOver(t, u)
      BY <2>1, <3>1, <3>2, <3>3 DEF Pool!HandOver
    <3> QED
      BY <3>1, <3>4 DEF Pool!Next
  <2>3. CASE ~(ServesForeground \/ ServesBackground)
    <3>1. state' = [state EXCEPT ![t] = "idle"] /\ "idle" \in State
      BY <2>1, <2>3 DEF ReleaseSlot, State
    <3>2. PlaceOf(t)' = "out"
      BY <1>1, <3>1, PlaceMoves
    <3>3. Pool!Leave(t)
      BY <1>3, <2>1, <3>1, <3>2 DEF Pool!Leave
    <3> QED
      BY <3>3 DEF Pool!Next
  <2> QED
    BY <2>2, <2>3
<1>7. ASSUME NEW t \in Tasks, Cancel(t), state[t] = "pending"
      PROVE  Pool!Next
  <2>1. state' = [state EXCEPT ![t] = "cancelled"] /\ "cancelled" \in State
    BY <1>7 DEF Cancel, State
  <2>2. PlaceOf(t) = "asking" /\ PlaceOf(t)' = "out"
    BY <1>1, <1>7, <2>1, PlaceMoves DEF PlaceOf
  <2>3. Pool!GiveUp(t)
    BY <1>3, <2>1, <2>2 DEF Pool!GiveUp
  <2> QED
    BY <2>3 DEF Pool!Next
<1>8. ASSUME NEW t \in Tasks,
             Resume(t) \/ ResumeCancelled(t) \/ (Cancel(t) /\ state[t] # "pending")
      PROVE  UNCHANGED place
  <2>1. CASE ResumeCancelled(t)
    <3>1. state[t] = "cancelled" /\ state' = [state EXCEPT ![t] = "idle"] /\ "idle" \in State
      BY <2>1 DEF ResumeCancelled, State
    <3>2. PlaceOf(t) = "out" /\ PlaceOf(t)' = "out"
      BY <1>1, <3>1, PlaceMoves DEF PlaceOf
    <3> QED
      BY <1>2, <3>1, <3>2
  <2>2. CASE Resume(t) \/ (Cancel(t) /\ state[t] # "pending")
    <3>1. /\ state[t] = "granted"
          /\ \E s \in {"holding", "withdrawn"} : state' = [state EXCEPT ![t] = s]
      BY <2>2 DEF Resume, Cancel
    <3>2. PICK s \in {"holding", "withdrawn"} : state' = [state EXCEPT ![t] = s]
      BY <3>1
    <3>3. s \in State /\ PlaceOf(t) = "inside"
      BY <3>1 DEF PlaceOf, State
    <3>4. PlaceOf(t)' = "inside"
      BY <1>1, <3>2, <3>3, PlaceMoves
    <3> QED
      BY <1>2, <3>2, <3>3, <3>4
  <2> QED
    BY <1>8, <2>1, <2>2
<1>9. CASE UNCHANGED semaphoreVars \/ \E t \in Tasks : Promote(t)
  <2>1. state' = state
    BY <1>9 DEF semaphoreVars, Promote
  <2> QED
    BY <2>1 DEF PlaceOf
<1> QED
  BY <1>4, <1>5, <1>6, <1>7, <1>8, <1>9 DEF SemaphoreNext, Resumes

\* The semaphore with its two queues implements the pool of slots.
THEOREM SemaphoreImplementsPool == SemaphoreSpec => ImplementsPool
<1>1. SemaphoreInit => Pool!Init
  BY DEF SemaphoreInit, Pool!Init, PlaceOf
<1>2. SemaphoreInv /\ [SemaphoreNext]_semaphoreVars => [Pool!Next]_([t \in Tasks |-> PlaceOf(t)])
  BY Refinement
<1> QED
  BY <1>1, <1>2, SemaphoreInvariance, PTL DEF SemaphoreSpec, ImplementsPool, Pool!Spec

(***************************************************************************)
(* A guild's speech, for every finite set of messages and clears.  What    *)
(* carries the induction is the bookkeeping of the pending texts, the      *)
(* order of all that is at hand and queued, that every waiting part is at  *)
(* hand or queued, what is behind the worker wherever it awaits, and that  *)
(* a worker of an earlier generation has a clear waiting for its end.      *)
(***************************************************************************)
\* Where the worker speaks locally, where nothing is prepared ahead, and where it
\* has an item, or none.
Local == {"connecting", "abandoning", "resolving", "starting", "playing"}
Routes == {"checking", "routing", "handing", "remote"}
Early == {"none", "created", "idle", "leaving", "fetched", "got"} \cup Routes
Busy == {"fetched", "got", "finishing", "releasing", "unwatching"} \cup Routes \cup Local
Empty == {"none", "created", "top", "idle", "leaving", "discarding"}
Started == worker.at \notin {"none", "created"}

\* Types.  A generation begins with a clear: there are no more than clears begun.
Begun == {c \in Clears : clearing[c] # "idle"}
GuildState == [live: BOOLEAN, queue: Seq(Item), pending: [Texts -> Nat], accepting: BOOLEAN,
               enabled: BOOLEAN, generation: 0..Cardinality(Clears)]
WorkerState == [at: Awaits \cup Running, gen: 0..Cardinality(Clears), item: Item \cup {NoItem},
                ahead: Item \cup {NoItem}, arrived: Item \cup {NoItem}, watching: BOOLEAN,
                audio: {"none", "ahead", "spent"}, route: {"local", "agent", "direct"},
                remote: BOOLEAN, retried: BOOLEAN, raising: BOOLEAN, cancelled: BOOLEAN]
Typed ==
    /\ guild \in GuildState /\ Len(guild.queue) <= Capacity
    /\ worker \in WorkerState
    /\ clearing \in [Clears -> {"idle", "waiting", "woken", "detached", "done"}]
    /\ fate \in [Part -> Fates]
    /\ sent \in 0..Messages /\ toggles \in 0..Toggles
    /\ guild.generation <= Cardinality(Begun)

\* What is pending waits in the queue, or was fetched and is not booked yet.
Unbooked(t) == IF worker.at = "fetched" /\ worker.item.text = t THEN 1 ELSE 0
Counted == \A t \in Texts : guild.pending[t] <= Count(guild.queue, t) + Unbooked(t)

\* What the worker holds wherever it is.
Placed ==
    /\ worker.at \in Busy => worker.item # NoItem
    /\ worker.at \in Empty => worker.item = NoItem
    /\ worker.at \in Early => worker.ahead = NoItem
    /\ worker.at \in Early \cup {"top", "discarding"} => worker.arrived = NoItem /\ ~worker.watching
    /\ worker.at = "unwatching" => ~worker.watching
    /\ worker.at \in {"discarding", "closing"} => worker.ahead # NoItem
    /\ worker.ahead # NoItem => worker.arrived = NoItem /\ ~worker.watching
    /\ worker.arrived # NoItem => ~worker.watching

\* The item at hand comes before what is prepared ahead, and that before the queue.
Before(i, j) == i.msg < j.msg \/ (i.msg = j.msg /\ i.part < j.part)
Queued == ElementsOf(guild.queue)
Held == InHand \cup Queued
InTurn == \A j \in {worker.ahead, worker.arrived} \ {NoItem} :
             worker.item # NoItem => Before(worker.item, j)
Ordered ==
    /\ \A k, l \in DOMAIN guild.queue : k < l => Before(guild.queue[k], guild.queue[l])
    /\ \A i \in InHand, j \in Queued : Before(i, j)
    /\ \A i \in Held : i.msg <= sent
    /\ InTurn

\* Every part that waits is at hand or queued.
Spot(i) == <<i.msg, i.part>>
Located == \A p \in Part : fate[p] = "waiting" => \E i \in Held : Spot(i) = p

\* An item the worker is done with does not wait any more, or is of an earlier
\* generation.
Past ==
    /\ worker.at \in {"releasing", "unwatching", "remote", "playing"} => fate[Spot(worker.item)] # "waiting"
    /\ worker.at \in {"finishing", "abandoning"} =>
         fate[Spot(worker.item)] # "waiting" \/ worker.item.gen < guild.generation

\* What is at hand or queued was accepted in this generation at the latest, and in
\* an earlier one if the worker is stalled and no message is let in.
Aged ==
    /\ \A i \in Held : i.gen <= guild.generation
    /\ Stalled /\ ~guild.accepting => \A i \in Held : i.gen < guild.generation

\* The worker and the guild's generation: a worker of this generation is not
\* cancelled and the guild takes messages; one of an earlier generation has a clear
\* that waits for its end.
Waited == \E c \in Clears : clearing[c] = "waiting"

Clocked ==
    /\ Started => worker.gen <= guild.generation
    /\ worker.at \in Routes \cup Local => worker.item.gen = worker.gen
    /\ worker.at = "routing" => worker.audio = "spent"
    /\ worker.at = "created" => worker.cancelled \/ guild.accepting
    /\ Started /\ worker.gen = guild.generation => guild.accepting
    /\ Started /\ worker.cancelled => worker.gen # guild.generation
    /\ worker.at \in {"checking", "handing", "remote", "starting", "playing"} =>
         worker.cancelled \/ worker.audio = "spent" \/ worker.gen = guild.generation
    /\ Stalled => Waited

\* A worker that ends with an item at hand does so because of a clear or by an
\* exception.
EndsEarly == worker.at \in {"ending", "closing"} /\ InHand # {} => Stalled \/ worker.raising

Data == Typed /\ Counted /\ Ordered /\ Located /\ WholeMessages /\ Aged
Control == Placed /\ Past /\ Clocked /\ EndsEarly
SpeechInv == Data /\ Control

LEMMA CardinalityOfClears == Cardinality(Clears) \in Nat
BY ClearsAssumption, FS_CardinalityType

\* The longest message bounds the parts of any.
LEMMA LongestMessage == MaxParts \in Nat /\ \A g \in Groups : Len(g) <= MaxParts
<1> DEFINE S == Groups \cup {<<>>}
           weight == [g \in S |-> Len(g)]
           Lengths == {Len(g) : g \in Groups} \cup {0}
<1>1. IsFiniteSet(S) /\ S # {}
  BY GroupsAssumption, FS_AddElement
<1>2. weight \in [S -> Nat] /\ \A g \in S : weight[g] = Len(g)
  BY GroupsAssumption, LenProperties, EmptySeq
<1> HIDE DEF weight
<1>3. PICK h \in S : \A g \in S : weight[h] >= weight[g]
  BY <1>1, <1>2, Heaviest
<1>4. Lengths = {Len(g) : g \in S} /\ \A g \in S : Len(g) \in Nat
  BY <1>2
<1>5. Len(h) \in Lengths /\ \A x \in Lengths : Len(h) >= x
  BY <1>2, <1>3, <1>4
<1> HIDE DEF Lengths, S
<1>6. MaxParts = CHOOSE x \in Lengths : \A y \in Lengths : x >= y
  BY DEF MaxParts, Max, Lengths
<1>7. MaxParts \in Lengths /\ \A y \in Lengths : MaxParts >= y
  BY <1>5, <1>6
<1> QED
  BY <1>4, <1>7 DEF S

LEMMA ItemFields ==
    ASSUME NEW i \in Item
    PROVE  /\ i.msg \in 1..Messages /\ i.part \in 1..MaxParts /\ i.text \in Texts
           /\ i.gen \in 0..Cardinality(Clears)
           /\ i.msg \in Int /\ i.part \in Int /\ i.gen \in Int
           /\ Spot(i) \in Part /\ i # NoItem
BY NoItemAssumption, BoundsAssumption, LongestMessage, CardinalityOfClears DEF Item, Spot, Part

-----------------------------------------------------------------------------
\* Counting a text in a queue.
LEMMA CountTyped ==
    ASSUME NEW q \in Seq(Item), NEW t
    PROVE  Count(q, t) \in Nat /\ Count(q, t) <= Len(q)
<1> DEFINE P == {k \in DOMAIN q : q[k].text = t}
<1>1. P \in SUBSET (1..Len(q)) /\ Len(q) \in Nat
  BY LenProperties
<1>2. IsFiniteSet(1..Len(q)) /\ Cardinality(1..Len(q)) = Len(q)
  <2>1. \A n \in Nat : IsFiniteSet(1..n) /\ Cardinality(1..n) = n
    BY FS_Interval
  <2> QED
    BY <1>1, <2>1
<1>3. IsFiniteSet(P) /\ Cardinality(P) <= Len(q) /\ Cardinality(P) \in Nat
  BY <1>1, <1>2, FS_Subset, FS_CardinalityType
<1> QED
  BY <1>3 DEF Count

LEMMA CountOne ==
    ASSUME NEW i, NEW t
    PROVE  Count(<<i>>, t) = IF i.text = t THEN 1 ELSE 0
<1>1. {k \in DOMAIN <<i>> : <<i>>[k].text = t} = IF i.text = t THEN {1} ELSE {}
  OBVIOUS
<1> QED
  BY <1>1, FS_Singleton, FS_EmptySet DEF Count

\* Positions moved by a distance are as many.
LEMMA Shifted ==
    ASSUME NEW n \in Nat, NEW m \in Nat, NEW P \in SUBSET (1..m)
    PROVE  /\ IsFiniteSet({n + k : k \in P})
           /\ Cardinality({n + k : k \in P}) = Cardinality(P)
<1> DEFINE R == {n + k : k \in P}
           f == [k \in P |-> n + k]
<1>1. IsFiniteSet(P)
  <2>1. IsFiniteSet(1..m)
    BY FS_Interval
  <2> QED
    BY <2>1, FS_Subset
<1>2. f \in Bijection(P, R)
  <2>1. f \in [P -> R] /\ \A k, l \in P : f[k] = f[l] => k = l
    OBVIOUS
  <2>2. \A r \in R : \E k \in P : f[k] = r
    OBVIOUS
  <2> QED
    BY <2>1, <2>2 DEF Bijection, Injection, Surjection, IsInjective
<1>3. ExistsBijection(P, R)
  BY <1>2 DEF ExistsBijection
<1> HIDE DEF R, f
<1>4. IsFiniteSet(R) /\ Cardinality(R) = Cardinality(P)
  BY <1>1, <1>3, FS_Bijection
<1> QED
  BY <1>4 DEF R

LEMMA CountConcat ==
    ASSUME NEW s \in Seq(Item), NEW u \in Seq(Item), NEW t
    PROVE  Count(s \o u, t) = Count(s, t) + Count(u, t)
<1> DEFINE A == {k \in DOMAIN s : s[k].text = t}
           B == {k \in DOMAIN u : u[k].text = t}
           n == Len(s)
           m == Len(u)
           S == {n + k : k \in B}
           W == {k \in DOMAIN (s \o u) : (s \o u)[k].text = t}
<1>1. /\ n \in Nat /\ m \in Nat /\ DOMAIN s = 1..n /\ DOMAIN u = 1..m
      /\ DOMAIN (s \o u) = 1..(n + m)
      /\ \A i \in 1..(n + m) : (s \o u)[i] = IF i <= n THEN s[i] ELSE u[i - n]
  BY ConcatProperties, LenProperties
<1>2. A \in SUBSET (1..n) /\ B \in SUBSET (1..m)
  BY <1>1
<1>3. W = A \cup S
  <2>1. \A k \in W : k \in A \cup S
    <3> SUFFICES ASSUME NEW k \in W PROVE k \in A \cup S
      OBVIOUS
    <3>1. k \in 1..(n + m) /\ (s \o u)[k].text = t
      BY <1>1
    <3> HIDE DEF n, m
    <3>2. CASE k <= n
      BY <1>1, <3>1, <3>2
    <3>3. CASE ~(k <= n)
      <4>1. k - n \in 1..m /\ u[k - n].text = t
        BY <1>1, <3>1, <3>3
      <4>2. k - n \in B /\ k = n + (k - n)
        BY <1>1, <3>1, <4>1
      <4> QED
        BY <4>2
    <3> QED
      BY <3>2, <3>3
  <2>2. A \subseteq W
    <3> HIDE DEF n, m
    <3> QED BY <1>1
  <2>3. ASSUME NEW k \in B PROVE n + k \in W
    <3> HIDE DEF n, m
    <3>1. k \in 1..m /\ u[k].text = t
      BY <1>1
    <3>2. n + k \in 1..(n + m) /\ ~(n + k <= n) /\ (n + k) - n = k
      BY <1>1, <3>1
    <3>3. (s \o u)[n + k] = u[k]
      BY <1>1, <3>2
    <3> QED
      BY <1>1, <3>1, <3>2, <3>3
  <2> QED
    BY <2>1, <2>2, <2>3
<1>4. A \cap S = {}
  <2> HIDE DEF n, m, A, B
  <2>1. \A k \in B : ~(n + k \in A)
    BY <1>1, <1>2
  <2> QED
    BY <2>1
<1>5. IsFiniteSet(A) /\ IsFiniteSet(S) /\ Cardinality(S) = Cardinality(B)
  <2> HIDE DEF n, m, A, B
  <2>1. IsFiniteSet(1..n)
    BY <1>1, FS_Interval
  <2>2. IsFiniteSet(A)
    BY <1>2, <2>1, FS_Subset
  <2> QED
    BY <1>1, <1>2, <2>2, Shifted
<1>6. Cardinality(A \cup S) = Cardinality(A) + Cardinality(S)
  <2> HIDE DEF A, S
  <2>1. Cardinality(A \cap S) = 0 /\ Cardinality(A) \in Nat /\ Cardinality(S) \in Nat
    BY <1>4, <1>5, FS_EmptySet, FS_CardinalityType
  <2> QED
    <3>1. Cardinality(A \cup S) = Cardinality(A) + Cardinality(S) - Cardinality(A \cap S)
      BY <1>5, FS_Union
    <3> QED
      BY <2>1, <3>1
<1> QED
  BY <1>3, <1>5, <1>6 DEF Count

LEMMA CountTail ==
    ASSUME NEW q \in Seq(Item), q # <<>>, NEW t
    PROVE  Count(q, t) = Count(Tail(q), t) + (IF Head(q).text = t THEN 1 ELSE 0)
<1>1. /\ Head(q) \in Item /\ Tail(q) \in Seq(Item) /\ <<Head(q)>> \in Seq(Item)
      /\ q = <<Head(q)>> \o Tail(q)
  BY HeadTailProperties
<1>2. Count(q, t) = Count(<<Head(q)>>, t) + Count(Tail(q), t)
  <2>1. Count(<<Head(q)>> \o Tail(q), t) = Count(<<Head(q)>>, t) + Count(Tail(q), t)
    BY <1>1, CountConcat
  <2> QED
    BY <1>1, <2>1
<1>3. Count(Tail(q), t) \in Nat
  BY <1>1, CountTyped
<1> QED
  BY <1>2, <1>3, CountOne

LEMMA CountNone == \A t : Count(<<>>, t) = 0
<1> SUFFICES ASSUME NEW t PROVE Count(<<>>, t) = 0
  OBVIOUS
<1>1. {k \in DOMAIN <<>> : <<>>[k].text = t} = {}
  OBVIOUS
<1> QED
  BY <1>1, FS_EmptySet DEF Count

\* A queue in two.
LEMMA Split ==
    ASSUME NEW q \in Seq(Item), NEW cut \in 0..Len(q)
    PROVE  LET old == SubSeq(q, 1, cut)
               kept == SubSeq(q, cut + 1, Len(q))
           IN  /\ old \in Seq(Item) /\ kept \in Seq(Item)
               /\ Len(old) = cut /\ Len(kept) = Len(q) - cut
               /\ \A k \in 1..cut : old[k] = q[k]
               /\ \A k \in 1..(Len(q) - cut) : kept[k] = q[cut + k]
               /\ \A t : Count(q, t) = Count(old, t) + Count(kept, t)
<1> DEFINE n == Len(q)
           old == SubSeq(q, 1, cut)
           kept == SubSeq(q, cut + 1, n)
<1>1. n \in Nat /\ cut \in Int /\ cut + 1 \in Int /\ \A i \in 1..n : q[i] \in Item
  BY LenProperties
<1>2. /\ old \in Seq(Item) /\ Len(old) = IF 1 <= cut THEN cut - 1 + 1 ELSE 0
      /\ \A i \in 1..(cut - 1 + 1) : old[i] = q[1 + i - 1]
  BY <1>1, SubSeqProperties
<1>3. /\ kept \in Seq(Item) /\ Len(kept) = IF cut + 1 <= n THEN n - (cut + 1) + 1 ELSE 0
      /\ \A i \in 1..(n - (cut + 1) + 1) : kept[i] = q[(cut + 1) + i - 1]
  BY <1>1, SubSeqProperties
<1>4. q = old \o kept
  <2>1. 1 \in 1..(n + 1) /\ cut \in (1 - 1)..n /\ n \in cut..n
    BY <1>1
  <2>2. SubSeq(q, 1, cut) \o SubSeq(q, cut + 1, n) = SubSeq(q, 1, n)
    BY <2>1, ConcatAdjacentSubSeq
  <2> QED
    BY <2>2, SubSeqFull
<1>5. \A t : Count(q, t) = Count(old, t) + Count(kept, t)
  <2> SUFFICES ASSUME NEW t PROVE Count(q, t) = Count(old, t) + Count(kept, t)
    OBVIOUS
  <2> HIDE DEF old, kept, n
  <2>1. Count(old \o kept, t) = Count(old, t) + Count(kept, t)
    BY <1>2, <1>3, CountConcat
  <2> QED
    BY <1>4, <2>1
<1> HIDE DEF old, kept, n
<1>6. Len(old) = cut /\ Len(kept) = n - cut
  BY <1>1, <1>2, <1>3 DEF n
<1>7. \A k \in 1..cut : old[k] = q[k]
  BY <1>1, <1>2
<1>8. \A k \in 1..(n - cut) : kept[k] = q[cut + k]
  BY <1>1, <1>3
<1> QED
  BY <1>2, <1>3, <1>5, <1>6, <1>7, <1>8 DEF old, kept, n

\* What Evictions finds: room enough, at the border of two messages.
LEMMA EvictionsCut ==
    ASSUME NEW q \in Seq(Item), NEW n \in Nat, n <= Capacity
    PROVE  /\ Evictions(q, n) \in 0..Len(q)
           /\ Len(q) - Evictions(q, n) + n <= Capacity
           /\ \/ Evictions(q, n) \in {0, Len(q)}
              \/ q[Evictions(q, n)].msg # q[Evictions(q, n) + 1].msg
<1> DEFINE Enough(k) == /\ Len(q) - k + n <= Capacity
                        /\ k \in {0, Len(q)} \/ q[k].msg # q[k + 1].msg
           L == {k \in 0..Len(q) : Enough(k)}
<1>1. Len(q) \in Nat /\ Capacity \in Nat
  BY LenProperties, BoundsAssumption
<1>2. Len(q) \in L /\ L \in SUBSET Nat
  BY <1>1
<1>3. PICK k \in L : \A l \in L : k <= l
  <2> HIDE DEF L
  <2> QED
    BY <1>2, LeastElement
<1>4. Evictions(q, n) = CHOOSE x \in L : \A y \in L : x <= y
  BY DEF Evictions, Min
<1>5. Evictions(q, n) \in L
  <2> HIDE DEF L
  <2> QED
    BY <1>3, <1>4
<1> QED
  BY <1>5

\* Settling changes waiting parts of the items, and nothing else.
LEMMA SettledParts ==
    ASSUME NEW f \in [Part -> Fates], NEW items, NEW as \in Fates \ {"waiting"}
    PROVE  /\ Settle(f, items, as) \in [Part -> Fates]
           /\ \A p \in Part : /\ Settle(f, items, as)[p] \in {f[p], as}
                              /\ Settle(f, items, as)[p] = "waiting" =>
                                    f[p] = "waiting" /\ \A i \in items : Spot(i) # p
           /\ \A i \in items : Spot(i) \in Part => Settle(f, items, as)[Spot(i)] # "waiting"
BY DEF Settle, Fates, Spot

\* A step in which the worker only goes on, or settles its item.
Settling(items) ==
    \/ fate' = fate
    \/ \E as \in {"done", "cleared"} : fate' = Settle(fate, items, as)
SameItems ==
    /\ worker'.item = worker.item /\ worker'.ahead = worker.ahead
    /\ worker'.arrived = worker.arrived
Walks ==
    /\ UNCHANGED <<guild, clearing, sent, toggles>>
    /\ worker' \in WorkerState /\ SameItems
    /\ Stalled' => Stalled
    /\ worker.at # "fetched" /\ worker'.at # "fetched"
    /\ Settling({worker.item})

LEMMA SettlingKeeps ==
    ASSUME Typed, NEW items, Settling(items)
    PROVE  /\ fate' \in [Part -> Fates]
           /\ \A p \in Part : fate'[p] = "waiting" => fate[p] = "waiting"
           /\ \A p \in Part : fate'[p] = "evicted" => fate[p] = "evicted"
           /\ fate' # fate => \A i \in items : Spot(i) \in Part => fate'[Spot(i)] # "waiting"
<1>1. CASE fate' = fate
  BY <1>1 DEF Typed
<1>2. ASSUME NEW as \in {"done", "cleared"}, fate' = Settle(fate, items, as)
      PROVE  /\ fate' \in [Part -> Fates]
             /\ \A p \in Part : fate'[p] = "waiting" => fate[p] = "waiting"
             /\ \A p \in Part : fate'[p] = "evicted" => fate[p] = "evicted"
             /\ \A i \in items : Spot(i) \in Part => fate'[Spot(i)] # "waiting"
  BY <1>2 DEF Settle, Fates, Typed, Spot
<1> QED
  BY <1>1, <1>2 DEF Settling

LEMMA QueueTyped ==
    ASSUME Typed
    PROVE  /\ guild.queue \in Seq(Item) /\ Len(guild.queue) \in Nat
           /\ DOMAIN guild.queue = 1..Len(guild.queue)
           /\ \A k \in 1..Len(guild.queue) : guild.queue[k] \in Item
           /\ Queued \subseteq Item /\ InHand \subseteq Item /\ Held \subseteq Item
<1>1. guild.queue \in Seq(Item)
  BY DEF Typed, GuildState
<1>2. worker.item \in Item \cup {NoItem} /\ worker.ahead \in Item \cup {NoItem} /\ worker.arrived \in Item \cup {NoItem}
  BY DEF Typed, WorkerState
<1> QED
  BY <1>1, <1>2, LenProperties DEF Queued, ElementsOf, Held, InHand

\* A step in which the worker takes nothing, and what it drops does not wait.
LEMMA DropsData ==
    ASSUME Data, NEW items, Settling(items), Typed', Counted', InTurn',
           guild'.queue = guild.queue, guild'.generation = guild.generation,
           ~guild'.accepting => ~guild.accepting, sent' = sent \/ sent' = sent + 1,
           Stalled' => Stalled, InHand' \subseteq InHand,
           \A i \in InHand \ InHand' : fate'[Spot(i)] # "waiting"
    PROVE  Data'
<1> USE DEF Data
<1>1. Queued' = Queued /\ Held' \subseteq Held
  BY DEF Queued, Held
<1>2. /\ \A p \in Part : fate'[p] = "waiting" => fate[p] = "waiting"
      /\ \A p \in Part : fate'[p] = "evicted" => fate[p] = "evicted"
  BY SettlingKeeps
<1>3. \A i \in Held : i.msg \in Int /\ i.msg <= sent /\ sent \in Int /\ i.msg <= sent'
  BY QueueTyped, ItemFields, BoundsAssumption DEF Ordered, Typed
<1>4. Ordered'
  BY <1>1, <1>3 DEF Ordered
<1>5. Located'
  <2> SUFFICES ASSUME NEW p \in Part, fate'[p] = "waiting" PROVE \E i \in Held' : Spot(i) = p
    BY DEF Located
  <2>1. PICK i \in Held : Spot(i) = p
    BY <1>2 DEF Located
  <2> QED
    BY <1>1, <2>1 DEF Held
<1>6. WholeMessages'
  <2> SUFFICES ASSUME NEW k \in DOMAIN guild.queue, NEW earlier \in 1..guild.queue[k].part
               PROVE  fate'[<<guild.queue[k].msg, earlier>>] # "evicted"
    BY DEF WholeMessages
  <2>1. guild.queue[k] \in Item
    BY QueueTyped
  <2>2. <<guild.queue[k].msg, earlier>> \in Part
    BY <2>1, ItemFields, LongestMessage DEF Part
  <2> QED
    BY <1>2, <2>2 DEF WholeMessages
<1>7. Aged'
  BY <1>1 DEF Aged
<1> QED
  BY <1>4, <1>5, <1>6, <1>7

LEMMA WalksData ==
    ASSUME Data, Walks
    PROVE  Data'
<1>1. InHand' = InHand /\ InTurn'
  BY DEF Walks, SameItems, InHand, InTurn, Data, Ordered
<1>2. fate' \in [Part -> Fates]
  BY SettlingKeeps DEF Walks, Data
<1>3. Typed'
  BY <1>2 DEF Typed, Walks, Begun, Data
<1>4. Counted'
  BY DEF Counted, Unbooked, Walks, Data
<1> QED
  BY <1>1, <1>3, <1>4, DropsData DEF Walks

\* A step in which the worker takes the head of the queue.
LEMMA HeadTaken ==
    ASSUME Data, guild.queue # <<>>
    PROVE  /\ Head(guild.queue) \in Item /\ Tail(guild.queue) \in Seq(Item)
           /\ Len(Tail(guild.queue)) = Len(guild.queue) - 1
           /\ \A k \in 1..Len(Tail(guild.queue)) : Tail(guild.queue)[k] = guild.queue[k + 1]
           /\ DOMAIN Tail(guild.queue) = 1..Len(Tail(guild.queue))
           /\ Queued = {Head(guild.queue)} \cup ElementsOf(Tail(guild.queue))
           /\ \A j \in ElementsOf(Tail(guild.queue)) : Before(Head(guild.queue), j)
           /\ \A i \in InHand : Before(i, Head(guild.queue))
<1> DEFINE q == guild.queue
           r == Tail(q)
<1>1. /\ q \in Seq(Item) /\ Len(q) \in Nat /\ DOMAIN q = 1..Len(q)
  BY QueueTyped DEF Data
<1>2. Head(q) \in Item /\ r \in Seq(Item) /\ Len(r) = Len(q) - 1 /\ \A k \in 1..Len(r) : r[k] = q[k + 1]
  BY <1>1, HeadTailProperties
<1>3. Head(q) = q[1] /\ 1 \in DOMAIN q /\ DOMAIN r = 1..Len(r) /\ Len(r) \in Nat
  BY <1>1, <1>2, LenProperties, EmptySeq
<1>4. /\ \A k, l \in DOMAIN q : k < l => Before(q[k], q[l])
      /\ \A i \in InHand, j \in ElementsOf(q) : Before(i, j)
  BY DEF Data, Ordered, Queued
<1> HIDE DEF q, r
<1>5. \A k \in DOMAIN r : k + 1 \in DOMAIN q /\ 1 < k + 1 /\ r[k] = q[k + 1]
  BY <1>1, <1>2, <1>3
<1>6. ElementsOf(q) = {Head(q)} \cup ElementsOf(r)
  <2>1. \A k \in DOMAIN q : k = 1 \/ (k - 1 \in DOMAIN r /\ q[k] = r[k - 1])
    BY <1>1, <1>2, <1>3
  <2> QED
    BY <1>3, <1>5, <2>1 DEF ElementsOf
<1>7. \A j \in ElementsOf(r) : Before(Head(q), j)
  BY <1>3, <1>4, <1>5 DEF ElementsOf
<1>8. \A i \in InHand : Before(i, Head(q))
  BY <1>4, <1>6
<1> QED
  BY <1>2, <1>3, <1>6, <1>7, <1>8 DEF q, r, Queued

LEMMA TakesData ==
    ASSUME Data, guild.queue # <<>>, guild' \in GuildState, guild'.queue = Tail(guild.queue),
           guild'.generation = guild.generation, guild'.accepting = guild.accepting,
           worker' \in WorkerState, InHand' = InHand \cup {Head(guild.queue)},
           UNCHANGED <<clearing, fate, sent, toggles>>, Stalled' => Stalled,
           Counted', InTurn'
    PROVE  Data'
<1> USE DEF Data
<1> DEFINE r == Tail(guild.queue)
           h == Head(guild.queue)
<1>1. /\ r \in Seq(Item) /\ Len(r) = Len(guild.queue) - 1 /\ DOMAIN r = 1..Len(r)
      /\ \A k \in 1..Len(r) : r[k] = guild.queue[k + 1]
      /\ Queued = {h} \cup ElementsOf(r) /\ \A j \in ElementsOf(r) : Before(h, j)
  BY HeadTaken
<1>2. Len(guild.queue) \in Nat /\ DOMAIN guild.queue = 1..Len(guild.queue)
  BY QueueTyped
<1> HIDE DEF r, h
<1>3. guild'.queue = r /\ Queued' = ElementsOf(r) /\ InHand' = InHand \cup {h}
  BY DEF Queued, r, h
<1>4. Held' = Held
  BY <1>1, <1>3 DEF Held
<1>5. Typed'
  BY <1>1, <1>2, <1>3, BoundsAssumption DEF Typed, Begun
<1>6. \A k \in DOMAIN r : k \in Int /\ k + 1 \in DOMAIN guild.queue /\ r[k] = guild.queue[k + 1]
  BY <1>1, <1>2
<1>7. Ordered'
  <2>1. \A k, l \in DOMAIN r : k < l => Before(r[k], r[l])
    BY <1>6 DEF Ordered
  <2>2. \A i \in InHand', j \in Queued' : Before(i, j)
    BY <1>1, <1>3 DEF Ordered
  <2> QED
    BY <1>3, <1>4, <2>1, <2>2 DEF Ordered, Queued
<1>8. Located' /\ Aged'
  BY <1>4 DEF Located, Aged
<1>9. WholeMessages'
  BY <1>3, <1>6 DEF WholeMessages
<1> QED
  BY <1>5, <1>7, <1>8, <1>9

Waits == fate[Spot(worker.item)] = "waiting"

LEMMA StateTyped ==
    ASSUME Typed
    PROVE  /\ worker \in WorkerState /\ guild \in GuildState /\ fate \in [Part -> Fates]
           /\ guild.generation \in 0..Cardinality(Clears)
           /\ guild.generation \in Int /\ worker.gen \in Int
BY CardinalityOfClears DEF Typed, GuildState, WorkerState

\* The item of a busy worker, and what becomes of it in a step that goes on.
LEMMA BusyItem ==
    ASSUME Typed, Placed, worker.at \in Busy
    PROVE  worker.item \in Item /\ Spot(worker.item) \in Part
BY ItemFields DEF Typed, WorkerState, Placed

LEMMA WaitsLess ==
    ASSUME Typed, Settling({worker.item}), worker.item \in Item, worker'.item = worker.item
    PROVE  /\ Waits' => Waits
           /\ fate' # fate => ~Waits'
           /\ \A as \in {"done", "cleared"} : fate' = Settle(fate, {worker.item}, as) => ~Waits'
<1>1. fate \in [Part -> Fates] /\ Spot(worker.item) \in Part
  BY StateTyped, ItemFields
<1>2. ASSUME NEW as \in {"done", "cleared"}, fate' = Settle(fate, {worker.item}, as) PROVE ~Waits'
  BY <1>1, <1>2 DEF Settle, Fates, Spot, Waits
<1> QED
  BY <1>1, <1>2, SettlingKeeps DEF Waits, Spot

\* What the CancelledError changes where it is not swallowed.
LEMMA CancelledFields ==
    ASSUME worker \in WorkerState, NEW at \in Awaits \cup Running, NEW raising \in BOOLEAN,
           worker' = [worker EXCEPT !.at = at, !.raising = raising, !.cancelled = FALSE]
    PROVE  /\ SameItems /\ worker' \in WorkerState /\ worker'.gen = worker.gen
           /\ worker'.watching = worker.watching /\ worker'.audio = worker.audio
           /\ worker'.cancelled = FALSE /\ worker'.at = at /\ worker'.raising = raising
BY DEF SameItems, WorkerState

\* The steps in which the worker goes on and no fate changes.
LEMMA GoesOnInv ==
    ASSUME SpeechInv,
           Cancelled \/ IdleTimeout \/ IdleEnds \/ RouteAgent \/ Routed \/ RouteDirect
           \/ RemoteEnds \/ RemoteFallsBack \/ Connected \/ Abandoned \/ Played \/ Ending
           \/ Starts
    PROVE  SpeechInv'
<1> USE DEF SpeechInv, Data, Control
<1>1. worker \in WorkerState /\ guild.generation \in 0..Cardinality(Clears) /\ guild.generation \in Int /\ worker.gen \in Int
  BY StateTyped
<1>2. Walks /\ Control'
  <2> USE DEF Continues, Goes, Only, Walks, SameItems, Settling, WorkerState, Awaits, Running,
            Control, Placed, Early, Busy, Empty, Routes, Local, Past, Waits, Clocked, Started, Stalled,
            Waited, EndsEarly, InHand
  <2>1. CASE Cancelled
    <3> DEFINE Bare(at, raising) == worker' = [worker EXCEPT !.at = at, !.raising = raising, !.cancelled = FALSE]
    <3>1. /\ worker.cancelled /\ UNCHANGED <<guild, clearing, fate, sent, toggles>>
          /\ \/ worker.at \in Routes \cup Local /\ Bare("finishing", TRUE)
             \/ worker.at \in Local /\ Bare("abandoning", TRUE)
             \/ worker.at \in {"idle", "leaving", "releasing"} /\ Bare("ending", worker.raising)
      <4>1. worker.cancelled /\ UNCHANGED <<guild, clearing, fate, sent, toggles>>
        BY <2>1 DEF Cancelled
      <4>2. CASE /\ worker.at \in {"checking", "handing", "remote", "resolving", "starting", "playing"}
                 /\ Bare("finishing", TRUE)
        BY <4>1, <4>2
      <4>3. CASE worker.at = "connecting" /\ Bare("abandoning", TRUE)
        BY <4>1, <4>3
      <4>4. CASE /\ worker.at \in {"idle", "leaving", "releasing"}
                 /\ worker' = [worker EXCEPT !.at = "ending", !.cancelled = FALSE]
        BY <1>1, <4>1, <4>4
      <4> QED
        BY <2>1, <4>2, <4>3, <4>4 DEF Cancelled
    <3>2. /\ SameItems /\ worker' \in WorkerState /\ worker'.gen = worker.gen
          /\ worker'.watching = worker.watching /\ worker'.audio = worker.audio
          /\ worker'.cancelled = FALSE
          /\ \/ worker.at \in Routes \cup Local /\ worker'.at = "finishing"
             \/ worker.at \in Local /\ worker'.at = "abandoning"
             \/ /\ worker.at \in {"idle", "leaving", "releasing"} /\ worker'.at = "ending"
                /\ worker'.raising = worker.raising
      <4>1. worker.raising \in BOOLEAN
        BY <1>1
      <4>2. CASE worker.at \in Routes \cup Local /\ Bare("finishing", TRUE)
        BY <1>1, <4>2, CancelledFields
      <4>3. CASE worker.at \in Local /\ Bare("abandoning", TRUE)
        BY <1>1, <4>3, CancelledFields
      <4>4. CASE worker.at \in {"idle", "leaving", "releasing"} /\ Bare("ending", worker.raising)
        BY <1>1, <4>1, <4>4, CancelledFields
      <4> QED
        BY <3>1, <4>2, <4>3, <4>4
    <3> HIDE DEF Bare
    <3>6. Started /\ Started' /\ (Stalled' = Stalled) /\ InHand' = InHand /\ Waited' = Waited
      BY <3>1, <3>2
    <3>7. Walks
      BY <3>1, <3>2, <3>6
    <3>4. Placed'
      BY <3>2
    <3>5. Past'
      <4>1. worker.at \in Routes \cup Local => worker.item.gen = worker.gen
        OBVIOUS
      <4>2. Started => worker.gen < guild.generation
        BY <1>1, <3>1, <3>6
      <4> QED
        BY <3>1, <3>2, <4>1, <4>2, <3>6
    <3>3. Clocked'
      BY <3>1, <3>2, <3>6
    <3>8. EndsEarly'
      <4>1. Stalled
        BY <3>1, <3>6
      <4> QED
        BY <3>1, <3>2, <3>6, <4>1
    <3> QED
      BY <3>3, <3>4, <3>5, <3>7, <3>8
  <2>2. CASE IdleTimeout
    BY <1>1, <2>2 DEF IdleTimeout
  <2>3. CASE IdleEnds
    BY <1>1, <2>3 DEF IdleEnds
  <2>4. CASE RouteAgent
    BY <1>1, <2>4 DEF RouteAgent
  <2>5. CASE Routed
    BY <1>1, <2>5 DEF Routed
  <2>6. CASE RouteDirect
    BY <1>1, <2>6 DEF RouteDirect
  <2>7. CASE RemoteEnds
    BY <1>1, <2>7 DEF RemoteEnds
  <2>8. CASE RemoteFallsBack
    BY <1>1, <2>8 DEF RemoteFallsBack
  <2>9. CASE Connected
    BY <1>1, <2>9 DEF Connected
  <2>10. CASE Abandoned
    BY <1>1, <2>10 DEF Abandoned
  <2>11. CASE Played
    BY <1>1, <2>11 DEF Played
  <2>12. CASE Ending
    BY <1>1, <2>12 DEF Ending
  <2>13. CASE Starts
    <3>1. Walks
      BY <1>1, <2>13 DEF Starts
    <3>2. Placed' /\ Past'
      BY <1>1, <2>13 DEF Starts
    <3>3. Clocked' /\ EndsEarly'
      BY <1>1, <2>13 DEF Starts
    <3> QED
      BY <3>1, <3>2, <3>3
  <2> QED
    BY <2>1, <2>2, <2>3, <2>4, <2>5, <2>6, <2>7, <2>8, <2>9, <2>10, <2>11, <2>12, <2>13
<1> QED
  BY <1>2, WalksData

\* Those that settle its item, or may.
LEMMA SettlesInv ==
    ASSUME SpeechInv,
           Accepts \/ Blocked \/ HandOver \/ RemoteGivesUp \/ NotConnected \/ Resolved
           \/ Unresolved \/ Plays \/ PlayFails
    PROVE  SpeechInv'
<1> USE DEF SpeechInv, Data, Control
<1>1. worker \in WorkerState /\ guild.generation \in Int /\ worker.gen \in Int
  BY StateTyped
<1>2. Walks /\ worker.at \in Busy
  <2> USE DEF Continues, Goes, Only, Walks, SameItems, Settling, WorkerState, Awaits, Running,
            Started, Stalled, Busy, Routes, Local
  <2>1. CASE Accepts
    BY <1>1, <2>1 DEF Accepts
  <2>2. CASE Blocked
    BY <1>1, <2>2 DEF Blocked
  <2>3. CASE HandOver
    BY <1>1, <2>3 DEF HandOver
  <2>4. CASE RemoteGivesUp
    BY <1>1, <2>4 DEF RemoteGivesUp
  <2>5. CASE NotConnected
    BY <1>1, <2>5 DEF NotConnected
  <2>6. CASE Resolved
    BY <1>1, <2>6 DEF Resolved
  <2>7. CASE Unresolved
    BY <1>1, <2>7 DEF Unresolved
  <2>8. CASE Plays
    BY <1>1, <2>8 DEF Plays
  <2>9. CASE PlayFails
    BY <1>1, <2>9 DEF PlayFails
  <2> QED
    BY <2>1, <2>2, <2>3, <2>4, <2>5, <2>6, <2>7, <2>8, <2>9
<1>3. /\ worker.item \in Item /\ (Waits' => Waits)
      /\ \A as \in {"done", "cleared"} : fate' = Settle(fate, {worker.item}, as) => ~Waits'
  BY <1>2, BusyItem, WaitsLess DEF Walks, SameItems
<1>4. Control'
  <2> USE DEF Continues, Goes, Only, SameGeneration, WorkerState, Awaits, Running,
            Control, Placed, Early, Busy, Empty, Routes, Local, Past, Waits, Clocked, Started, Stalled,
            Waited, EndsEarly, InHand
  <2>1. CASE Accepts
    BY <1>1, <1>3, <2>1 DEF Accepts
  <2>2. CASE Blocked
    BY <1>1, <1>3, <2>2 DEF Blocked
  <2>3. CASE HandOver
    BY <1>1, <1>3, <2>3 DEF HandOver
  <2>4. CASE RemoteGivesUp
    BY <1>1, <1>3, <2>4 DEF RemoteGivesUp
  <2>5. CASE NotConnected
    BY <1>1, <1>3, <2>5 DEF NotConnected
  <2>6. CASE Resolved
    BY <1>1, <1>3, <2>6 DEF Resolved
  <2>7. CASE Unresolved
    BY <1>1, <1>3, <2>7 DEF Unresolved
  <2>8. CASE Plays
    BY <1>1, <1>3, <2>8 DEF Plays
  <2>9. CASE PlayFails
    BY <1>1, <1>3, <2>9 DEF PlayFails
  <2> QED
    BY <2>1, <2>2, <2>3, <2>4, <2>5, <2>6, <2>7, <2>8, <2>9
<1> QED
  BY <1>2, <1>4, WalksData

LEMMA Bookings ==
    ASSUME Typed, NEW q \in Seq(Item)
    PROVE  Decremented(guild.pending, q) \in [Texts -> Nat]
<1>1. guild.pending \in [Texts -> Nat] /\ \A t : Count(q, t) \in Nat
  BY CountTyped DEF Typed, GuildState
<1> QED
  BY <1>1 DEF Decremented

LEMMA ResumedInv ==
    ASSUME SpeechInv, Resumed
    PROVE  SpeechInv'
<1> USE DEF SpeechInv, Data, Control
<1>1. worker \in WorkerState /\ guild \in GuildState
  BY StateTyped
<1>2. /\ worker.at = "fetched" /\ worker' = [worker EXCEPT !.at = "got", !.cancelled = FALSE]
      /\ guild' = [guild EXCEPT !.pending = Decremented(@, <<worker.item>>)]
      /\ UNCHANGED <<clearing, fate, sent, toggles>>
  BY DEF Resumed, Only
<1>3. worker.item \in Item /\ <<worker.item>> \in Seq(Item)
  BY <1>1, <1>2 DEF Placed, Busy, WorkerState
<1>4. SameItems /\ InHand' = InHand /\ worker' \in WorkerState
  BY <1>1, <1>2 DEF SameItems, WorkerState, InHand, Awaits, Running
<1>5. guild' \in GuildState /\ guild'.pending = Decremented(guild.pending, <<worker.item>>)
      /\ guild'.queue = guild.queue /\ guild'.generation = guild.generation
      /\ guild'.accepting = guild.accepting
  BY <1>1, <1>2, <1>3, Bookings DEF GuildState
<1>6. Typed'
  BY <1>2, <1>4, <1>5 DEF Typed, Begun
<1>7. Counted'
  <2> SUFFICES ASSUME NEW t \in Texts PROVE guild'.pending[t] <= Count(guild.queue, t) + Unbooked(t)'
    BY <1>5 DEF Counted
  <2>1. guild.pending[t] <= Count(guild.queue, t) + Unbooked(t) /\ guild.pending[t] \in Nat
    BY <1>1 DEF Counted, GuildState
  <2>2. Count(guild.queue, t) \in Nat
    BY <1>1, CountTyped DEF GuildState
  <2>3. Count(<<worker.item>>, t) = Unbooked(t) /\ Unbooked(t) \in {0, 1}
    BY <1>2, CountOne DEF Unbooked
  <2>4. Unbooked(t)' = 0
    BY <1>1, <1>2 DEF Unbooked, WorkerState
  <2>5. guild'.pending[t] = IF guild.pending[t] <= Unbooked(t) THEN 0 ELSE guild.pending[t] - Unbooked(t)
    BY <1>5, <2>3 DEF Decremented
  <2> QED
    BY <2>1, <2>2, <2>3, <2>4, <2>5
<1>8. Stalled' => Stalled
  BY <1>1, <1>2, <1>5 DEF Stalled, Started, WorkerState
<1>9. Data'
  <2>1. Settling({}) /\ InTurn'
    BY <1>2, <1>4 DEF Settling, InTurn, SameItems, Ordered
  <2> QED
    BY <1>2, <1>4, <1>5, <1>6, <1>7, <1>8, <2>1, DropsData
<1>10. Control'
  BY <1>1, <1>2, <1>5 DEF WorkerState, Control, Placed, Early, Busy, Empty, Routes, Local, Past, Clocked, Started, Stalled, Waited, EndsEarly, InHand
<1> QED
  BY <1>9, <1>10

LEMMA FetchInv ==
    ASSUME SpeechInv, Fetch
    PROVE  SpeechInv'
<1> USE DEF SpeechInv, Data, Control
<1> DEFINE h == Head(guild.queue)
<1>1. worker \in WorkerState /\ guild \in GuildState
  BY StateTyped
<1>2. /\ worker.at = "idle" /\ ~worker.cancelled /\ guild.queue # <<>>
      /\ worker' = [worker EXCEPT !.at = "fetched", !.item = h]
      /\ guild' = [guild EXCEPT !.queue = Tail(@)]
      /\ UNCHANGED <<clearing, fate, sent, toggles>>
  BY DEF Fetch, Continues, Only
<1>3. h \in Item /\ Tail(guild.queue) \in Seq(Item)
  BY <1>2, HeadTaken
<1> HIDE DEF h
<1>4. worker.item = NoItem /\ worker.ahead = NoItem /\ worker.arrived = NoItem /\ ~worker.watching
  BY <1>2 DEF Placed, Empty, Early
<1>5. /\ worker' \in WorkerState /\ worker'.at = "fetched" /\ worker'.item = h
      /\ worker'.ahead = NoItem /\ worker'.arrived = NoItem
  BY <1>1, <1>2, <1>3, <1>4 DEF WorkerState, Awaits, Running
<1>6. /\ guild' \in GuildState /\ guild'.pending = guild.pending
      /\ guild'.queue = Tail(guild.queue) /\ guild'.generation = guild.generation
      /\ guild'.accepting = guild.accepting
  BY <1>1, <1>2, <1>3 DEF GuildState
<1>7. InHand = {} /\ InHand' = {h}
  BY <1>3, <1>4, <1>5, ItemFields DEF InHand
<1>8. Counted'
  <2> SUFFICES ASSUME NEW t \in Texts PROVE guild.pending[t] <= Count(guild'.queue, t) + Unbooked(t)'
    BY <1>6 DEF Counted
  <2>1. guild.pending[t] <= Count(guild.queue, t) + Unbooked(t)
    BY DEF Counted
  <2>2. Count(guild.queue, t) = Count(Tail(guild.queue), t) + (IF h.text = t THEN 1 ELSE 0)
    BY <1>1, <1>2, CountTail DEF GuildState, h
  <2>3. Count(Tail(guild.queue), t) \in Nat
    BY <1>3, CountTyped
  <2>4. Unbooked(t) = 0 /\ Unbooked(t)' = IF h.text = t THEN 1 ELSE 0
    BY <1>2, <1>5 DEF Unbooked
  <2> QED
    BY <1>6, <2>1, <2>2, <2>3, <2>4
<1>9. (Stalled' => Stalled) /\ InTurn'
  BY <1>1, <1>2, <1>5, <1>6 DEF Stalled, Started, InTurn, WorkerState
<1>10. Data'
  BY <1>2, <1>5, <1>6, <1>7, <1>8, <1>9, TakesData DEF h
<1>11. Control'
  BY <1>1, <1>2, <1>3, <1>4, <1>6, ItemFields DEF WorkerState, Control, Placed, Early, Busy, Empty, Routes, Local, Past, Clocked, Started, Stalled, Waited, EndsEarly, InHand
<1> QED
  BY <1>10, <1>11

\* The bookkeeping of the task that takes the head of the queue itself.
LEMMA TakenBooked ==
    ASSUME Data, guild.queue # <<>>, guild' = Taken, \A t \in Texts : Unbooked(t)' = Unbooked(t)
    PROVE  /\ guild' \in GuildState /\ Counted'
           /\ guild'.queue = Tail(guild.queue) /\ guild'.generation = guild.generation
           /\ guild'.accepting = guild.accepting
<1> USE DEF Data
<1> DEFINE h == Head(guild.queue)
<1>1. guild \in GuildState
  BY StateTyped
<1>2. h \in Item /\ Tail(guild.queue) \in Seq(Item) /\ <<h>> \in Seq(Item)
  BY HeadTaken
<1> HIDE DEF h
<1>3. /\ guild' \in GuildState /\ guild'.pending = Decremented(guild.pending, <<h>>)
      /\ guild'.queue = Tail(guild.queue) /\ guild'.generation = guild.generation
      /\ guild'.accepting = guild.accepting
  BY <1>1, <1>2, Bookings DEF GuildState, Taken, h
<1>4. ASSUME NEW t \in Texts PROVE guild'.pending[t] <= Count(guild'.queue, t) + Unbooked(t)'
  <2>1. guild.pending[t] <= Count(guild.queue, t) + Unbooked(t) /\ guild.pending[t] \in Nat
    BY <1>1 DEF Counted, GuildState
  <2>2. Count(guild.queue, t) = Count(Tail(guild.queue), t) + (IF h.text = t THEN 1 ELSE 0)
    BY <1>1, CountTail DEF GuildState, h
  <2>3. Count(Tail(guild.queue), t) \in Nat /\ Unbooked(t) \in {0, 1}
    BY <1>2, CountTyped DEF Unbooked
  <2>4. Count(<<h>>, t) = IF h.text = t THEN 1 ELSE 0
    BY CountOne
  <2>5. guild'.pending[t] = IF guild.pending[t] <= Count(<<h>>, t) THEN 0
                            ELSE guild.pending[t] - Count(<<h>>, t)
    BY <1>3 DEF Decremented
  <2> QED
    BY <1>3, <2>1, <2>2, <2>3, <2>4, <2>5
<1> QED
  BY <1>3, <1>4 DEF Counted

LEMMA SpeakLocallyInv ==
    ASSUME SpeechInv, SpeakLocally
    PROVE  SpeechInv'
<1> USE DEF SpeechInv, Data, Control
<1>1. worker \in WorkerState /\ guild \in GuildState /\ guild.generation \in Int /\ worker.gen \in Int
  BY StateTyped
<1>2. /\ worker.at \in {"checking", "handing", "remote"} /\ ~worker.cancelled
      /\ UNCHANGED <<clearing, fate, sent, toggles>>
  BY DEF SpeakLocally, Only
<1>3. /\ worker.item \in Item /\ worker.ahead = NoItem /\ worker.arrived = NoItem
      /\ ~worker.watching
  BY <1>1, <1>2 DEF Placed, Early, Busy, Routes, WorkerState
<1>4. CASE guild.queue # <<>>
  <2> DEFINE h == Head(guild.queue)
  <2>1. worker' = [worker EXCEPT !.at = "connecting", !.route = "local", !.ahead = h] /\ guild' = Taken
    BY <1>4 DEF SpeakLocally
  <2>2. h \in Item /\ \A i \in InHand : Before(i, h)
    BY <1>4, HeadTaken
  <2> HIDE DEF h
  <2>3. /\ worker' \in WorkerState /\ worker'.at = "connecting" /\ worker'.item = worker.item
        /\ worker'.ahead = h /\ worker'.arrived = NoItem
    BY <1>1, <1>3, <2>1, <2>2 DEF WorkerState, Awaits, Running
  <2>4. \A t \in Texts : Unbooked(t)' = Unbooked(t)
    BY <1>2, <2>3 DEF Unbooked
  <2>5. /\ guild' \in GuildState /\ Counted'
        /\ guild'.queue = Tail(guild.queue) /\ guild'.generation = guild.generation
        /\ guild'.accepting = guild.accepting
    BY <1>4, <2>1, <2>4, TakenBooked
  <2>6. InHand' = InHand \cup {h} /\ InTurn'
    BY <1>3, <2>2, <2>3, ItemFields DEF InHand, InTurn
  <2>7. Stalled' => Stalled
    BY <1>1, <1>2, <2>1, <2>5 DEF Stalled, Started, WorkerState
  <2>8. Data'
    BY <1>2, <1>4, <2>3, <2>5, <2>6, <2>7, TakesData DEF h
  <2>9. Control'
    BY <1>1, <1>2, <1>3, <2>1, <2>2, <2>5, ItemFields DEF WorkerState, Control, Placed, Early, Busy, Empty, Routes, Local, Past, Clocked, Started, Stalled, Waited, EndsEarly, InHand
  <2> QED
    BY <2>8, <2>9
<1>5. CASE guild.queue = <<>>
  <2>1. /\ worker' = [worker EXCEPT !.at = "connecting", !.route = "local", !.watching = TRUE]
        /\ UNCHANGED guild
    BY <1>5 DEF SpeakLocally
  <2>2. Walks
    BY <1>1, <1>2, <2>1 DEF Walks, SameItems, Settling, WorkerState, Awaits, Running, Stalled, Started
  <2>3. Control'
    BY <1>1, <1>2, <1>3, <2>1, ItemFields DEF WorkerState, Control, Placed, Early, Busy, Empty, Routes, Local, Past, Clocked, Started, Stalled, Waited, EndsEarly, InHand
  <2> QED
    BY <2>2, <2>3, WalksData
<1> QED
  BY <1>4, <1>5

LEMMA ArrivalInv ==
    ASSUME SpeechInv, Arrival
    PROVE  SpeechInv'
<1> USE DEF SpeechInv, Data, Control
<1> DEFINE h == Head(guild.queue)
<1>1. worker \in WorkerState /\ guild \in GuildState
  BY StateTyped
<1>2. /\ worker.watching /\ guild.queue # <<>> /\ guild' = Taken /\ worker.at # "ending"
      /\ worker' = [worker EXCEPT !.watching = FALSE, !.arrived = h]
      /\ UNCHANGED <<clearing, fate, sent, toggles>>
  BY DEF Arrival, Only, Suspended, Awaits
<1>3. worker.ahead = NoItem /\ worker.arrived = NoItem
  BY <1>2 DEF Placed
<1>4. h \in Item /\ \A i \in InHand : Before(i, h)
  BY <1>2, HeadTaken
<1> HIDE DEF h
<1>5. /\ worker' \in WorkerState /\ worker'.at = worker.at /\ worker'.item = worker.item
      /\ worker'.ahead = NoItem /\ worker'.arrived = h /\ worker'.gen = worker.gen
  BY <1>1, <1>2, <1>3, <1>4 DEF WorkerState, Awaits, Running
<1>6. \A t \in Texts : Unbooked(t)' = Unbooked(t)
  BY <1>5 DEF Unbooked
<1>7. /\ guild' \in GuildState /\ Counted'
      /\ guild'.queue = Tail(guild.queue) /\ guild'.generation = guild.generation
      /\ guild'.accepting = guild.accepting
  BY <1>2, <1>6, TakenBooked
<1>8. InHand' = InHand \cup {h} /\ InTurn'
  BY <1>3, <1>4, <1>5, ItemFields DEF InHand, InTurn
<1>9. Stalled' => Stalled
  BY <1>5, <1>7 DEF Stalled, Started
<1>10. Data'
  BY <1>2, <1>5, <1>7, <1>8, <1>9, TakesData DEF h
<1>11. Control'
  BY <1>1, <1>2, <1>3, <1>4, <1>7, ItemFields DEF WorkerState, Control, Placed, Early, Busy, Empty, Routes, Local, Past, Clocked, Started, Stalled, Waited, EndsEarly, InHand
<1> QED
  BY <1>10, <1>11

LEMMA TopInv ==
    ASSUME SpeechInv, Top
    PROVE  SpeechInv'
<1> USE DEF SpeechInv, Data, Control
<1>1. worker \in WorkerState /\ guild \in GuildState
  BY StateTyped
<1>2. worker.at = "top" /\ UNCHANGED <<guild, clearing, fate, sent, toggles>>
  BY DEF Top, Only
<1>3. worker.item = NoItem /\ worker.arrived = NoItem /\ ~worker.watching
  BY <1>2 DEF Placed, Empty, Early
<1>4. CASE \/ worker' = [worker EXCEPT !.at = "ending"] /\ (Stale \/ worker.ahead = NoItem)
           \/ worker' = [worker EXCEPT !.at = "discarding"] /\ worker.ahead # NoItem
           \/ worker' = [worker EXCEPT !.at = "idle"] /\ worker.ahead = NoItem
  <2>1. Walks
    BY <1>1, <1>2, <1>4 DEF Walks, SameItems, Settling, WorkerState, Awaits, Running, Stalled, Started
  <2>2. Placed' /\ Past' /\ Clocked'
    BY <1>1, <1>2, <1>3, <1>4 DEF WorkerState, Control, Placed, Early, Busy, Empty, Routes, Local, Past, Clocked, Started, Stalled, Waited, EndsEarly
  <2>3. EndsEarly => EndsEarly'
    BY <1>1, <1>2, <1>3, <1>4 DEF WorkerState, Stale, Clocked, EndsEarly, Started, Stalled, Local, InHand
  <2> QED
    BY <2>1, <2>2, <2>3, WalksData
<1>5. CASE /\ worker.ahead # NoItem /\ ~Stale
           /\ worker' = [worker EXCEPT !.at = "got", !.audio = "ahead",
                                       !.item = worker.ahead, !.ahead = NoItem]
  <2>1. /\ worker' \in WorkerState /\ worker'.at = "got" /\ worker'.item = worker.ahead
        /\ worker'.ahead = NoItem /\ worker'.arrived = NoItem
    BY <1>1, <1>3, <1>5 DEF WorkerState, Awaits, Running
  <2>2. InHand' = InHand /\ InTurn'
    BY <1>3, <2>1 DEF InHand, InTurn
  <2>3. Typed' /\ Counted' /\ (Stalled' => Stalled) /\ Settling({})
    BY <1>1, <1>2, <1>5, <2>1 DEF Typed, Begun, Counted, Unbooked, Stalled, Started, Settling, WorkerState
  <2>4. Data'
    BY <1>2, <2>2, <2>3, DropsData
  <2>5. Control'
    BY <1>1, <1>2, <1>3, <1>5 DEF WorkerState, Stale, Control, Placed, Early, Busy, Empty, Routes, Local, Past, Clocked, Started, Stalled, Waited, EndsEarly, InHand
  <2> QED
    BY <2>4, <2>5
<1> QED
  BY <1>4, <1>5 DEF Top, HasNext

LEMMA DiscardedInv ==
    ASSUME SpeechInv, Discarded
    PROVE  SpeechInv'
<1> USE DEF SpeechInv, Data, Control
<1>1. worker \in WorkerState /\ guild \in GuildState
  BY StateTyped
<1>2. /\ worker.at = "discarding" /\ UNCHANGED <<guild, clearing, sent, toggles>>
      /\ fate' = Settle(fate, {worker.ahead}, "cleared")
      /\ worker' = [worker EXCEPT !.at = "ending", !.ahead = NoItem, !.cancelled = FALSE]
  BY DEF Discarded, Only
<1>3. /\ worker.item = NoItem /\ worker.arrived = NoItem /\ ~worker.watching
      /\ worker.ahead \in Item
  BY <1>1, <1>2 DEF Placed, Empty, Early, WorkerState
<1>4. /\ worker' \in WorkerState /\ worker'.at = "ending" /\ worker'.item = NoItem
      /\ worker'.ahead = NoItem /\ worker'.arrived = NoItem
  BY <1>1, <1>2, <1>3 DEF WorkerState, Awaits, Running
<1>5. InHand = {worker.ahead} /\ InHand' = {} /\ InTurn'
  BY <1>3, <1>4, ItemFields DEF InHand, InTurn
<1>6. Settling({worker.ahead})
  BY <1>2 DEF Settling
<1>7. fate' \in [Part -> Fates] /\ fate'[Spot(worker.ahead)] # "waiting"
  BY <1>2, <1>3, StateTyped, SettledParts, ItemFields DEF Fates
<1>8. Typed' /\ Counted' /\ (Stalled' => Stalled)
  BY <1>1, <1>2, <1>4, <1>7 DEF Typed, Begun, Counted, Unbooked, Stalled, Started, WorkerState
<1>9. Data'
  BY <1>2, <1>5, <1>6, <1>7, <1>8, DropsData
<1>10. Control'
  BY <1>1, <1>2, <1>3, <1>5 DEF WorkerState, Control, Placed, Early, Busy, Empty, Routes, Local, Past, Clocked, Started, Stalled, Waited, EndsEarly
<1> QED
  BY <1>9, <1>10

\* The end of an item's finally clauses, when its part no longer waits.
Loops ==
    /\ worker' \in WorkerState /\ worker'.at = (IF worker.raising THEN "ending" ELSE "top")
    /\ worker'.item = NoItem /\ worker'.arrived = NoItem /\ ~worker'.watching
    /\ worker'.ahead = (IF worker.arrived = NoItem THEN worker.ahead ELSE worker.arrived)
    /\ worker'.gen = worker.gen /\ worker'.raising = worker.raising
    /\ worker'.cancelled => worker.cancelled

LEMMA LoopedLoops ==
    ASSUME NEW w \in WorkerState, worker' = Looped(w), ~w.watching,
           w.raising = worker.raising, w.arrived = worker.arrived, w.ahead = worker.ahead,
           w.gen = worker.gen, w.cancelled => worker.cancelled
    PROVE  Loops
<1>1. worker' \in WorkerState
  <2> DEFINE at == IF w.raising THEN "ending" ELSE "top"
             ahead == IF w.arrived = NoItem THEN w.ahead ELSE w.arrived
  <2>1. at \in Awaits \cup Running /\ ahead \in Item \cup {NoItem}
    BY DEF WorkerState, Running
  <2>2. worker' = [w EXCEPT !.at = at, !.item = NoItem, !.audio = "none", !.route = "local",
                            !.retried = FALSE, !.ahead = ahead, !.arrived = NoItem]
    BY DEF Looped, WorkerState
  <2> HIDE DEF at, ahead
  <2> QED
    BY <2>1, <2>2 DEF WorkerState
<1>2. /\ worker'.at = (IF w.raising THEN "ending" ELSE "top")
      /\ worker'.item = NoItem /\ worker'.arrived = NoItem /\ worker'.watching = w.watching
      /\ worker'.ahead = (IF w.arrived = NoItem THEN w.ahead ELSE w.arrived)
      /\ worker'.gen = w.gen /\ worker'.raising = w.raising /\ worker'.cancelled = w.cancelled
  BY DEF Looped, WorkerState
<1> QED
  BY <1>1, <1>2 DEF Loops

LEMMA LoopsInv ==
    ASSUME SpeechInv, worker.at \in {"finishing", "releasing", "unwatching"}, Loops,
           Settling({worker.item}), fate'[Spot(worker.item)] # "waiting",
           UNCHANGED <<guild, clearing, sent, toggles>>
    PROVE  SpeechInv'
<1> USE DEF SpeechInv, Data, Control
<1>1. worker \in WorkerState /\ guild \in GuildState
  BY StateTyped
<1>2. worker.item \in Item /\ worker.item # NoItem
  BY <1>1, BusyItem, ItemFields DEF Busy
<1>3. InHand' = {worker.ahead, worker.arrived} \ {NoItem} /\ InHand' \subseteq InHand /\ InTurn'
      /\ InHand \ InHand' \subseteq {worker.item}
  BY <1>1, <1>2 DEF Loops, InHand, InTurn, Placed
<1>4. fate' \in [Part -> Fates]
  BY SettlingKeeps
<1>5. Typed' /\ Counted' /\ (Stalled' <=> Stalled)
  BY <1>1, <1>4 DEF Loops, Typed, Begun, Counted, Unbooked, Stalled, Started
<1>6. Data'
  BY <1>3, <1>5, DropsData
<1>7. Placed' /\ Past' /\ Clocked'
  BY <1>1, <1>5 DEF Loops, WorkerState, Control, Placed, Early, Busy, Empty, Routes, Local, Past, Clocked, Started, Stalled, Waited, EndsEarly
<1>8. EndsEarly => EndsEarly'
  BY <1>5 DEF Loops, EndsEarly, Local
<1> QED
  BY <1>6, <1>7, <1>8

LEMMA FinallyInv ==
    ASSUME SpeechInv, Finish \/ RemoteReleased \/ Unwatched
    PROVE  SpeechInv'
<1> USE DEF SpeechInv, Data, Control
<1>1. worker \in WorkerState /\ guild \in GuildState
  BY StateTyped
<1>2. /\ worker.at \in {"finishing", "releasing", "unwatching"}
      /\ UNCHANGED <<guild, clearing, sent, toggles>> /\ Settling({worker.item})
  BY DEF Finish, RemoteReleased, Unwatched, Continues, Only, Settling
<1>3. worker.item \in Item /\ fate'[Spot(worker.item)] # "waiting"
  <2>1. worker.item \in Item /\ Spot(worker.item) \in Part
    BY <1>2, BusyItem DEF Busy
  <2>2. CASE Finish
    <3>1. fate' = Settle(fate, {worker.item}, "cleared") /\ fate \in [Part -> Fates]
      BY <2>2, StateTyped DEF Finish
    <3> QED
      BY <2>1, <3>1 DEF Settle, Spot
  <2>3. CASE RemoteReleased \/ Unwatched
    <3>1. fate' = fate /\ worker.at \in {"releasing", "unwatching"}
      BY <2>3 DEF RemoteReleased, Unwatched, Continues, Only
    <3>2. Past
      OBVIOUS
    <3> QED
      BY <2>1, <3>1, <3>2 DEF Past
  <2> QED
    BY <2>2, <2>3
<1>4. \/ Loops
      \/ /\ worker.at = "finishing" /\ worker' = [worker EXCEPT !.at = "releasing"]
      \/ /\ worker.at \in {"finishing", "releasing"}
         /\ \E r \in BOOLEAN : worker' = [worker EXCEPT !.at = "unwatching", !.watching = FALSE, !.remote = r]
  <2>1. CASE Finish
    <3>1. CASE worker.remote
      BY <2>1, <3>1 DEF Finish
    <3>2. CASE ~worker.remote /\ worker.watching
      <4>1. /\ worker.at = "finishing" /\ worker.remote \in BOOLEAN
            /\ worker' = [worker EXCEPT !.at = "unwatching", !.watching = FALSE]
        BY <1>1, <2>1, <3>2 DEF Finish, Released, WorkerState
      <4>2. worker' = [worker EXCEPT !.at = "unwatching", !.watching = FALSE, !.remote = FALSE]
        BY <1>1, <3>2, <4>1 DEF WorkerState
      <4> QED
        BY <4>1, <4>2
    <3>3. CASE ~worker.remote /\ ~worker.watching
      BY <1>1, <2>1, <3>3, LoopedLoops DEF Finish, Released
    <3> QED
      BY <3>1, <3>2, <3>3
  <2>2. CASE RemoteReleased
    <3> DEFINE w == [worker EXCEPT !.remote = FALSE]
    <3>1. /\ w \in WorkerState /\ worker' = Released(w) /\ worker.at = "releasing"
          /\ w.watching = worker.watching /\ w.raising = worker.raising
          /\ w.arrived = worker.arrived /\ w.ahead = worker.ahead
          /\ w.gen = worker.gen /\ w.cancelled = worker.cancelled
      BY <1>1, <2>2 DEF RemoteReleased, Continues, WorkerState
    <3>2. CASE worker.watching
      <4>1. Released(w) = [w EXCEPT !.at = "unwatching", !.watching = FALSE]
        BY <3>1, <3>2 DEF Released
      <4>2. [w EXCEPT !.at = "unwatching", !.watching = FALSE]
              = [worker EXCEPT !.at = "unwatching", !.watching = FALSE, !.remote = FALSE]
        BY <1>1 DEF WorkerState
      <4> QED
        BY <3>1, <4>1, <4>2
    <3>3. CASE ~worker.watching
      <4>1. worker' = Looped(w)
        BY <3>1, <3>3 DEF Released
      <4> HIDE DEF w
      <4> QED
        BY <3>1, <3>3, <4>1, LoopedLoops
    <3> QED
      BY <3>2, <3>3
  <2>3. CASE Unwatched
    <3> DEFINE w == [worker EXCEPT !.cancelled = FALSE]
    <3>1. worker' = Looped(w) /\ worker.at = "unwatching"
      BY <2>3 DEF Unwatched
    <3>2. w \in WorkerState /\ ~w.watching
      BY <1>1, <3>1 DEF WorkerState, Placed
    <3>3. /\ w.raising = worker.raising /\ w.arrived = worker.arrived /\ w.ahead = worker.ahead
          /\ w.gen = worker.gen /\ w.cancelled = FALSE
      BY <1>1 DEF WorkerState
    <3> HIDE DEF w
    <3> QED
      BY <3>1, <3>2, <3>3, LoopedLoops
  <2> QED
    BY <2>1, <2>2, <2>3
<1>5. CASE ~Loops
  <2>1. /\ worker' \in WorkerState /\ SameItems /\ worker'.at \in {"releasing", "unwatching"}
        /\ worker'.gen = worker.gen /\ worker'.raising = worker.raising
        /\ worker'.cancelled = worker.cancelled
        /\ worker'.watching => worker.watching
        /\ worker'.at = "unwatching" => ~worker'.watching
    BY <1>1, <1>4, <1>5 DEF SameItems, WorkerState, Awaits, Running
  <2>2. Walks
    <3>1. Stalled' => Stalled
      BY <1>2, <2>1 DEF Stalled, Started
    <3>2. worker.at # "fetched" /\ worker'.at # "fetched"
      BY <1>2, <2>1
    <3> QED
      BY <1>2, <2>1, <3>1, <3>2 DEF Walks
  <2>3. Placed'
    <3>1. Placed /\ worker.at \in Busy
      BY <1>2 DEF Busy
    <3> QED
      BY <1>1, <1>2, <2>1, <3>1 DEF SameItems, WorkerState, Placed, Early, Busy, Empty, Routes, Local
  <2>4. Past'
    <3>1. fate'[Spot(worker'.item)] # "waiting"
      BY <1>3, <2>1 DEF SameItems
    <3> QED
      BY <2>1, <3>1 DEF Past, Spot
  <2>5. Clocked' /\ (EndsEarly => EndsEarly')
    <3>1. (Started' <=> Started) /\ (Stalled' <=> Stalled) /\ (Waited' <=> Waited) /\ InHand' = InHand
      BY <1>2, <2>1 DEF SameItems, Started, Stalled, Waited, InHand
    <3>2. Clocked'
      BY <1>1, <1>2, <2>1, <3>1 DEF WorkerState, Routes, Local, Clocked
    <3>3. EndsEarly => EndsEarly'
      BY <1>1, <1>2, <2>1, <3>1 DEF WorkerState, Local, EndsEarly
    <3> QED
      BY <3>2, <3>3
  <2> QED
    BY <2>2, <2>3, <2>4, <2>5, WalksData
<1> QED
  BY <1>2, <1>3, <1>4, <1>5, LoopsInv

LEMMA EndsInv ==
    ASSUME SpeechInv, Ends
    PROVE  SpeechInv'
<1> USE DEF SpeechInv, Data, Control
<1>1. worker \in WorkerState /\ guild \in GuildState /\ guild.generation \in Int
  BY StateTyped
<1>2. /\ worker.at \in {"ending", "closing", "created"} /\ worker' = NoWorker
      /\ fate' = Settle(fate, InHand, "cleared") /\ UNCHANGED <<sent, toggles>>
      /\ guild' = guild \/ (guild' = NewState /\ guild.queue = <<>>)
  BY DEF Ends
<1>3. /\ worker' \in WorkerState /\ worker'.at = "none" /\ worker'.item = NoItem
      /\ worker'.ahead = NoItem /\ worker'.arrived = NoItem /\ ~worker'.watching
      /\ ~worker'.raising
  BY <1>2, CardinalityOfClears DEF NoWorker, WorkerState, Awaits
<1>4. InHand' = {} /\ InTurn'
  BY <1>3 DEF InHand, InTurn
<1>5. Settling(InHand) /\ fate' \in [Part -> Fates]
  BY <1>2, SettlingKeeps DEF Settling
<1>6. \A i \in InHand : fate'[Spot(i)] # "waiting"
  BY <1>2, StateTyped, QueueTyped, SettledParts, ItemFields DEF Fates
<1>7. clearing' \in [Clears -> {"idle", "waiting", "woken", "detached", "done"}] /\ Begun' = Begun
  BY DEF Ends, Typed, Begun
<1>8. ~Stalled'
  BY <1>3 DEF Stalled, Started
<1>9. Control'
  BY <1>3, <1>4, <1>8 DEF Control, Placed, Early, Busy, Empty, Routes, Local, Past, Clocked, Started, Stalled, Waited, EndsEarly
<1>10. CASE guild' = guild
  <2>1. Typed' /\ Counted'
    BY <1>2, <1>3, <1>5, <1>7, <1>10 DEF Typed, Counted, Unbooked
  <2> QED
    BY <1>2, <1>4, <1>5, <1>6, <1>8, <1>9, <1>10, <2>1, DropsData
<1>11. CASE guild' = NewState /\ guild.queue = <<>>
  <2>1. /\ guild' \in GuildState /\ guild'.queue = <<>> /\ guild'.generation = 0
        /\ guild'.pending = [t \in Texts |-> 0] /\ Len(guild'.queue) <= Capacity
    BY <1>11, CardinalityOfClears, BoundsAssumption DEF NewState, GuildState
  <2>2. 0 <= Cardinality(Begun)
    BY <1>1, CardinalityOfClears, ClearsAssumption, FS_Subset, FS_CardinalityType DEF Begun
  <2>3. Typed'
    BY <1>2, <1>3, <1>5, <1>7, <2>1, <2>2 DEF Typed
  <2>4. Counted'
    <3>1. \A t : Count(<<>>, t) = 0 /\ Unbooked(t)' = 0
      BY <1>3, CountNone DEF Unbooked
    <3> QED
      BY <2>1, <3>1 DEF Counted
  <2>5. DOMAIN guild'.queue = {} /\ Queued' = {} /\ Held' = {} /\ Held = InHand
    BY <1>4, <1>11, <2>1 DEF Queued, ElementsOf, Held
  <2>6. Ordered' /\ WholeMessages' /\ Aged'
    BY <1>4, <2>5 DEF Ordered, WholeMessages, Aged
  <2>7. Located'
    BY <1>5, <1>6, <2>5, SettlingKeeps DEF Located
  <2> QED
    BY <1>9, <2>3, <2>4, <2>6, <2>7
<1> QED
  BY <1>2, <1>10, <1>11

\* The queue is emptied, and what waited in it is settled.
LEMMA DrainsData ==
    ASSUME Data, fate' = Settle(fate, Queued, "cleared"), guild'.queue = <<>>,
           Typed', Counted', Aged', SameItems, sent' = sent
    PROVE  Data'
<1> USE DEF Data
<1>1. Queued' = {} /\ InHand' = InHand /\ Held' = InHand /\ DOMAIN guild'.queue = {}
  BY DEF Queued, ElementsOf, Held, SameItems, InHand
<1>2. Settling(Queued)
  BY DEF Settling
<1>3. \A i \in Queued : fate'[Spot(i)] # "waiting"
  <2>1. fate \in [Part -> Fates]
    BY StateTyped
  <2> QED
    BY <2>1, QueueTyped, ItemFields, SettledParts DEF Fates
<1>4. Ordered'
  BY <1>1 DEF Ordered, InTurn, SameItems, Held
<1>5. Located'
  <2> SUFFICES ASSUME NEW p \in Part, fate'[p] = "waiting" PROVE \E i \in InHand : Spot(i) = p
    BY <1>1 DEF Located
  <2>1. PICK i \in Held : Spot(i) = p
    BY <1>2, SettlingKeeps DEF Located
  <2> QED
    BY <1>3, <2>1 DEF Held
<1>6. WholeMessages'
  BY <1>1 DEF WholeMessages
<1> QED
  BY <1>4, <1>5, <1>6

LEMMA DrainedCounted ==
    ASSUME Data, guild'.queue = <<>>, SameItems, worker'.at = worker.at,
           \/ guild'.pending = Decremented(guild.pending, guild.queue)
           \/ guild'.pending = [t \in Texts |-> 0]
    PROVE  Counted' /\ guild'.pending \in [Texts -> Nat]
<1> USE DEF Data
<1>1. guild \in GuildState /\ guild.queue \in Seq(Item)
  BY StateTyped, QueueTyped
<1>2. guild'.pending \in [Texts -> Nat]
  BY <1>1, Bookings
<1>3. ASSUME NEW t \in Texts PROVE guild'.pending[t] <= Count(guild'.queue, t) + Unbooked(t)'
  <2>1. guild.pending[t] <= Count(guild.queue, t) + Unbooked(t) /\ guild.pending[t] \in Nat
    BY <1>1 DEF Counted, GuildState
  <2>2. Count(guild.queue, t) \in Nat /\ Count(guild'.queue, t) = 0
    BY <1>1, CountTyped, CountNone
  <2>3. Unbooked(t)' = Unbooked(t) /\ Unbooked(t) \in {0, 1}
    BY DEF Unbooked, SameItems
  <2>4. \/ guild'.pending[t] = 0
        \/ /\ ~(guild.pending[t] <= Count(guild.queue, t))
           /\ guild'.pending[t] = guild.pending[t] - Count(guild.queue, t)
    BY DEF Decremented
  <2> QED
    BY <2>1, <2>2, <2>3, <2>4
<1> QED
  BY <1>2, <1>3 DEF Counted

LEMMA ToggleInv ==
    ASSUME SpeechInv, Toggle
    PROVE  SpeechInv'
<1> USE DEF SpeechInv, Data, Control
<1>1. worker \in WorkerState /\ guild \in GuildState
  BY StateTyped
<1>2. /\ UNCHANGED <<worker, clearing, sent>> /\ toggles' \in 0..Toggles /\ SameItems
      /\ Stalled' = Stalled \/ guild' # guild
  BY BoundsAssumption DEF Toggle, SameItems, Typed, Stalled, Started
<1>3. CASE guild.enabled
  <2>1. /\ guild' = [Drained EXCEPT !.enabled = FALSE]
        /\ fate' = Settle(fate, Queued, "cleared")
    BY <1>3 DEF Toggle, Queued
  <2>2. /\ guild'.queue = <<>> /\ guild'.pending = Decremented(guild.pending, guild.queue)
        /\ guild'.generation = guild.generation /\ guild'.accepting = guild.accepting
    BY <1>1, <2>1 DEF Drained, GuildState
  <2>3. Counted' /\ guild'.pending \in [Texts -> Nat]
    BY <1>2, <2>2, DrainedCounted
  <2>4. guild' \in GuildState
    <3> DEFINE p == guild'.pending
    <3>1. guild' = [guild EXCEPT !.queue = <<>>, !.pending = p, !.enabled = FALSE]
      BY <1>1, <2>1, <2>2 DEF Drained, GuildState
    <3>2. p \in [Texts -> Nat]
      BY <2>3
    <3> HIDE DEF p
    <3> QED
      BY <1>1, <3>1, <3>2, EmptySeq DEF GuildState
  <2>5. Settling(Queued)
    BY <2>1 DEF Settling
  <2>6. fate' \in [Part -> Fates] /\ \A p \in Part : fate'[p] = "waiting" => fate[p] = "waiting"
    BY <2>5, SettlingKeeps
  <2>7. Typed'
    BY <1>2, <2>2, <2>4, <2>6, BoundsAssumption DEF Typed, Begun
  <2>8. Stalled' = Stalled /\ Held' \subseteq Held
    BY <1>2, <2>2 DEF Stalled, Started, Held, InHand, Queued, ElementsOf
  <2>9. Aged'
    BY <2>2, <2>8 DEF Aged
  <2>10. Data'
    BY <1>2, <2>1, <2>2, <2>3, <2>7, <2>9, DrainsData
  <2>11. worker.item # NoItem => Spot(worker.item) \in Part
    BY <1>1, ItemFields DEF WorkerState
  <2>12. Past'
    <3>1. ASSUME worker.item # NoItem PROVE fate[Spot(worker.item)] # "waiting" => fate'[Spot(worker.item)] # "waiting"
      BY <2>6, <2>11, <3>1
    <3>2. worker.at \in {"releasing", "unwatching", "remote", "playing", "finishing", "abandoning"} => worker.item # NoItem
      BY DEF Placed, Busy, Routes, Local
    <3> QED
      BY <1>2, <2>2, <3>1, <3>2 DEF Past, Spot
  <2>13. Placed' /\ Clocked' /\ (EndsEarly => EndsEarly')
    <3>1. Started' = Started /\ Waited' = Waited /\ InHand' = InHand
      BY <1>2 DEF Started, Waited, InHand
    <3> QED
      BY <1>2, <2>2, <2>8, <3>1 DEF Placed, Clocked, EndsEarly
  <2> QED
    BY <2>10, <2>12, <2>13
<1>4. CASE ~guild.enabled
  <2>1. guild' = [guild EXCEPT !.enabled = TRUE] /\ fate' = fate
    BY <1>4 DEF Toggle
  <2>2. /\ guild' \in GuildState /\ guild'.queue = guild.queue /\ guild'.pending = guild.pending
        /\ guild'.generation = guild.generation /\ guild'.accepting = guild.accepting
    BY <1>1, <2>1 DEF GuildState
  <2>3. Typed' /\ Counted' /\ InTurn' /\ Stalled' = Stalled /\ Settling({}) /\ InHand' = InHand
    BY <1>2, <2>1, <2>2 DEF Typed, Begun, Counted, Unbooked, Ordered, InTurn, Stalled, Started, Settling, InHand
  <2>4. Data'
    BY <1>2, <2>2, <2>3, DropsData
  <2>5. Control'
    BY <1>2, <2>1, <2>2, <2>3 DEF Placed, Past, Clocked, EndsEarly, Started, Waited, InHand, Spot
  <2> QED
    BY <2>4, <2>5
<1> QED
  BY <1>3, <1>4

LEMMA ClearEndsInv ==
    ASSUME SpeechInv, NEW c \in Clears, ClearEnds(c)
    PROVE  SpeechInv'
<1> USE DEF SpeechInv, Data, Control
<1>1. worker \in WorkerState /\ guild \in GuildState
  BY StateTyped
<1>2. /\ clearing[c] \in {"woken", "detached"} /\ clearing' = [clearing EXCEPT ![c] = "done"]
      /\ UNCHANGED <<worker, fate, sent, toggles>> /\ guild' \in {Reopened(guild), guild}
  BY DEF ClearEnds
<1>3. /\ guild' \in GuildState /\ guild'.queue = guild.queue /\ guild'.generation = guild.generation
      /\ guild'.pending \in {guild.pending, [t \in Texts |-> 0]}
      /\ ~guild'.accepting => ~guild.accepting
      /\ guild.accepting => guild'.accepting
  <2>1. CASE guild' = guild
    BY <1>1, <2>1
  <2>2. CASE guild' = Reopened(guild)
    BY <1>1, <2>2 DEF Reopened, GuildState
  <2> QED
    BY <1>2, <2>1, <2>2
<1>4. /\ clearing' \in [Clears -> {"idle", "waiting", "woken", "detached", "done"}]
      /\ Begun' = Begun /\ Waited' = Waited
  BY <1>2 DEF Typed, Begun, Waited
<1>5. Typed'
  BY <1>2, <1>3, <1>4 DEF Typed
<1>6. Counted'
  <2> SUFFICES ASSUME NEW t \in Texts PROVE guild'.pending[t] <= Count(guild'.queue, t) + Unbooked(t)'
    BY DEF Counted
  <2>1. guild.pending[t] <= Count(guild.queue, t) + Unbooked(t) /\ Unbooked(t)' = Unbooked(t)
    BY <1>2 DEF Counted, Unbooked
  <2>2. Count(guild.queue, t) \in Nat /\ Unbooked(t) \in {0, 1}
    BY CountTyped, QueueTyped DEF Unbooked
  <2> QED
    BY <1>3, <2>1, <2>2
<1>7. InTurn' /\ Stalled' = Stalled /\ Started' = Started /\ Settling({}) /\ InHand' = InHand
  BY <1>2, <1>3 DEF Ordered, InTurn, Stalled, Started, Settling, InHand
<1>8. Data'
  BY <1>2, <1>3, <1>5, <1>6, <1>7, DropsData
<1>9. Control'
  BY <1>2, <1>3, <1>4, <1>7 DEF Placed, Past, Clocked, EndsEarly, Spot
<1> QED
  BY <1>8, <1>9

LEMMA ClearInv ==
    ASSUME SpeechInv, NEW c \in Clears, Clear(c)
    PROVE  SpeechInv'
<1> USE DEF SpeechInv, Data, Control
<1>1. worker \in WorkerState /\ guild \in GuildState /\ guild.generation \in Int /\ worker.gen \in Int
  BY StateTyped
<1>2. /\ clearing[c] = "idle" /\ fate' = Settle(fate, Queued, "cleared")
      /\ UNCHANGED <<sent, toggles>>
      /\ \/ /\ worker.at = "none" /\ guild' = Reopened(Closed) /\ worker' = worker
            /\ clearing' = [clearing EXCEPT ![c] = "done"]
         \/ /\ worker.at # "none" /\ guild' = Closed
            /\ worker' = [worker EXCEPT !.cancelled = TRUE]
            /\ clearing' = [clearing EXCEPT ![c] = "waiting"]
  BY DEF Clear, Queued
<1>3. /\ clearing' \in [Clears -> {"idle", "waiting", "woken", "detached", "done"}]
      /\ Begun' = Begun \cup {c} /\ c \notin Begun
  BY <1>2 DEF Typed, Begun
<1>4. Cardinality(Begun') = Cardinality(Begun) + 1 /\ Cardinality(Begun') <= Cardinality(Clears)
      /\ Cardinality(Begun) \in Nat /\ Cardinality(Clears) \in Nat
  <2>1. IsFiniteSet(Begun) /\ Begun \subseteq Clears
    BY ClearsAssumption, FS_Subset DEF Begun
  <2>2. Cardinality(Begun \cup {c}) = Cardinality(Begun) + 1
    BY <1>3, <2>1, FS_AddElement
  <2>3. Cardinality(Begun \cup {c}) <= Cardinality(Clears)
    BY <2>1, ClearsAssumption, FS_Subset
  <2> QED
    BY <1>3, <2>1, <2>2, <2>3, FS_CardinalityType, ClearsAssumption
<1>5. guild.generation \in Nat /\ guild.generation <= Cardinality(Begun)
  BY <1>1 DEF Typed, GuildState
<1>6. /\ guild'.queue = <<>> /\ guild'.generation = guild.generation + 1
      /\ guild'.pending \in {Decremented(guild.pending, guild.queue), [t \in Texts |-> 0]}
      /\ worker.at # "none" => guild'.accepting = FALSE
  BY <1>1, <1>2 DEF Closed, Reopened, Drained, GuildState
<1>7. SameItems /\ worker'.at = worker.at /\ worker'.gen = worker.gen /\ worker' \in WorkerState
      /\ worker'.raising = worker.raising /\ worker'.audio = worker.audio
      /\ worker'.watching = worker.watching
  BY <1>1, <1>2 DEF SameItems, WorkerState
<1>8. Counted' /\ guild'.pending \in [Texts -> Nat]
  BY <1>6, <1>7, DrainedCounted
<1>9. guild' \in GuildState
  <2>1. guild'.queue \in Seq(Item) /\ guild'.generation \in 0..Cardinality(Clears)
    BY <1>4, <1>5, <1>6, EmptySeq
  <2> DEFINE p == guild'.pending
             n == guild'.generation
             a == guild'.accepting
  <2>2. a \in BOOLEAN /\ guild' = [guild EXCEPT !.live = TRUE, !.queue = <<>>, !.pending = p,
                                              !.accepting = a, !.generation = n]
    BY <1>1, <1>2 DEF Closed, Reopened, Drained, GuildState
  <2>3. p \in [Texts -> Nat] /\ n \in 0..Cardinality(Clears)
    BY <1>8, <2>1
  <2> HIDE DEF p, n, a
  <2> QED
    BY <1>1, <2>2, <2>3, EmptySeq DEF GuildState
<1>10. Settling(Queued)
  BY <1>2 DEF Settling
<1>11. fate' \in [Part -> Fates] /\ \A p \in Part : fate'[p] = "waiting" => fate[p] = "waiting"
  BY <1>10, SettlingKeeps
<1>12. Typed'
  BY <1>2, <1>3, <1>4, <1>5, <1>6, <1>7, <1>9, <1>11, BoundsAssumption DEF Typed
<1>13. Held' \subseteq Held /\ InHand' = InHand
  BY <1>6, <1>7 DEF Held, SameItems, InHand, Queued, ElementsOf
<1>14. \A i \in Held : i.gen < guild'.generation /\ i.gen <= guild'.generation
  <2>1. \A i \in Held : i.gen \in Int /\ i.gen <= guild.generation
    BY QueueTyped, ItemFields DEF Aged
  <2> QED
    BY <1>1, <1>6, <2>1
<1>15. Aged'
  BY <1>13, <1>14 DEF Aged
<1>16. Data'
  BY <1>2, <1>6, <1>7, <1>8, <1>12, <1>15, DrainsData
<1>17. Placed'
  BY <1>7 DEF SameItems, Placed
<1>18. worker.at \in Busy => worker.item \in Held /\ Spot(worker.item) \in Part
  BY BusyItem, ItemFields DEF Held, InHand
<1>19. Past'
  BY <1>7, <1>11, <1>14, <1>18 DEF SameItems, Past, Spot, Busy, Routes, Local
<1>20. Clocked' /\ (EndsEarly => EndsEarly')
  <2>1. CASE worker.at = "none"
    BY <1>2, <1>7, <2>1 DEF Clocked, EndsEarly, Started, Stalled, Routes, Local
  <2>2. CASE worker.at # "none"
    <3>1. worker'.cancelled = TRUE /\ Waited'
      BY <1>1, <1>2, <2>2 DEF WorkerState, Waited, Typed
    <3>2. Started' = Started /\ (Started => worker.gen <= guild.generation)
      BY <1>7 DEF Started, Clocked
    <3>3. Started => Stalled' /\ worker'.gen # guild'.generation /\ worker'.gen <= guild'.generation
      BY <1>1, <1>6, <1>7, <3>2 DEF Stalled, Started
    <3>4. Clocked'
      BY <1>7, <3>1, <3>2, <3>3 DEF SameItems, Clocked, Stalled, Started
    <3>5. EndsEarly => EndsEarly'
      <4>1. Stalled => Stalled'
        BY <3>3 DEF Stalled, Started
      <4> QED
        BY <1>7, <1>13, <4>1 DEF EndsEarly
    <3> QED
      BY <3>4, <3>5
  <2> QED
    BY <2>1, <2>2
<1> QED
  BY <1>16, <1>17, <1>19, <1>20

\* The items a message brings.
Fits(group) == [k \in 1..Len(group) |-> [msg |-> sent + 1, part |-> k, text |-> group[k],
                                         gen |-> guild.generation]]

LEMMA FitsTyped ==
    ASSUME SpeechInv, sent < Messages, NEW group \in Groups
    PROVE  /\ Fits(group) \in Seq(Item) /\ Len(Fits(group)) = Len(group) /\ Len(group) \in Nat
           /\ sent + 1 \in 1..Messages /\ sent \in Int
           /\ \A k \in 1..Len(group) :
                 /\ Fits(group)[k].msg = sent + 1 /\ Fits(group)[k].part = k
                 /\ Fits(group)[k].gen = guild.generation /\ Fits(group)[k] \in Item
<1>1. Len(group) \in Nat /\ Len(group) <= MaxParts /\ MaxParts \in Nat
      /\ \A k \in 1..Len(group) : group[k] \in Texts
  BY GroupsAssumption, LongestMessage, LenProperties
<1>2. sent \in Int /\ sent + 1 \in 1..Messages /\ guild.generation \in 0..Cardinality(Clears)
  BY BoundsAssumption, StateTyped DEF SpeechInv, Data, Typed
<1>3. \A k \in 1..Len(group) :
         [msg |-> sent + 1, part |-> k, text |-> group[k], gen |-> guild.generation] \in Item
  BY <1>1, <1>2 DEF Item
<1>4. /\ DOMAIN Fits(group) = 1..Len(group)
      /\ \A k \in 1..Len(group) : Fits(group)[k] = [msg |-> sent + 1, part |-> k, text |-> group[k],
                                                    gen |-> guild.generation]
  BY DEF Fits
<1>5. Fits(group) \in Seq(Item)
  <2>1. Fits(group) \in [1..Len(group) -> Item]
    BY <1>3 DEF Fits
  <2> QED
    BY <1>1, <2>1, SeqDef
<1>6. Len(Fits(group)) = Len(group)
  BY <1>1, <1>4, <1>5, LenProperties
<1> QED
  BY <1>1, <1>2, <1>3, <1>4, <1>5, <1>6

\* A queue that loses its first items and gets others at its end.
Old(q, cut) == SubSeq(q, 1, cut)
Kept(q, cut) == SubSeq(q, cut + 1, Len(q))
Renewed(q, cut, fits) == Kept(q, cut) \o fits

\* What becomes of its items.
Renewal(q, cut, fits) ==
    /\ \A k \in DOMAIN Renewed(q, cut, fits) :
          \/ k <= Len(q) - cut /\ cut + k \in DOMAIN q /\ Renewed(q, cut, fits)[k] = q[cut + k]
          \/ /\ ~(k <= Len(q) - cut) /\ k - (Len(q) - cut) \in DOMAIN fits
             /\ Renewed(q, cut, fits)[k] = fits[k - (Len(q) - cut)]
    /\ ElementsOf(Old(q, cut)) = {q[k] : k \in 1..cut}
    /\ ElementsOf(Renewed(q, cut, fits)) = {q[k] : k \in (cut + 1)..Len(q)} \cup ElementsOf(fits)

LEMMA RenewedQueue ==
    ASSUME NEW q \in Seq(Item), NEW cut \in 0..Len(q), NEW fits \in Seq(Item)
    PROVE  /\ Old(q, cut) \in Seq(Item) /\ Renewed(q, cut, fits) \in Seq(Item)
           /\ Len(Renewed(q, cut, fits)) = Len(q) - cut + Len(fits)
           /\ DOMAIN Renewed(q, cut, fits) = 1..(Len(q) - cut + Len(fits))
           /\ Renewal(q, cut, fits)
<1> DEFINE n == Len(q)
           d == Len(fits)
           m == n - cut
           old == Old(q, cut)
           kept == Kept(q, cut)
           r == Renewed(q, cut, fits)
<1>1. /\ n \in Nat /\ d \in Nat /\ m \in Nat /\ cut \in Nat /\ cut + m = n
      /\ DOMAIN q = 1..n /\ DOMAIN fits = 1..d
  BY LenProperties
<1>2. /\ old \in Seq(Item) /\ kept \in Seq(Item) /\ Len(old) = cut /\ Len(kept) = m
      /\ \A k \in 1..cut : old[k] = q[k]
      /\ \A k \in 1..m : kept[k] = q[cut + k]
  BY Split DEF Old, Kept
<1> HIDE DEF old, kept
<1>3. /\ r \in Seq(Item) /\ Len(r) = m + d
      /\ \A k \in 1..(m + d) : r[k] = IF k <= m THEN kept[k] ELSE fits[k - m]
  <2>1. /\ kept \o fits \in Seq(Item) /\ Len(kept \o fits) = Len(kept) + Len(fits)
        /\ \A k \in 1..(Len(kept) + Len(fits)) :
              (kept \o fits)[k] = IF k <= Len(kept) THEN kept[k] ELSE fits[k - Len(kept)]
    BY <1>2, ConcatProperties
  <2> QED
    BY <1>2, <2>1 DEF Renewed, kept
<1> HIDE DEF r
<1>4. DOMAIN r = 1..(m + d) /\ DOMAIN old = 1..cut
  BY <1>2, <1>3, LenProperties
<1> HIDE DEF m, n, d
<1>5. ASSUME NEW k \in 1..(m + d)
      PROVE  \/ k <= m /\ k \in 1..m /\ cut + k \in 1..n /\ r[k] = q[cut + k]
             \/ ~(k <= m) /\ k - m \in 1..d /\ r[k] = fits[k - m]
  BY <1>1, <1>2, <1>3
<1>6. ElementsOf(old) = {q[k] : k \in 1..cut}
  <2>1. ElementsOf(old) = {old[k] : k \in 1..cut}
    BY <1>4 DEF ElementsOf
  <2>2. {old[k] : k \in 1..cut} = {q[k] : k \in 1..cut}
    <3>1. \A k \in 1..cut : old[k] = q[k]
      BY <1>2
    <3> QED
      BY <3>1
  <2> QED
    BY <2>1, <2>2
<1>7. ElementsOf(r) \subseteq {q[k] : k \in (cut + 1)..n} \cup ElementsOf(fits)
  <2> SUFFICES ASSUME NEW k \in 1..(m + d)
               PROVE  r[k] \in {q[x] : x \in (cut + 1)..n} \cup ElementsOf(fits)
    BY <1>4 DEF ElementsOf
  <2>1. CASE k \in 1..m /\ cut + k \in 1..n /\ r[k] = q[cut + k]
    <3>1. cut + k \in (cut + 1)..n
      BY <1>1, <2>1
    <3> QED
      BY <2>1, <3>1
  <2>2. CASE k - m \in 1..d /\ r[k] = fits[k - m]
    BY <1>1, <2>2 DEF ElementsOf
  <2> QED
    BY <1>5, <2>1, <2>2
<1>8. {q[k] : k \in (cut + 1)..n} \subseteq ElementsOf(r)
  <2> SUFFICES ASSUME NEW k \in (cut + 1)..n PROVE q[k] \in ElementsOf(r)
    OBVIOUS
  <2>1. k - cut \in 1..m /\ cut + (k - cut) = k /\ k - cut \in 1..(m + d) /\ k - cut <= m
    BY <1>1
  <2>2. r[k - cut] = q[k]
    BY <1>5, <2>1
  <2> QED
    BY <1>4, <2>1, <2>2 DEF ElementsOf
<1>9. ElementsOf(fits) \subseteq ElementsOf(r)
  <2> SUFFICES ASSUME NEW k \in 1..d PROVE fits[k] \in ElementsOf(r)
    BY <1>1 DEF ElementsOf
  <2>1. m + k \in 1..(m + d) /\ ~(m + k <= m) /\ (m + k) - m = k
    BY <1>1
  <2>2. r[m + k] = fits[k]
    BY <1>5, <2>1
  <2> QED
    BY <1>4, <2>1, <2>2 DEF ElementsOf
<1>10. /\ Len(r) = m + d /\ DOMAIN r = 1..(m + d) /\ ElementsOf(r) = {q[k] : k \in (cut + 1)..n} \cup ElementsOf(fits)
       /\ \A k \in DOMAIN r :
             \/ k <= m /\ cut + k \in DOMAIN q /\ r[k] = q[cut + k]
             \/ ~(k <= m) /\ k - m \in DOMAIN fits /\ r[k] = fits[k - m]
  <2>1. ElementsOf(r) = {q[k] : k \in (cut + 1)..n} \cup ElementsOf(fits)
    BY <1>7, <1>8, <1>9
  <2> QED
    BY <1>1, <1>3, <1>4, <1>5, <2>1
<1>11. Renewal(q, cut, fits)
  BY <1>6, <1>10 DEF Renewal, m, n, r, old
<1> QED
  BY <1>2, <1>3, <1>10, <1>11 DEF m, n, d, r, old

LEMMA RenewedCount ==
    ASSUME NEW q \in Seq(Item), NEW cut \in 0..Len(q), NEW fits \in Seq(Item), NEW t
    PROVE  /\ Count(q, t) - Count(Old(q, cut), t) + Count(fits, t) = Count(Renewed(q, cut, fits), t)
           /\ Count(Old(q, cut), t) \in 0..Count(q, t)
<1>1. /\ Old(q, cut) \in Seq(Item) /\ Kept(q, cut) \in Seq(Item)
      /\ Count(q, t) = Count(Old(q, cut), t) + Count(Kept(q, cut), t)
  BY Split DEF Old, Kept
<1>2. Count(Renewed(q, cut, fits), t) = Count(Kept(q, cut), t) + Count(fits, t)
  BY <1>1, CountConcat DEF Renewed
<1>3. Count(Old(q, cut), t) \in Nat /\ Count(Kept(q, cut), t) \in Nat /\ Count(fits, t) \in Nat
  BY <1>1, CountTyped
<1> QED
  BY <1>1, <1>2, <1>3

InLine(q) == \A k, l \in DOMAIN q : k < l => Before(q[k], q[l])

LEMMA RenewedInLine ==
    ASSUME NEW q \in Seq(Item), NEW cut \in 0..Len(q), NEW fits \in Seq(Item), NEW s \in Int,
           InLine(q), \A k \in DOMAIN q : q[k].msg <= s,
           \A k \in DOMAIN fits : fits[k].msg = s + 1 /\ fits[k].part = k
    PROVE  InLine(Renewed(q, cut, fits))
<1> DEFINE r == Renewed(q, cut, fits)
           m == Len(q) - cut
<1>1. /\ \A k \in DOMAIN r : k \in Int
      /\ \A k \in DOMAIN r :
            \/ k <= m /\ cut + k \in DOMAIN q /\ r[k] = q[cut + k]
            \/ ~(k <= m) /\ k - m \in DOMAIN fits /\ r[k] = fits[k - m]
  <2>1. Renewal(q, cut, fits) /\ DOMAIN r = 1..(m + Len(fits)) /\ m + Len(fits) \in Int
    BY RenewedQueue, LenProperties
  <2> QED
    BY <2>1 DEF Renewal
<1>2. m \in Int /\ cut \in Int /\ \A k \in DOMAIN q : q[k].msg \in Int
  BY LenProperties, ItemFields
<1> HIDE DEF r, m
<1> SUFFICES ASSUME NEW k \in DOMAIN r, NEW l \in DOMAIN r, k < l PROVE Before(r[k], r[l])
  BY DEF InLine, r
<1>3. CASE l <= m
  <2>1. /\ k <= m /\ cut + k < cut + l
        /\ cut + k \in DOMAIN q /\ r[k] = q[cut + k] /\ cut + l \in DOMAIN q /\ r[l] = q[cut + l]
    BY <1>1, <1>2, <1>3
  <2> QED
    BY <2>1 DEF InLine
<1>4. CASE k <= m /\ ~(l <= m)
  <2>1. /\ cut + k \in DOMAIN q /\ r[k] = q[cut + k]
        /\ l - m \in DOMAIN fits /\ r[l] = fits[l - m]
    BY <1>1, <1>4
  <2>2. r[k].msg < r[l].msg
    BY <1>2, <2>1
  <2> QED
    BY <2>2 DEF Before
<1>5. CASE ~(k <= m)
  <2>1. /\ ~(l <= m) /\ k - m < l - m
        /\ k - m \in DOMAIN fits /\ r[k] = fits[k - m] /\ l - m \in DOMAIN fits /\ r[l] = fits[l - m]
    BY <1>1, <1>2, <1>5
  <2> QED
    BY <2>1 DEF Before
<1> QED
  BY <1>3, <1>4, <1>5

LEMMA CutBounds ==
    ASSUME NEW n \in Nat, NEW cut \in 0..n, NEW j \in 1..cut, NEW k \in (cut + 1)..n
    PROVE  /\ j \in 1..n /\ cut \in 1..n /\ cut + 1 \in 1..n /\ k \in 1..n
           /\ j = cut \/ j < cut
           /\ cut < cut + 1
           /\ cut + 1 = k \/ cut + 1 < k
           /\ cut # 0 /\ cut # n
OBVIOUS

\* A cut at the border of two messages parts the messages.
LEMMA CutParts ==
    ASSUME NEW q \in Seq(Item), NEW cut \in 0..Len(q), InLine(q),
           cut \in {0, Len(q)} \/ q[cut].msg # q[cut + 1].msg
    PROVE  \A j \in 1..cut, k \in (cut + 1)..Len(q) : q[j].msg < q[k].msg
<1> SUFFICES ASSUME NEW j \in 1..cut, NEW k \in (cut + 1)..Len(q) PROVE q[j].msg < q[k].msg
  OBVIOUS
<1>1. Len(q) \in Nat /\ DOMAIN q = 1..Len(q) /\ \A x \in DOMAIN q : q[x].msg \in Int
  BY LenProperties, ItemFields
<1>2. \A x, y \in DOMAIN q : x < y => q[x].msg <= q[y].msg
  BY <1>1 DEF InLine, Before
<1>3. /\ j \in DOMAIN q /\ cut \in DOMAIN q /\ cut + 1 \in DOMAIN q /\ k \in DOMAIN q
      /\ j = cut \/ j < cut
      /\ cut < cut + 1
      /\ cut + 1 = k \/ cut + 1 < k
      /\ cut # 0 /\ cut # Len(q)
  BY <1>1, CutBounds
<1>4. q[cut].msg < q[cut + 1].msg
  BY <1>1, <1>2, <1>3
<1>5. q[j].msg <= q[cut].msg /\ q[cut + 1].msg <= q[k].msg
  BY <1>1, <1>2, <1>3
<1> QED
  BY <1>1, <1>3, <1>4, <1>5

\* A message may start a worker, and leaves one that runs alone.
LEMMA EnsuredControl ==
    ASSUME SpeechInv, worker' = Ensured(guild'), guild'.generation = guild.generation,
           guild'.accepting = guild.accepting, clearing' = clearing,
           worker.item \in Item => (fate'[Spot(worker.item)] = "waiting" => Waits)
    PROVE  /\ SameItems /\ InHand' = InHand /\ worker' \in WorkerState /\ (Stalled' => Stalled)
           /\ \A t : Unbooked(t)' = Unbooked(t)
           /\ Control'
<1> USE DEF SpeechInv, Data, Control
<1>1. worker \in WorkerState /\ guild \in GuildState
  BY StateTyped
<1>2. CASE worker' = worker
  <2>1. /\ SameItems /\ InHand' = InHand /\ Stalled' = Stalled /\ Started' = Started
        /\ Waited' = Waited /\ \A t : Unbooked(t)' = Unbooked(t)
    BY <1>2 DEF SameItems, InHand, Stalled, Started, Waited, Unbooked
  <2>2. worker.at \in Busy => worker.item \in Item
    BY BusyItem
  <2>3. Past'
    BY <1>2, <2>2 DEF Past, Waits, Spot, Busy, Routes, Local
  <2>4. Placed' /\ Clocked' /\ (EndsEarly => EndsEarly')
    BY <1>2, <2>1 DEF Placed, Clocked, EndsEarly
  <2> QED
    BY <1>1, <1>2, <2>1, <2>3, <2>4
<1>3. CASE worker.at = "none" /\ guild.accepting /\ worker' = [NoWorker EXCEPT !.at = "created"]
  <2>1. /\ worker' \in WorkerState /\ worker'.at = "created" /\ worker'.item = NoItem
        /\ worker'.ahead = NoItem /\ worker'.arrived = NoItem /\ ~worker'.watching
        /\ ~worker'.raising
    <3>1. NoWorker \in WorkerState
      BY CardinalityOfClears DEF NoWorker, WorkerState, Awaits
    <3>2. /\ NoWorker.item = NoItem /\ NoWorker.ahead = NoItem /\ NoWorker.arrived = NoItem
          /\ ~NoWorker.watching /\ ~NoWorker.raising
      BY DEF NoWorker
    <3> QED
      BY <1>3, <3>1, <3>2 DEF WorkerState, Awaits
  <2>2. worker.item = NoItem /\ worker.ahead = NoItem /\ worker.arrived = NoItem
    BY <1>3 DEF Placed, Empty, Early
  <2>3. SameItems /\ InHand' = InHand /\ ~Stalled' /\ ~Started' /\ \A t : Unbooked(t)' = Unbooked(t)
    BY <1>3, <2>1, <2>2 DEF SameItems, InHand, Stalled, Started, Unbooked
  <2>4. Placed' /\ Past' /\ EndsEarly'
    BY <2>1, <2>3 DEF Placed, Past, EndsEarly, Busy, Early, Empty, Routes, Local
  <2>5. Clocked'
    BY <1>3, <2>1, <2>3 DEF Clocked, Routes, Local
  <2> QED
    BY <2>1, <2>3, <2>4, <2>5
<1> QED
  BY <1>2, <1>3 DEF Ensured

LEMMA RefusedInv ==
    ASSUME SpeechInv, guild' = [guild EXCEPT !.live = TRUE], worker' = Ensured(guild'),
           sent < Messages, sent' = sent + 1, UNCHANGED <<fate, clearing, toggles>>
    PROVE  SpeechInv'
<1> USE DEF SpeechInv, Data
<1>1. guild \in GuildState
  BY StateTyped
<1>2. /\ guild' \in GuildState /\ guild'.queue = guild.queue /\ guild'.pending = guild.pending
      /\ guild'.generation = guild.generation /\ guild'.accepting = guild.accepting
  BY <1>1 DEF GuildState
<1>3. /\ SameItems /\ InHand' = InHand /\ worker' \in WorkerState /\ (Stalled' => Stalled)
      /\ \A t : Unbooked(t)' = Unbooked(t)
      /\ Control'
  BY <1>2, EnsuredControl DEF Waits
<1>4. Typed'
  BY <1>2, <1>3, BoundsAssumption DEF Typed, Begun
<1>5. Counted' /\ InTurn' /\ Settling({})
  BY <1>2, <1>3 DEF Counted, Ordered, InTurn, SameItems, Settling
<1>6. Data'
  BY <1>2, <1>3, <1>4, <1>5, DropsData
<1> QED
  BY <1>3, <1>6

\* What an admitted message does to the fates: its parts wait, and those that
\* waited in the part of the queue cut off are evicted.
Evicting(n, old) ==
    \A p \in Part :
       \/ p[1] = sent + 1 /\ p[2] <= n /\ fate'[p] = "waiting"
       \/ /\ ~(p[1] = sent + 1 /\ p[2] <= n)
          /\ \/ fate'[p] = fate[p]
             \/ fate'[p] = "evicted" /\ fate[p] = "waiting" /\ \E i \in old : Spot(i) = p
          /\ \A i \in old : Spot(i) = p => fate'[p] # "waiting"

\* The cut, with what the numbers of the queue's items say of it.
LEMMA CutFound ==
    ASSUME SpeechInv, sent < Messages, NEW group \in Groups, Len(group) <= Capacity,
           NEW cut, cut = Evictions(guild.queue, Len(group))
    PROVE  /\ cut \in 0..Len(guild.queue)
           /\ Len(guild.queue) - cut + Len(group) <= Capacity
           /\ InLine(Renewed(guild.queue, cut, Fits(group)))
           /\ \A j \in 1..cut, k \in (cut + 1)..Len(guild.queue) :
                 guild.queue[j].msg < guild.queue[k].msg
<1> USE DEF SpeechInv, Data
<1>1. guild.queue \in Seq(Item) /\ InLine(guild.queue)
  BY QueueTyped DEF Ordered, InLine
<1>2. /\ Fits(group) \in Seq(Item) /\ DOMAIN Fits(group) = 1..Len(group) /\ Len(group) \in Nat
      /\ \A k \in DOMAIN Fits(group) : Fits(group)[k].msg = sent + 1 /\ Fits(group)[k].part = k
      /\ sent \in Int
  BY FitsTyped, LenProperties
<1>3. \A k \in DOMAIN guild.queue : guild.queue[k].msg <= sent
  BY DEF Ordered, Held, Queued, ElementsOf
<1>4. /\ cut \in 0..Len(guild.queue) /\ Len(guild.queue) - cut + Len(group) <= Capacity
      /\ cut \in {0, Len(guild.queue)} \/ guild.queue[cut].msg # guild.queue[cut + 1].msg
  BY <1>1, <1>2, EvictionsCut
<1> QED
  BY <1>1, <1>2, <1>3, <1>4, RenewedInLine, CutParts

LEMMA AdmittedData ==
    ASSUME Data, NEW fits \in Seq(Item), NEW cut \in 0..Len(guild.queue), sent' = sent + 1,
           sent + 1 \in 1..Messages, sent \in Int,
           guild' \in GuildState, guild'.queue = Renewed(guild.queue, cut, fits),
           Len(guild'.queue) <= Capacity, guild'.generation = guild.generation, guild'.accepting,
           Counted', SameItems, worker' \in WorkerState, UNCHANGED <<clearing, toggles>>,
           fate' \in [Part -> Fates], Evicting(Len(fits), ElementsOf(Old(guild.queue, cut))),
           InLine(guild'.queue),
           \A k \in DOMAIN fits : fits[k].msg = sent + 1 /\ fits[k].part = k /\ fits[k].gen = guild.generation,
           \A j \in 1..cut, k \in (cut + 1)..Len(guild.queue) : guild.queue[j].msg < guild.queue[k].msg
    PROVE  Data'
<1> USE DEF Data
<1> DEFINE q == guild.queue
           r == Renewed(q, cut, fits)
           old == {q[k] : k \in 1..cut}
           kept == {q[k] : k \in (cut + 1)..Len(q)}
<1>1. /\ q \in Seq(Item) /\ Len(q) \in Nat /\ DOMAIN q = 1..Len(q) /\ DOMAIN fits = 1..Len(fits)
      /\ Len(fits) \in Nat /\ cut \in Nat
  BY QueueTyped, LenProperties
<1>2. /\ ElementsOf(Old(q, cut)) = old /\ ElementsOf(r) = kept \cup ElementsOf(fits)
      /\ \A k \in DOMAIN r : \/ k <= Len(q) - cut /\ cut + k \in DOMAIN q /\ r[k] = q[cut + k]
                             \/ \E l \in DOMAIN fits : r[k] = fits[l]
      /\ DOMAIN r = 1..(Len(q) - cut + Len(fits))
  <2>1. /\ ElementsOf(Old(q, cut)) = old /\ ElementsOf(r) = kept \cup ElementsOf(fits)
        /\ \A k \in DOMAIN r :
              \/ k <= Len(q) - cut /\ cut + k \in DOMAIN q /\ r[k] = q[cut + k]
              \/ ~(k <= Len(q) - cut) /\ k - (Len(q) - cut) \in DOMAIN fits /\ r[k] = fits[k - (Len(q) - cut)]
        /\ DOMAIN r = 1..(Len(q) - cut + Len(fits))
    <3>1. Renewal(q, cut, fits) /\ DOMAIN r = 1..(Len(q) - cut + Len(fits))
      BY <1>1, RenewedQueue
    <3> HIDE DEF q
    <3> QED
      BY <3>1 DEF Renewal
  <2> HIDE DEF r, q, old, kept
  <2> QED
    BY <2>1
<1>3. Queued = old \cup kept
  <2>1. \A k \in DOMAIN q : k \in 1..cut \/ k \in (cut + 1)..Len(q)
    BY <1>1
  <2>2. 1..cut \subseteq DOMAIN q /\ (cut + 1)..Len(q) \subseteq DOMAIN q
    BY <1>1
  <2> QED
    BY <2>1, <2>2 DEF Queued, ElementsOf
<1> HIDE DEF r, old, kept
<1>4. Queued' = kept \cup ElementsOf(fits) /\ InHand' = InHand
  BY <1>2 DEF Queued, SameItems, InHand, r, q
<1>5. \A i \in Held : /\ i \in Item /\ Spot(i) \in Part /\ i.msg <= sent /\ i.msg \in Int
                      /\ Spot(i)[1] # sent + 1 /\ i.msg < sent + 1 /\ i.msg <= sent + 1
  <2>1. \A i \in Held : i \in Item /\ Spot(i) \in Part /\ i.msg <= sent /\ i.msg \in Int
    BY QueueTyped, ItemFields DEF Ordered
  <2>2. \A i \in Held : Spot(i)[1] = i.msg
    BY DEF Spot
  <2> QED
    BY <2>1, <2>2
<1>6. \A j \in ElementsOf(fits) : j.msg = sent + 1 /\ j.gen = guild.generation
  BY DEF ElementsOf
<1>7. Typed'
  <2>1. sent' \in 0..Messages
    BY BoundsAssumption
  <2> QED
    BY <2>1 DEF Typed, Begun
<1>8. Ordered'
  <2>1. ASSUME NEW i \in InHand, NEW j \in Queued' PROVE Before(i, j)
    BY <1>3, <1>4, <1>5, <1>6 DEF Ordered, Before, Held
  <2>2. \A i \in Held' : i.msg <= sent + 1
    <3>1. sent + 1 <= sent + 1
      OBVIOUS
    <3> QED
      BY <1>3, <1>4, <1>5, <1>6, <3>1 DEF Held
  <2>3. InTurn'
    BY DEF Ordered, InTurn, SameItems
  <2>4. \A k, l \in DOMAIN guild'.queue : k < l => Before(guild'.queue[k], guild'.queue[l])
    BY DEF InLine
  <2> QED
    BY <1>4, <2>1, <2>2, <2>3, <2>4 DEF Ordered
<1>9. Located'
  <2> SUFFICES ASSUME NEW p \in Part, fate'[p] = "waiting" PROVE \E i \in Held' : Spot(i) = p
    BY DEF Located
  <2>1. CASE p[1] = sent + 1 /\ p[2] <= Len(fits)
    <3>1. p[2] \in DOMAIN fits /\ p = <<p[1], p[2]>>
      BY <1>1, <2>1, LongestMessage DEF Part
    <3>2. Spot(fits[p[2]]) = p
      BY <2>1, <3>1 DEF Spot
    <3> QED
      BY <1>4, <3>1, <3>2 DEF Held, ElementsOf
  <2>2. CASE ~(p[1] = sent + 1 /\ p[2] <= Len(fits))
    <3>1. fate[p] = "waiting" /\ \A i \in old : Spot(i) # p
      BY <1>2, <2>2 DEF Evicting
    <3>2. PICK i \in Held : Spot(i) = p
      BY <3>1 DEF Located
    <3> QED
      BY <1>3, <1>4, <3>1, <3>2 DEF Held
  <2> QED
    BY <2>1, <2>2
<1>10. WholeMessages'
  <2> SUFFICES ASSUME NEW k \in DOMAIN r, NEW earlier \in 1..r[k].part
               PROVE  fate'[<<r[k].msg, earlier>>] # "evicted"
    BY DEF WholeMessages, r, q
  <2> DEFINE p == <<r[k].msg, earlier>>
  <2>1. p \in Part /\ p[1] = r[k].msg /\ p[2] = earlier
    <3>1. r[k] \in Item
      BY <1>1, <1>2, RenewedQueue, LenProperties DEF r
    <3> QED
      BY <3>1, ItemFields, LongestMessage DEF Part
  <2>2. CASE k <= Len(q) - cut /\ cut + k \in DOMAIN q /\ r[k] = q[cut + k]
    <3>1. cut + k \in (cut + 1)..Len(q) /\ r[k] \in Held
      BY <1>1, <1>2, <2>2 DEF Held, Queued, ElementsOf
    <3>2. fate[p] # "evicted"
      BY <2>2 DEF WholeMessages
    <3>3. \A i \in old : i.msg < r[k].msg /\ i.msg \in Int
      BY <1>3, <1>5, <2>2, <3>1 DEF Held, old
    <3>4. \A i \in old : Spot(i) # p
      BY <1>5, <3>1, <3>3 DEF Spot
    <3>5. fate'[p] = fate[p]
      BY <1>2, <1>5, <2>1, <3>1, <3>4 DEF Evicting
    <3> QED
      BY <3>2, <3>5
  <2>3. CASE \E l \in DOMAIN fits : r[k] = fits[l]
    <3>1. p[1] = sent + 1 /\ p[2] <= Len(fits)
      BY <1>1, <2>1, <2>3
    <3> QED
      BY <2>1, <3>1 DEF Evicting
  <2> QED
    BY <1>2, <2>2, <2>3
<1>11. Aged'
  <2>1. guild.generation <= guild.generation
    BY StateTyped
  <2> QED
    BY <1>3, <1>4, <1>6, <2>1 DEF Aged, Held
<1> QED
  BY <1>7, <1>8, <1>9, <1>10, <1>11

LEMMA MessageInv ==
    ASSUME SpeechInv, NEW group \in Groups, Message(group)
    PROVE  SpeechInv'
<1> USE DEF SpeechInv, Data
<1> DEFINE admitted == /\ guild.accepting /\ guild.enabled
                       /\ \E k \in 1..Len(group) : guild.pending[group[k]] = 0
                       /\ Len(group) <= Capacity
<1>1. /\ sent < Messages /\ sent' = sent + 1 /\ worker' = Ensured(guild')
      /\ UNCHANGED <<clearing, toggles>>
  BY DEF Message
<1>2. CASE ~admitted
  <2>1. guild' = [guild EXCEPT !.live = TRUE] /\ fate' = fate
    BY <1>2 DEF Message
  <2> QED
    BY <1>1, <2>1, RefusedInv
<1>3. CASE admitted
  <2> DEFINE q == guild.queue
             n == Len(group)
             cut == Evictions(q, n)
             fits == Fits(group)
             fitting == Incremented(Decremented(guild.pending, Old(q, cut)), fits)
  <2>1. /\ guild' = [guild EXCEPT !.live = TRUE, !.queue = Renewed(q, cut, fits), !.pending = fitting]
        /\ fate' = [p \in Part |-> IF p[1] = sent + 1 /\ p[2] <= n THEN "waiting"
                                   ELSE Settle(fate, ElementsOf(Old(q, cut)), "evicted")[p]]
        /\ guild.accepting = TRUE /\ n <= Capacity
    <3>1. guild.accepting \in BOOLEAN
      BY StateTyped DEF GuildState
    <3> QED
      BY <1>3, <3>1 DEF Message, Fits, Renewed, Old, Kept
  <2>2. /\ cut \in 0..Len(q) /\ Len(q) - cut + n <= Capacity /\ InLine(Renewed(q, cut, fits))
        /\ \A j \in 1..cut, k \in (cut + 1)..Len(q) : q[j].msg < q[k].msg
    BY <1>1, <2>1, CutFound
  <2>3. /\ fits \in Seq(Item) /\ Len(fits) = n /\ n \in Nat /\ sent + 1 \in 1..Messages
        /\ sent \in Int
        /\ \A k \in DOMAIN fits : fits[k].msg = sent + 1 /\ fits[k].part = k /\ fits[k].gen = guild.generation
    BY <1>1, FitsTyped, LenProperties
  <2> HIDE DEF n, cut, fits
  <2>4. guild \in GuildState /\ fate \in [Part -> Fates] /\ q \in Seq(Item)
    BY StateTyped, QueueTyped
  <2>5. /\ Old(q, cut) \in Seq(Item) /\ Renewed(q, cut, fits) \in Seq(Item)
        /\ Len(Renewed(q, cut, fits)) = Len(q) - cut + n
    BY <2>2, <2>3, <2>4, RenewedQueue
  <2>6. fitting \in [Texts -> Nat]
    <3>1. Decremented(guild.pending, Old(q, cut)) \in [Texts -> Nat] /\ \A t : Count(fits, t) \in Nat
      BY <2>3, <2>5, Bookings, CountTyped
    <3> QED
      BY <3>1 DEF Incremented
  <2> HIDE DEF fitting
  <2>7. /\ guild' \in GuildState /\ guild'.queue = Renewed(q, cut, fits) /\ guild'.pending = fitting
        /\ guild'.generation = guild.generation /\ guild'.accepting = guild.accepting
        /\ Len(guild'.queue) <= Capacity
    BY <2>1, <2>2, <2>4, <2>5, <2>6 DEF GuildState
  <2> HIDE DEF q
  <2>8. Evicting(n, ElementsOf(Old(q, cut))) /\ fate' \in [Part -> Fates]
    <3> DEFINE old == ElementsOf(Old(q, cut))
               settled == Settle(fate, old, "evicted")
    <3> HIDE DEF old
    <3>1. /\ settled \in [Part -> Fates]
          /\ \A p \in Part : /\ \/ settled[p] = fate[p]
                                \/ settled[p] = "evicted" /\ fate[p] = "waiting" /\ \E i \in old : Spot(i) = p
                             /\ \A i \in old : Spot(i) = p => settled[p] # "waiting"
      <4>1. settled = [p \in Part |-> IF fate[p] = "waiting" /\ \E i \in old : Spot(i) = p
                                     THEN "evicted" ELSE fate[p]]
        BY DEF Settle, Spot
      <4> HIDE DEF settled
      <4>2. settled \in [Part -> Fates]
        BY <2>4, <4>1 DEF Fates
      <4>3. \A p \in Part : settled[p] = IF fate[p] = "waiting" /\ \E i \in old : Spot(i) = p
                                        THEN "evicted" ELSE fate[p]
        BY <4>1
      <4>4. ASSUME NEW p \in Part
            PROVE  /\ \/ settled[p] = fate[p]
                      \/ settled[p] = "evicted" /\ fate[p] = "waiting" /\ \E i \in old : Spot(i) = p
                   /\ \A i \in old : Spot(i) = p => settled[p] # "waiting"
        <5>1. CASE fate[p] = "waiting" /\ \E i \in old : Spot(i) = p
          BY <4>3, <5>1
        <5>2. CASE ~(fate[p] = "waiting" /\ \E i \in old : Spot(i) = p)
          BY <4>3, <5>2
        <5> QED
          BY <5>1, <5>2
      <4> QED
        BY <4>2, <4>4
    <3> HIDE DEF settled
    <3>2. fate' = [p \in Part |-> IF p[1] = sent + 1 /\ p[2] <= n THEN "waiting" ELSE settled[p]]
      BY <2>1 DEF settled, old
    <3>3. Evicting(n, old)
      BY <3>1, <3>2 DEF Evicting
    <3>4. fate' \in [Part -> Fates]
      BY <3>1, <3>2 DEF Fates
    <3> QED
      BY <3>3, <3>4 DEF old
  <2>9. worker.item \in Item => (fate'[Spot(worker.item)] = "waiting" => Waits)
    <3> SUFFICES ASSUME worker.item \in Item, fate'[Spot(worker.item)] = "waiting" PROVE Waits
      OBVIOUS
    <3>1. /\ Spot(worker.item) \in Part /\ worker.item.msg <= sent
          /\ worker.item.msg \in Int /\ Spot(worker.item)[1] = worker.item.msg
      BY ItemFields DEF Ordered, Held, InHand, Spot
    <3>2. Spot(worker.item)[1] # sent + 1
      BY <2>3, <3>1
    <3> QED
      BY <2>8, <3>1, <3>2 DEF Evicting, Waits
  <2>10. /\ SameItems /\ worker' \in WorkerState /\ \A t : Unbooked(t)' = Unbooked(t)
         /\ Control'
    BY <1>1, <2>7, <2>9, EnsuredControl
  <2>11. Counted'
    <3> SUFFICES ASSUME NEW t \in Texts PROVE guild'.pending[t] <= Count(guild'.queue, t) + Unbooked(t)'
      BY DEF Counted
    <3>1. guild.pending[t] <= Count(q, t) + Unbooked(t) /\ guild.pending[t] \in Nat
      BY <2>4 DEF Counted, GuildState, q
    <3>2. /\ Count(q, t) - Count(Old(q, cut), t) + Count(fits, t) = Count(guild'.queue, t)
          /\ Count(Old(q, cut), t) \in 0..Count(q, t)
      BY <2>2, <2>3, <2>4, <2>7, RenewedCount DEF q
    <3>3. Count(q, t) \in Nat /\ Count(fits, t) \in Nat
      BY <2>3, <2>4, CountTyped
    <3>4. Unbooked(t)' = Unbooked(t) /\ Unbooked(t) \in {0, 1}
      BY <2>10 DEF Unbooked
    <3>5. guild'.pending[t] = (IF guild.pending[t] <= Count(Old(q, cut), t) THEN 0
                               ELSE guild.pending[t] - Count(Old(q, cut), t)) + Count(fits, t)
      BY <2>7 DEF fitting, Incremented, Decremented
    <3> QED
      BY <3>1, <3>2, <3>3, <3>4, <3>5
  <2>12. Data'
    BY <1>1, <2>1, <2>2, <2>3, <2>7, <2>8, <2>10, <2>11, AdmittedData DEF q
  <2> QED
    BY <2>10, <2>12
<1> QED
  BY <1>2, <1>3

LEMMA InitInv == Init => SpeechInv
<1> SUFFICES ASSUME Init PROVE SpeechInv
  OBVIOUS
<1>1. /\ guild = NewState /\ worker = NoWorker /\ clearing = [c \in Clears |-> "idle"]
      /\ fate = [p \in Part |-> "none"] /\ sent = 0 /\ toggles = 0
  BY DEF Init
<1>2. Cardinality(Clears) \in Nat /\ Begun = {} /\ Cardinality({}) = 0
  BY <1>1, CardinalityOfClears, FS_EmptySet DEF Begun
<1>3. /\ guild \in GuildState /\ guild.queue = <<>> /\ guild.generation = 0
      /\ \A t \in Texts : guild.pending[t] = 0
  BY <1>1, <1>2, EmptySeq DEF NewState, GuildState
<1>4. /\ worker \in WorkerState /\ worker.at = "none" /\ worker.item = NoItem
      /\ worker.ahead = NoItem /\ worker.arrived = NoItem /\ ~worker.watching /\ ~worker.raising
  BY <1>1, <1>2 DEF NoWorker, WorkerState, Awaits
<1>5. Typed
  BY <1>1, <1>2, <1>3, <1>4, BoundsAssumption DEF Typed, Fates
<1>6. \A t : Count(<<>>, t) = 0 /\ Unbooked(t) = 0
  BY <1>4, CountNone DEF Unbooked
<1>7. Counted
  BY <1>3, <1>6 DEF Counted
<1>8. DOMAIN guild.queue = {} /\ Queued = {} /\ InHand = {} /\ Held = {} /\ InTurn /\ ~Started
  BY <1>3, <1>4 DEF Queued, ElementsOf, InHand, Held, InTurn, Started
<1>9. Ordered /\ Located /\ WholeMessages /\ Aged
  BY <1>1, <1>8 DEF Ordered, Located, WholeMessages, Aged
<1>10. Control
  BY <1>4, <1>8 DEF Control, Placed, Past, Clocked, EndsEarly, Stalled, Early, Busy, Empty, Routes, Local
<1> QED
  BY <1>5, <1>7, <1>9, <1>10 DEF SpeechInv, Data

LEMMA WorkerStepInv ==
    ASSUME SpeechInv, WorkerStep
    PROVE  SpeechInv'
BY GoesOnInv, SettlesInv, ResumedInv, FetchInv, SpeakLocallyInv, TopInv, DiscardedInv,
   FinallyInv, EndsInv DEF WorkerStep

LEMMA NextInv ==
    ASSUME SpeechInv, [Next]_vars
    PROVE  SpeechInv'
<1>1. CASE Next
  BY <1>1, MessageInv, ToggleInv, ClearInv, ClearEndsInv, WorkerStepInv, ArrivalInv DEF Next
<1>2. CASE UNCHANGED vars
  <2>1. UNCHANGED <<guild, worker, clearing, fate, sent, toggles>>
    BY <1>2 DEF vars
  <2>2. /\ Typed' = Typed /\ Counted' = Counted /\ Ordered' = Ordered /\ Located' = Located
        /\ WholeMessages' = WholeMessages /\ Aged' = Aged
    BY <2>1 DEF Typed, Begun, Counted, Unbooked, Ordered, InTurn, Held, Queued, InHand, Located,
         WholeMessages, Aged, Stalled, Started
  <2>3. Placed' = Placed /\ Past' = Past /\ Clocked' = Clocked /\ EndsEarly' = EndsEarly
    BY <2>1 DEF Placed, Past, Clocked, EndsEarly, Stalled, Started, Waited, InHand
  <2> QED
    BY <2>2, <2>3 DEF SpeechInv, Data, Control
<1> QED
  BY <1>1, <1>2

\* The inductive invariant holds in every reachable state.
THEOREM SpeechInvariance == Spec => []SpeechInv
BY InitInv, NextInv, PTL DEF Spec

\* The history holds parts, for every step keeps it.
LeftTyped == left \subseteq Part
LEMMA LeftParts == Spec => []LeftTyped
<1>1. Init => LeftTyped
  BY DEF Init, LeftTyped
<1>2. LeftTyped /\ [Next]_vars => LeftTyped'
  <2> SUFFICES ASSUME left \subseteq Part, [Next]_vars PROVE left' \subseteq Part
    BY DEF LeftTyped
  <2>1. CASE Leaves
    BY <2>1 DEF Leaves
  <2>2. CASE UNCHANGED vars
    BY <2>2 DEF vars
  <2>3. (\E group \in Groups : Message(group)) \/ Toggle \/ (\E c \in Clears : Clear(c) \/ ClearEnds(c))
        \/ Arrival => Leaves
    BY DEF Message, Toggle, Clear, ClearEnds, Arrival, Only
  <2>4. WorkerStep => Leaves
    BY DEF WorkerStep, Cancelled, Top, Starts, Discarded, Fetch, Resumed, IdleTimeout, IdleEnds,
         Accepts, Blocked, RouteAgent, Routed, RouteDirect, HandOver, RemoteEnds, RemoteGivesUp,
         RemoteFallsBack, SpeakLocally, Connected, NotConnected, Abandoned, Resolved, Unresolved,
         Plays, PlayFails, Played, Finish, RemoteReleased, Unwatched, Ending, Ends, Only
  <2> QED
    BY <2>1, <2>2, <2>3, <2>4 DEF Next
<1> QED
  BY <1>1, <1>2, PTL DEF Spec

\* The state stays well formed, and a text is never counted as pending more often
\* than it waits in the queue or as a fetched part that is not booked yet:
\* _enqueue_tts_items refuses as duplicates only what is still to be spoken.
THEOREM DuplicatesAreWaiting == Spec => []DuplicatesWait
<1>1. SpeechInv /\ LeftTyped => DuplicatesWait
  <2> SUFFICES ASSUME SpeechInv, left \subseteq Part PROVE DuplicatesWait
    BY DEF LeftTyped
  <2> USE DEF SpeechInv, Data
  <2>1. /\ worker \in WorkerState /\ guild \in GuildState /\ guild.queue \in Seq(Item)
        /\ Len(guild.queue) <= Capacity /\ Len(guild.queue) \in Nat /\ Capacity \in Nat
    BY StateTyped, QueueTyped, BoundsAssumption DEF Typed
  <2>2. ASSUME NEW t \in Texts
        PROVE  /\ guild.pending[t] <= Count(guild.queue, t) + Unbooked(t)
               /\ guild.pending[t] \in 0..(Capacity + 2)
    <3>1. guild.pending[t] <= Count(guild.queue, t) + Unbooked(t) /\ guild.pending[t] \in Nat
      BY <2>1 DEF Counted, GuildState
    <3>2. Count(guild.queue, t) \in Nat /\ Count(guild.queue, t) <= Len(guild.queue)
      BY <2>1, CountTyped
    <3>3. Unbooked(t) \in {0, 1}
      BY DEF Unbooked
    <3> QED
      BY <2>1, <3>1, <3>2, <3>3
  <2>3. guild.pending \in [Texts -> 0..(Capacity + 2)]
    BY <2>1, <2>2 DEF GuildState
  <2>4. TypeOK
    BY <2>1, <2>3 DEF TypeOK, Typed, GuildState, WorkerState
  <2> QED
    BY <2>2, <2>4 DEF DuplicatesWait, Unbooked
<1> QED
  BY <1>1, SpeechInvariance, LeftParts, PTL

\* Messages are evicted whole: _enqueue_tts_items cuts the queue where a message
\* ends, and the worker takes it from its head.
THEOREM MessagesEvictedWhole == Spec => []WholeMessages
<1>1. SpeechInv => WholeMessages
  BY DEF SpeechInv, Data
<1> QED
  BY <1>1, SpeechInvariance, PTL

\* Only a hand-over and the start of the player make a part heard.
LEMMA WhoSpeaks ==
    ASSUME SpeechInv, Next, StartsSpeaking
    PROVE  /\ HandOver \/ Plays
           /\ worker.at \in {"handing", "starting"} /\ ~worker.cancelled
           /\ worker'.item = worker.item /\ worker'.audio = worker.audio /\ guild' = guild
<1> USE DEF SpeechInv, Data
<1>1. worker \in WorkerState /\ worker' \in WorkerState
  <2>1. SpeechInv'
    BY NextInv
  <2> QED
    BY <2>1, StateTyped DEF Typed
<1>2. worker'.at \in {"remote", "playing"} /\ worker'.at # worker.at
  BY DEF StartsSpeaking, Speaking
<1>3. CASE HandOver \/ Plays
  BY <1>1, <1>3 DEF HandOver, Plays, Continues, Goes, Only, WorkerState
<1>4. CASE \E group \in Groups : Message(group)
  <2>1. worker' = worker \/ worker' = [NoWorker EXCEPT !.at = "created"]
    BY <1>4 DEF Message, Ensured
  <2> QED
    BY <1>2, <2>1 DEF NoWorker
<1>5. CASE Toggle \/ Arrival \/ \E c \in Clears : Clear(c) \/ ClearEnds(c)
  BY <1>1, <1>2, <1>5 DEF Toggle, Arrival, Clear, ClearEnds, WorkerState
<1>6. CASE WorkerStep /\ ~(HandOver \/ Plays)
  <2>1. CASE \/ Cancelled \/ Top \/ Starts \/ Discarded \/ Fetch \/ Resumed \/ IdleTimeout \/ IdleEnds
             \/ Accepts \/ Blocked \/ RouteAgent \/ Routed \/ RouteDirect \/ RemoteEnds
    BY <1>1, <1>2, <2>1 DEF Cancelled, Top, Starts, Discarded, Fetch, Resumed, IdleTimeout, IdleEnds,
         Accepts, Blocked, RouteAgent, Routed, RouteDirect, RemoteEnds, Goes, WorkerState
  <2>2. CASE \/ RemoteGivesUp \/ RemoteFallsBack \/ SpeakLocally \/ Connected \/ NotConnected
             \/ Abandoned \/ Resolved \/ Unresolved \/ PlayFails \/ Played
    BY <1>1, <1>2, <2>2 DEF RemoteGivesUp, RemoteFallsBack, SpeakLocally, Connected, NotConnected,
         Abandoned, Resolved, Unresolved, PlayFails, Played, Goes, WorkerState
  <2>3. CASE Ending \/ Ends
    BY <1>1, <1>2, <2>3 DEF Ending, Ends, Goes, NoWorker, WorkerState
  <2>4. CASE Finish \/ RemoteReleased \/ Unwatched
    <3>1. ASSUME NEW w \in WorkerState, worker' = Released(w) \/ worker' = Looped(w)
          PROVE  worker'.at \in {"unwatching", "ending", "top"}
      BY <3>1 DEF Released, Looped, WorkerState
    <3>2. [worker EXCEPT !.remote = FALSE] \in WorkerState /\ [worker EXCEPT !.cancelled = FALSE] \in WorkerState
      BY <1>1 DEF WorkerState
    <3>3. worker'.at \in {"unwatching", "ending", "top", "releasing"}
      BY <1>1, <2>4, <3>1, <3>2 DEF Finish, RemoteReleased, Unwatched, WorkerState
    <3> QED
      BY <1>2, <3>3
  <2> QED
    BY <1>6, <2>1, <2>2, <2>3, <2>4 DEF WorkerStep
<1> QED
  BY <1>3, <1>4, <1>5, <1>6 DEF Next

\* What the worker speaks itself was accepted after the last clear: a clear cancels
\* the worker in the step that opens the new generation, and whatever swallows the
\* CancelledError on the local way is asked for the generation again before the
\* player starts.
THEOREM LocalSpeechIsFresh == Spec => NoStaleLocalSpeech
<1>1. SpeechInv /\ [Next]_vars =>
        [StartsSpeaking /\ worker'.audio # "spent" => worker'.item.gen = guild'.generation]_vars
  <2> SUFFICES ASSUME SpeechInv, Next, StartsSpeaking, worker'.audio # "spent"
               PROVE  worker'.item.gen = guild'.generation
    OBVIOUS
  <2>1. /\ worker.at \in {"handing", "starting"} /\ ~worker.cancelled
        /\ worker'.item = worker.item /\ worker'.audio = worker.audio /\ guild' = guild
    BY WhoSpeaks
  <2> QED
    BY <2>1 DEF SpeechInv, Control, Clocked, Routes, Local
<1> QED
  BY <1>1, SpeechInvariance, PTL DEF Spec, NoStaleLocalSpeech

\* Parts are heard in the order they were accepted, for an item at hand comes
\* before all that is prepared ahead, taken by the arrival task or queued, and
\* every waiting part is one of those.
THEOREM SpeechKeepsOrder == Spec => SpokenInOrder
<1>1. SpeechInv /\ [Next]_vars =>
        [StartsSpeaking =>
           \A p \in Part :
              \/ p[1] > worker'.item.msg
              \/ p[1] = worker'.item.msg /\ p[2] >= worker'.item.part
              \/ fate[p] # "waiting"]_vars
  <2> SUFFICES ASSUME SpeechInv, Next, StartsSpeaking, NEW p \in Part, fate[p] = "waiting"
               PROVE  \/ p[1] > worker'.item.msg
                      \/ p[1] = worker'.item.msg /\ p[2] >= worker'.item.part
    OBVIOUS
  <2> USE DEF SpeechInv, Data, Control
  <2>1. worker.at \in {"handing", "starting"} /\ worker'.item = worker.item
    BY WhoSpeaks
  <2>2. worker.item \in Item /\ worker.item \in InHand
    BY <2>1, BusyItem, ItemFields DEF Busy, Routes, Local, InHand
  <2>3. PICK i \in Held : Spot(i) = p
    BY DEF Located
  <2>4. i = worker.item \/ Before(worker.item, i)
    BY <2>2, <2>3 DEF Ordered, InTurn, Held, InHand
  <2>5. i \in Item /\ p[1] = i.msg /\ p[2] = i.part
    BY <2>3, QueueTyped DEF Spot
  <2> QED
    BY <2>1, <2>2, <2>4, <2>5, ItemFields DEF Before
<1> QED
  BY <1>1, SpeechInvariance, PTL DEF Spec, SpokenInOrder

-----------------------------------------------------------------------------
LEMMA LaterOfTwo ==
    ASSUME NEW a \in Int, NEW b \in Int
    PROVE  Max({a, b}) >= a /\ Max({a, b}) >= b /\ Max({a, b}) \in Int
<1>1. \E x \in {a, b} : \A y \in {a, b} : x >= y
  <2>1. CASE a >= b
    BY <2>1
  <2>2. CASE b >= a
    BY <2>2
  <2> QED
    BY <2>1, <2>2
<1>2. Max({a, b}) = CHOOSE x \in {a, b} : \A y \in {a, b} : x >= y
  BY DEF Max
<1> QED
  BY <1>1, <1>2

\* Two items in hand or queued are never the same part.
LEMMA SpotsApart ==
    ASSUME Data, Placed, NEW i \in Held, NEW j \in InHand, Spot(i) = Spot(j)
    PROVE  i.gen = j.gen
<1>1. i \in Item /\ j \in Item /\ i.msg = j.msg /\ i.part = j.part /\ j \in Held
  BY QueueTyped DEF Spot, Data, Held
<1>2. ~Before(i, j) /\ ~Before(j, i)
  BY <1>1, ItemFields DEF Before
<1>3. i = j
  <2>1. CASE i \in Queued
    BY <1>2, <2>1 DEF Data, Ordered
  <2>2. CASE i \in InHand
    BY <1>2, <2>2 DEF Data, Ordered, InTurn, InHand, Placed
  <2> QED
    BY <2>1, <2>2 DEF Held
<1> QED
  BY <1>3

\* A worker that is behind the guild throws away what is older, or clears overlap.
LEMMA StalledDropsOlder ==
    ASSUME SpeechInv, Stalled, NEW i \in Held
    PROVE  i.gen < guild.generation \/ Overlapping
BY DEF SpeechInv, Data, Control, Aged, Clocked, Waited, Overlapping

LEMMA OnlyOlderCleared ==
    ASSUME SpeechInv, Next, NEW i \in Held,
           fate[Spot(i)] = "waiting", fate'[Spot(i)] = "cleared"
    PROVE  \/ i.gen < guild.generation \/ guild'.generation = guild.generation + 1
           \/ ~guild'.enabled \/ worker.at = "discarding" \/ Overlapping \/ Strayed
<1> USE DEF SpeechInv, Data, Control
<1>1. /\ worker \in WorkerState /\ guild \in GuildState /\ fate \in [Part -> Fates]
      /\ guild.generation \in Int /\ worker.gen \in Int
  BY StateTyped
<1>2. i \in Item /\ Spot(i) \in Part /\ i.gen \in Int /\ i.gen <= guild.generation
  BY QueueTyped, ItemFields DEF Aged
<1>3. ASSUME NEW items, NEW as, fate' = Settle(fate, items, as)
      PROVE  as = "cleared" /\ \E j \in items : Spot(j) = Spot(i)
  BY <1>2, <1>3 DEF Settle, Spot
<1>4. ASSUME fate' = Settle(fate, {worker.item}, "cleared"), worker.at \in Busy
      PROVE  worker.item \in InHand /\ i.gen = worker.item.gen
  <2>1. worker.item \in InHand
    BY <1>4, BusyItem, ItemFields DEF InHand
  <2>2. Spot(worker.item) = Spot(i)
    BY <1>3, <1>4
  <2> QED
    BY <2>1, <2>2, SpotsApart
<1>5. fate' # fate
  BY <1>2
<1>6. CASE \E group \in Groups : Message(group)
  <2>1. PICK group \in Groups : Message(group)
    BY <1>6
  <2>2. \/ fate' = fate
        \/ fate' = [p \in Part |-> IF p[1] = sent + 1 /\ p[2] <= Len(group) THEN "waiting"
                      ELSE Settle(fate, ElementsOf(SubSeq(guild.queue, 1, Evictions(guild.queue, Len(group)))), "evicted")[p]]
    BY <2>1 DEF Message
  <2> DEFINE old == ElementsOf(SubSeq(guild.queue, 1, Evictions(guild.queue, Len(group))))
  <2> HIDE DEF old
  <2>3. Settle(fate, old, "evicted")[Spot(i)] # "cleared"
    BY <1>2 DEF Settle
  <2> QED
    BY <1>2, <1>5, <2>2, <2>3 DEF old
<1>7. CASE Toggle
  <2>1. guild' = [Drained EXCEPT !.enabled = FALSE]
    BY <1>5, <1>7 DEF Toggle
  <2> QED
    BY <1>1, <2>1 DEF Drained, GuildState
<1>8. CASE \E c \in Clears : Clear(c)
  <2>1. guild' = Reopened(Closed) \/ guild' = Closed
    BY <1>8 DEF Clear
  <2> QED
    BY <1>1, <2>1 DEF Reopened, Closed, Drained, GuildState
<1>9. CASE (\E c \in Clears : ClearEnds(c)) \/ Arrival
  BY <1>5, <1>9 DEF ClearEnds, Arrival, Only
<1>10. CASE Accepts
  <2>1. /\ worker.at = "got" /\ ~SameGeneration /\ fate' = Settle(fate, {worker.item}, "cleared")
    BY <1>5, <1>10 DEF Accepts
  <2>2. i.gen = worker.item.gen
    BY <1>4, <2>1 DEF Busy
  <2>3. CASE worker.gen = guild.generation
    BY <1>1, <1>2, <2>1, <2>2, <2>3 DEF SameGeneration
  <2>4. CASE worker.gen # guild.generation
    BY <2>1, <2>4, StalledDropsOlder DEF Stalled, Started
  <2> QED
    BY <2>3, <2>4
<1>11. CASE Resolved
  <2>1. /\ worker.at = "resolving" /\ ~(guild.generation = worker.gen /\ guild.accepting)
        /\ fate' = Settle(fate, {worker.item}, "cleared")
    BY <1>5, <1>11 DEF Resolved, Continues
  <2>2. Stalled
    BY <2>1 DEF Clocked, Stalled, Started
  <2> QED
    BY <2>2, StalledDropsOlder
<1>12. CASE Finish
  <2>1. worker.at = "finishing" /\ fate' = Settle(fate, {worker.item}, "cleared")
    BY <1>12 DEF Finish
  <2>2. i.gen = worker.item.gen /\ Spot(worker.item) = Spot(i)
    BY <1>3, <1>4, <2>1 DEF Busy
  <2> QED
    BY <2>1, <2>2 DEF Past
<1>13. CASE Discarded
  BY <1>13 DEF Discarded
<1>14. CASE Ends
  <2>1. /\ fate' = Settle(fate, InHand, "cleared")
        /\ worker.at \in {"ending", "closing", "created"}
    BY <1>14 DEF Ends
  <2>2. InHand # {}
    BY <1>3, <2>1
  <2>3. worker.at # "created"
    BY <2>2 DEF Placed, Empty, Early, InHand
  <2>4. Stalled \/ Strayed
    BY <2>1, <2>2, <2>3 DEF EndsEarly, Stalled, Strayed
  <2> QED
    BY <2>4, StalledDropsOlder
<1>15. CASE \/ Blocked \/ HandOver \/ RemoteGivesUp \/ NotConnected \/ Unresolved \/ Plays \/ PlayFails
  <2>1. fate' = fate \/ fate' = Settle(fate, {worker.item}, "done")
    BY <1>15 DEF Blocked, HandOver, RemoteGivesUp, NotConnected, Unresolved, Plays, PlayFails
  <2> QED
    BY <1>3, <1>5, <2>1
<1>16. CASE \/ Cancelled \/ Top \/ Starts \/ Fetch \/ Resumed \/ IdleTimeout \/ IdleEnds
            \/ RouteAgent \/ Routed \/ RouteDirect \/ RemoteEnds \/ RemoteFallsBack \/ SpeakLocally
            \/ Connected \/ Abandoned \/ Played \/ RemoteReleased \/ Unwatched \/ Ending
  BY <1>5, <1>16 DEF Cancelled, Top, Starts, Fetch, Resumed, IdleTimeout, IdleEnds, RouteAgent, Routed,
       RouteDirect, RemoteEnds, RemoteFallsBack, SpeakLocally, Connected, Abandoned, Played,
       RemoteReleased, Unwatched, Ending, Only
<1> QED
  BY <1>6, <1>7, <1>8, <1>9, <1>10, <1>11, <1>12, <1>13, <1>14, <1>15, <1>16 DEF Next, WorkerStep

\* What a worker throws away was accepted before the last clear, unless speech was
\* switched off, clears overlap or an exception ended the worker: a worker that is
\* behind the guild has a clear waiting for its end, and the guild takes no message
\* until then.
THEOREM ClearsSpareTheNew == Spec => ClearsOnlyOlder
<1>1. SpeechInv /\ [Next]_vars =>
        [\A i \in InHand \cup ElementsOf(guild.queue) :
            fate[<<i.msg, i.part>>] = "waiting" /\ fate'[<<i.msg, i.part>>] = "cleared"
            => i.gen < Max({guild.generation, guild'.generation})
               \/ ~guild'.enabled \/ worker.at = "discarding" \/ Overlapping \/ Strayed]_vars
  <2> SUFFICES ASSUME SpeechInv, Next, NEW i \in Held, fate[Spot(i)] = "waiting",
                      fate'[Spot(i)] = "cleared"
               PROVE  \/ i.gen < Max({guild.generation, guild'.generation})
                      \/ ~guild'.enabled \/ worker.at = "discarding" \/ Overlapping \/ Strayed
    BY DEF Held, Queued, Spot
  <2> USE DEF SpeechInv, Data
  <2>1. /\ guild.generation \in Int /\ i.gen \in Int /\ i.gen <= guild.generation
    BY StateTyped, QueueTyped, ItemFields DEF Aged
  <2>2. guild'.generation \in Int
    <3>1. Typed'
      BY NextInv
    <3> QED
      BY <3>1, CardinalityOfClears DEF Typed, GuildState
  <2>3. /\ Max({guild.generation, guild'.generation}) >= guild.generation
        /\ Max({guild.generation, guild'.generation}) >= guild'.generation
        /\ Max({guild.generation, guild'.generation}) \in Int
    BY <2>1, <2>2, LaterOfTwo
  <2>4. \/ i.gen < guild.generation \/ guild'.generation = guild.generation + 1
        \/ ~guild'.enabled \/ worker.at = "discarding" \/ Overlapping \/ Strayed
    BY OnlyOlderCleared
  <2> QED
    BY <2>1, <2>2, <2>3, <2>4
<1> QED
  BY <1>1, SpeechInvariance, PTL DEF Spec, ClearsOnlyOlder
============================================================================
