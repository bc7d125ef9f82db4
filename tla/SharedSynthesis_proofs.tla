----------------------- MODULE SharedSynthesis_proofs -----------------------
(***************************************************************************)
(* The theorems of the shared syntheses, for every set of consumers, jobs  *)
(* and texts and every number of slots.  A job's references are the        *)
(* consumers that hold it (RefsInv), what its record says hangs together   *)
(* (JobInv), the index has every job that can be joined (IndexInv), and    *)
(* the slots that are not free are held by producers (SlotsReturned).      *)
(***************************************************************************)
EXTENDS SharedSynthesis, FiniteSetTheorems, TLAPS

\* A job by itself: who cancels or closes it was the last, and its producer holds the
\* slots of the stage it is at.
JobInv(r) ==
    /\ r.closed => r.refs = 0 /\ ~Running(r) /\ r.copy # "running" /\ ~r.cancelling
    /\ r.cancelling => r.stop /\ r.refs = 0
    /\ r.producer \in {"starting", "prefetching", "queued"} => ~r.slot
    /\ r.producer \in {"granted", "synthesizing", "draining"} => r.slot
    /\ r.producer = "starting" => r.prefetch = "none"
    /\ r.producer = "prefetching" => r.prefetch # "held"
    /\ r.producer \in Alive \ {"prefetching"} => r.prefetch # "granted"

Holders(j) == {c \in Consumers : consumer[c].at \in Holding /\ consumer[c].job = j}
RefsInv == \A j \in Jobs : job[j].refs = Cardinality(Holders(j))

\* A job that may be joined is the one the index has for its text, and the index has
\* no job that is closed, or for another text.
IndexInv ==
    /\ \A j \in Jobs : ~job[j].stop /\ ~job[j].closed => current[job[j].key] = j
    /\ \A k \in Keys : current[k] # NoJob => job[current[k]].key = k /\ ~job[current[k]].closed

Typed ==
    /\ current \in [Keys -> Jobs \cup {NoJob}]
    /\ job \in [Jobs -> Job]
    /\ consumer \in [Consumers -> [at: At, job: Jobs \cup {NoJob}]]
    /\ free \in [Pools -> Nat]
    /\ \A c \in Consumers : consumer[c].at # "idle" => consumer[c].job \in Jobs

IInv ==
    /\ Typed /\ RefsInv /\ IndexInv /\ SlotsReturned
    /\ \A j \in Jobs : JobInv(job[j])

-----------------------------------------------------------------------------
\* Slots.  A step of one job that moves its slots from and to the pools keeps count.
HoldsSlot(r, pool) ==
    /\ Running(r)
    /\ IF pool = "prefetch" THEN r.prefetch # "none" ELSE r.slot /\ Engine(r) = pool
SlotHolders(pool) == {j \in Jobs : HoldsSlot(job[j], pool)}

LEMMA SlotsByHolders ==
    SlotsReturned <=> \A pool \in Pools : free[pool] + Cardinality(SlotHolders(pool)) = Size(pool)
BY DEF SlotsReturned, SlotHolders, HoldsSlot

LEMMA HoldersFinite ==
    ASSUME NEW pool
    PROVE  IsFiniteSet(SlotHolders(pool)) /\ Cardinality(SlotHolders(pool)) \in Nat
<1>1. SlotHolders(pool) \subseteq Jobs
  BY DEF SlotHolders
<1> QED
  BY <1>1, ConsumersAssumption, FS_Subset, FS_CardinalityType

LEMMA SlotsMoved ==
    ASSUME Typed, SlotsReturned, NEW j \in Jobs, \A i \in Jobs \ {j} : job'[i] = job[i],
           free' \in [Pools -> Nat],
           \A pool \in Pools : free'[pool] + One(HoldsSlot(job'[j], pool)) =
                               free[pool] + One(HoldsSlot(job[j], pool))
    PROVE  SlotsReturned'
<1> SUFFICES ASSUME NEW pool \in Pools
             PROVE  free'[pool] + Cardinality(SlotHolders(pool)') = Size(pool)
  BY DEF SlotsReturned, SlotHolders, HoldsSlot
<1>2. /\ free[pool] + Cardinality(SlotHolders(pool)) = Size(pool)
      /\ free[pool] \in Nat /\ free'[pool] \in Nat
      /\ free'[pool] + One(HoldsSlot(job'[j], pool)) = free[pool] + One(HoldsSlot(job[j], pool))
  BY SlotsByHolders DEF Typed
<1>3. IsFiniteSet(SlotHolders(pool)) /\ Cardinality(SlotHolders(pool)) \in Nat
  BY HoldersFinite
<1>4. CASE HoldsSlot(job'[j], pool) = HoldsSlot(job[j], pool)
  <2>1. SlotHolders(pool)' = SlotHolders(pool)
    BY <1>4 DEF SlotHolders, HoldsSlot
  <2>2. free'[pool] = free[pool]
    BY <1>2, <1>4 DEF One
  <2> QED
    BY <1>2, <2>1, <2>2
<1>5. CASE HoldsSlot(job'[j], pool) /\ ~HoldsSlot(job[j], pool)
  <2>1. SlotHolders(pool)' = SlotHolders(pool) \cup {j} /\ j \notin SlotHolders(pool)
    BY <1>5 DEF SlotHolders, HoldsSlot
  <2>2. Cardinality(SlotHolders(pool)') = Cardinality(SlotHolders(pool)) + 1
    BY <1>3, <2>1, FS_AddElement
  <2>3. free'[pool] + 1 = free[pool]
    BY <1>2, <1>5 DEF One
  <2> QED
    BY <1>2, <1>3, <2>2, <2>3
<1>6. CASE ~HoldsSlot(job'[j], pool) /\ HoldsSlot(job[j], pool)
  <2>1. SlotHolders(pool)' = SlotHolders(pool) \ {j} /\ j \in SlotHolders(pool)
    BY <1>6 DEF SlotHolders, HoldsSlot
  <2>2. Cardinality(SlotHolders(pool)') = Cardinality(SlotHolders(pool)) - 1
    BY <1>3, <2>1, FS_RemoveElement
  <2>3. free'[pool] = free[pool] + 1
    BY <1>2, <1>6 DEF One
  <2> QED
    BY <1>2, <1>3, <2>2, <2>3
<1> QED
  BY <1>4, <1>5, <1>6 DEF HoldsSlot

-----------------------------------------------------------------------------
\* References.  Whoever is not at a job when a step begins and ends does not count.
LEMMA HoldersOf ==
    ASSUME NEW j
    PROVE  IsFiniteSet(Holders(j)) /\ Cardinality(Holders(j)) \in 0..Cardinality(Consumers)
<1>1. Holders(j) \subseteq Consumers
  BY DEF Holders
<1> QED
  BY <1>1, ConsumersAssumption, FS_Subset, FS_CardinalityType

LEMMA Held ==
    ASSUME RefsInv, NEW c \in Consumers, NEW j \in Jobs, consumer[c].at \in Holding, consumer[c].job = j
    PROVE  job[j].refs > 0
<1>1. Holders(j) # {}
  BY DEF Holders
<1>2. Cardinality(Holders(j)) \in Nat /\ Cardinality(Holders(j)) # 0
  BY <1>1, HoldersOf, FS_EmptySet
<1> QED
  BY <1>2 DEF RefsInv

\* A consumer comes to a job, leaves one, or stays: the references follow.
LEMMA RefsJoined ==
    ASSUME Typed, RefsInv, NEW c \in Consumers, consumer[c].at \notin Holding, NEW j \in Jobs,
           consumer'[c].at \in Holding, consumer'[c].job = j,
           \A d \in Consumers \ {c} : consumer'[d] = consumer[d],
           \A i \in Jobs \ {j} : job'[i].refs = job[i].refs,
           job'[j].refs = job[j].refs + 1
    PROVE  RefsInv'
<1>1. Holders(j)' = Holders(j) \cup {c} /\ c \notin Holders(j)
  BY DEF Holders
<1>2. Cardinality(Holders(j)') = Cardinality(Holders(j)) + 1
  BY <1>1, HoldersOf, FS_AddElement
<1>3. \A i \in Jobs \ {j} : Holders(i)' = Holders(i)
  BY DEF Holders
<1> QED
  BY <1>2, <1>3 DEF RefsInv

LEMMA RefsLeft ==
    ASSUME Typed, RefsInv, NEW c \in Consumers, NEW j \in Jobs,
           consumer[c].at \in Holding, consumer[c].job = j, consumer'[c].at \notin Holding,
           \A d \in Consumers \ {c} : consumer'[d] = consumer[d],
           \A i \in Jobs \ {j} : job'[i].refs = job[i].refs,
           job'[j].refs = job[j].refs - 1
    PROVE  RefsInv'
<1>1. Holders(j)' = Holders(j) \ {c} /\ c \in Holders(j)
  BY DEF Holders
<1>2. Cardinality(Holders(j)') = Cardinality(Holders(j)) - 1
  BY <1>1, HoldersOf, FS_RemoveElement
<1>3. \A i \in Jobs \ {j} : Holders(i)' = Holders(i)
  BY DEF Holders
<1> QED
  BY <1>2, <1>3 DEF RefsInv

LEMMA RefsStay ==
    ASSUME Typed, RefsInv, NEW c \in Consumers,
           \A d \in Consumers \ {c} : consumer'[d] = consumer[d],
           consumer'[c].at \in Holding <=> consumer[c].at \in Holding,
           consumer[c].at \in Holding => consumer'[c].job = consumer[c].job,
           \A i \in Jobs : job'[i].refs = job[i].refs
    PROVE  RefsInv'
<1>1. \A i \in Jobs : Holders(i)' = Holders(i)
  BY DEF Holders
<1> QED
  BY <1>1 DEF RefsInv

-----------------------------------------------------------------------------
\* Records of jobs, as the helpers of the model change them.
LEMMA UnusedTyped == Unused \in Job /\ JobInv(Unused) /\ Unused.closed /\ Unused.refs = 0
<1> DEFINE key == CHOOSE k \in Keys : TRUE
<1>1. key \in Keys
  BY KeysAssumption DEF Keys
<1> HIDE DEF key
<1>2. Unused = [key |-> key, producer |-> "unused", refs |-> 0, stop |-> FALSE,
                foreground |-> FALSE, store |-> FALSE, closed |-> TRUE,
                cancelling |-> FALSE, scheduled |-> "no", copy |-> "none",
                prefetch |-> "none", slot |-> FALSE]
  <2> DEFINE new == NewJob([key |-> key, foreground |-> FALSE, store |-> FALSE])
  <2>1. new = [key |-> key, producer |-> "starting", refs |-> 0, stop |-> FALSE,
               foreground |-> FALSE, store |-> FALSE, closed |-> FALSE,
               cancelling |-> FALSE, scheduled |-> "no", copy |-> "none",
               prefetch |-> "none", slot |-> FALSE]
    BY DEF NewJob
  <2>2. Unused = [new EXCEPT !.producer = "unused", !.closed = TRUE]
    BY DEF Unused, key
  <2> HIDE DEF new
  <2> QED
    BY <2>1, <2>2
<1>3. 0 \in 0..Cardinality(Consumers)
  BY ConsumersAssumption, FS_CardinalityType
<1>4. Unused \in Job
  BY <1>1, <1>2, <1>3 DEF Job, Producer
<1> QED
  BY <1>2, <1>4 DEF JobInv, Running, Alive

LEMMA NewJobTyped ==
    ASSUME NEW q \in Request
    PROVE  /\ NewJob(q) \in Job /\ JobInv(NewJob(q))
           /\ NewJob(q).key = q.key /\ NewJob(q).refs = 0 /\ ~NewJob(q).slot /\ NewJob(q).prefetch = "none"
           /\ ~NewJob(q).stop /\ ~NewJob(q).closed
BY ConsumersAssumption, FS_CardinalityType
   DEF NewJob, Request, Job, JobInv, Alive, Producer

\* A reference is given up: the job keeps its stage and its slots.
LEMMA ReleasedJob ==
    ASSUME NEW r \in Job, JobInv(r), r.refs > 0
    PROVE  LET s == Released(r)
           IN  /\ s \in Job /\ JobInv(s) /\ s.refs = r.refs - 1
               /\ s.key = r.key /\ s.producer = r.producer /\ s.closed = r.closed
               /\ s.slot = r.slot /\ s.prefetch = r.prefetch /\ (r.stop => s.stop)
<1>1. r.refs - 1 \in 0..Cardinality(Consumers) /\ r.refs \in Nat
  BY ConsumersAssumption, FS_CardinalityType DEF Job
<1> DEFINE t == [r EXCEPT !.refs = IF @ > 0 THEN @ - 1 ELSE 0]
<1>2. t = [r EXCEPT !.refs = r.refs - 1] /\ r.closed \in BOOLEAN /\ ~r.closed /\ ~r.cancelling
  BY <1>1 DEF JobInv, Job
<1>3. Released(r) = IF t.refs = 0 /\ Running(t) THEN [t EXCEPT !.stop = TRUE, !.cancelling = TRUE] ELSE t
  BY DEF Released
<1> HIDE DEF t
<1>4. /\ t \in Job /\ t.refs = r.refs - 1 /\ t.closed = r.closed /\ ~t.cancelling
      /\ t.key = r.key /\ t.producer = r.producer
      /\ t.slot = r.slot /\ t.prefetch = r.prefetch /\ t.stop = r.stop
  BY <1>1, <1>2 DEF Job
<1>5. JobInv(t)
  BY <1>2, <1>4 DEF JobInv, Running
<1>6. CASE t.refs = 0 /\ Running(t)
  <2> DEFINE u == [t EXCEPT !.stop = TRUE, !.cancelling = TRUE]
  <2>1. /\ u \in Job /\ u.refs = 0 /\ u.closed = t.closed /\ u.stop /\ u.cancelling
        /\ u.key = t.key /\ u.producer = t.producer /\ u.slot = t.slot /\ u.prefetch = t.prefetch
    BY <1>4, <1>6 DEF Job
  <2>2. Released(r) = u
    BY <1>3, <1>6
  <2> HIDE DEF u
  <2>3. JobInv(u)
    BY <1>2, <1>4, <1>5, <2>1 DEF JobInv
  <2> QED
    BY <1>4, <1>6, <2>1, <2>2, <2>3
<1>7. CASE ~(t.refs = 0 /\ Running(t))
  BY <1>2, <1>3, <1>4, <1>5, <1>7
<1> QED
  BY <1>6, <1>7

\* A job closes, or waits for its tasks, or is left alone.
LEMMA WhenIdleJob ==
    ASSUME NEW r \in Job, JobInv(r)
    PROVE  LET w == WhenIdle(r)
           IN  /\ w \in Job /\ JobInv(w) /\ w.refs = r.refs /\ w.key = r.key
               /\ Running(w) <=> Running(r)
               /\ Running(r) => w.slot = r.slot /\ w.prefetch = r.prefetch /\ w.producer = r.producer
               /\ ~w.closed => ~r.closed /\ w.stop = r.stop
<1>1. CASE r.refs > 0 \/ r.scheduled # "no"
  BY <1>1 DEF WhenIdle
<1>2. CASE ~(r.refs > 0 \/ r.scheduled # "no") /\ Pending(r) # "no"
  BY <1>2 DEF WhenIdle, Pending, Job, JobInv, Running
<1>3. CASE ~(r.refs > 0 \/ r.scheduled # "no") /\ Pending(r) = "no"
  <2>0. r.refs \in Nat /\ r.refs = 0
    BY <1>3, ConsumersAssumption, FS_CardinalityType DEF Job
  <2>1. WhenIdle(r) = [Unused EXCEPT !.key = r.key, !.copy = "none"] /\ ~Running(r) /\ r.refs = 0
    BY <1>3, <2>0 DEF WhenIdle, Pending, Closed, Job
  <2>2. WhenIdle(r).producer = "unused"
    BY <2>1, UnusedTyped DEF Unused, NewJob
  <2> QED
    BY <2>1, <2>2, UnusedTyped DEF Job, JobInv, Running, Alive
<1> QED
  BY <1>1, <1>2, <1>3

-----------------------------------------------------------------------------
\* Steps.  What the semaphores have left moves by one.
LEMMA Taken ==
    ASSUME Typed, NEW pool \in Pools, Take(pool)
    PROVE  /\ free' \in [Pools -> Nat] /\ free'[pool] + 1 = free[pool]
           /\ \A p \in Pools \ {pool} : free'[p] = free[p]
BY DEF Typed, Take

LEMMA EngineTyped == \A r : Engine(r) \in {"edge", "gtts"} /\ Engine(r) \in Pools \ {"prefetch"}
BY DEF Engine, Pools

LEMMA OneTyped == \A given : One(given) \in {0, 1}
BY DEF One

LEMMA GivenBack ==
    ASSUME Typed, NEW r, NEW engine, NEW prefetch, GiveBack(r, engine, prefetch)
    PROVE  /\ free' \in [Pools -> Nat]
           /\ free'[Engine(r)] = free[Engine(r)] + One(engine)
           /\ free'["prefetch"] = free["prefetch"] + One(prefetch)
           /\ \A p \in Pools \ {Engine(r), "prefetch"} : free'[p] = free[p]
<1> DEFINE first == [free EXCEPT ![Engine(r)] = @ + One(engine)]
<1>1. free \in [Pools -> Nat] /\ "prefetch" \in Pools /\ One(engine) \in Nat /\ One(prefetch) \in Nat
  BY OneTyped DEF Typed, Pools
<1>2. /\ first \in [Pools -> Nat] /\ first[Engine(r)] = free[Engine(r)] + One(engine)
      /\ \A p \in Pools \ {Engine(r)} : first[p] = free[p]
  BY <1>1, EngineTyped
<1>3. free' = [first EXCEPT !["prefetch"] = first["prefetch"] + One(prefetch)]
  <2>1. first["prefetch"] = free["prefetch"]
    BY <1>1, <1>2, EngineTyped
  <2> QED
    BY <2>1 DEF GiveBack
<1> HIDE DEF first
<1>4. /\ free' \in [Pools -> Nat] /\ free'["prefetch"] = first["prefetch"] + One(prefetch)
      /\ \A p \in Pools \ {"prefetch"} : free'[p] = first[p]
  BY <1>1, <1>2, <1>3
<1>5. Engine(r) \in Pools /\ Engine(r) # "prefetch"
  BY EngineTyped
<1>6. free'[Engine(r)] = free[Engine(r)] + One(engine)
  BY <1>2, <1>4, <1>5
<1>7. free'["prefetch"] = free["prefetch"] + One(prefetch)
  BY <1>1, <1>2, <1>4, <1>5
<1>8. \A p \in Pools \ {Engine(r), "prefetch"} : free'[p] = free[p]
  BY <1>2, <1>4
<1> QED
  BY <1>4, <1>6, <1>7, <1>8

\* A job moves on, with what it holds of the pools, and stays a job for its text.
LEMMA JobMoves ==
    ASSUME IInv, NEW j \in Jobs, NEW r \in Job, JobInv(r), SetJob(j, r),
           r.key = job[j].key, r.refs = job[j].refs, r.closed = job[j].closed, job[j].stop => r.stop,
           free' \in [Pools -> Nat],
           \A pool \in Pools : free'[pool] + One(HoldsSlot(r, pool)) =
                               free[pool] + One(HoldsSlot(job[j], pool))
    PROVE  IInv'
<1>1. /\ job' = [job EXCEPT ![j] = r] /\ current' = current /\ consumer' = consumer
      /\ job' \in [Jobs -> Job] /\ job'[j] = r /\ \A i \in Jobs \ {j} : job'[i] = job[i]
  BY DEF SetJob, IInv, Typed
<1>2. Typed'
  BY <1>1 DEF IInv, Typed
<1>3. RefsInv'
  BY <1>1 DEF IInv, RefsInv, Holders
<1>4. IndexInv'
  BY <1>1 DEF IInv, IndexInv
<1>5. SlotsReturned'
  BY <1>1, SlotsMoved DEF IInv
<1>6. \A i \in Jobs : JobInv(job'[i])
  BY <1>1 DEF IInv
<1> QED
  BY <1>2, <1>3, <1>4, <1>5, <1>6 DEF IInv

\* A job closes when it may: only its own entry leaves the index.
LEMMA JobCloses ==
    ASSUME IInv, NEW j \in Jobs, NEW r \in Job, JobInv(r), CloseWhenIdle(j, r),
           r.key = job[j].key, r.producer = job[j].producer, r.closed = job[j].closed,
           r.slot = job[j].slot, r.prefetch = job[j].prefetch, job[j].stop => r.stop
    PROVE  /\ current' \in [Keys -> Jobs \cup {NoJob}] /\ job' \in [Jobs -> Job] /\ free' = free
           /\ job'[j].refs = r.refs /\ \A i \in Jobs \ {j} : job'[i] = job[i]
           /\ IndexInv' /\ SlotsReturned' /\ \A i \in Jobs : JobInv(job'[i])
<1>0. PICK w : w = WhenIdle(r)
  OBVIOUS
<1>1. /\ w \in Job /\ JobInv(w) /\ w.refs = r.refs /\ w.key = r.key
      /\ Running(w) <=> Running(r)
      /\ Running(r) => w.slot = r.slot /\ w.prefetch = r.prefetch /\ w.producer = r.producer
      /\ ~w.closed => ~r.closed /\ w.stop = r.stop
  BY <1>0, WhenIdleJob
<1>2. /\ job' = [job EXCEPT ![j] = w] /\ free' = free
      /\ current' = IF w.closed /\ current[r.key] = j THEN [current EXCEPT ![r.key] = NoJob] ELSE current
  BY <1>0 DEF CloseWhenIdle, Pops
<1>3. job' \in [Jobs -> Job] /\ job'[j] = w /\ \A i \in Jobs \ {j} : job'[i] = job[i]
  BY <1>1, <1>2 DEF IInv, Typed
<1>4. /\ current' \in [Keys -> Jobs \cup {NoJob}]
      /\ \A k \in Keys : current'[k] = current[k] \/ (w.closed /\ k = r.key /\ current[k] = j)
  BY <1>2 DEF IInv, Typed
<1>5. IndexInv'
  <2>1. ASSUME NEW i \in Jobs, ~job'[i].stop, ~job'[i].closed
        PROVE  current'[job'[i].key] = i
    <3>1. ~job[i].stop /\ ~job[i].closed /\ job'[i].key = job[i].key /\ job[i].key \in Keys
      BY <1>1, <1>3, <2>1 DEF IInv, Typed, Job
    <3>2. current[job[i].key] = i
      BY <3>1 DEF IInv, IndexInv
    <3>3. i = j => ~w.closed
      BY <1>3, <2>1
    <3> QED
      BY <1>4, <3>1, <3>2, <3>3
  <2>2. ASSUME NEW k \in Keys, current'[k] # NoJob
        PROVE  job'[current'[k]].key = k /\ ~job'[current'[k]].closed
    <3>1. current'[k] = current[k] /\ current[k] \in Jobs
      BY <1>2, <2>2 DEF IInv, Typed
    <3>2. job[current[k]].key = k /\ ~job[current[k]].closed
      BY <2>2, <3>1 DEF IInv, IndexInv
    <3>3. current[k] = j => ~w.closed
      BY <1>2, <2>2, <3>1, <3>2 DEF IInv, Typed
    <3> QED
      BY <1>1, <1>3, <3>1, <3>2, <3>3
  <2> QED
    BY <2>1, <2>2 DEF IndexInv
<1>6. SlotsReturned'
  <2>1. \A pool \in Pools : HoldsSlot(w, pool) = HoldsSlot(job[j], pool)
    BY <1>1 DEF HoldsSlot, Running, Engine
  <2>2. \A pool \in Pools : free'[pool] + One(HoldsSlot(job'[j], pool)) =
                            free[pool] + One(HoldsSlot(job[j], pool))
    BY <1>2, <1>3, <2>1
  <2>3. free' \in [Pools -> Nat] /\ Typed /\ SlotsReturned
    BY <1>2 DEF IInv, Typed
  <2> QED
    BY <1>3, <2>2, <2>3, SlotsMoved
<1>7. \A i \in Jobs : JobInv(job'[i])
  BY <1>1, <1>3 DEF IInv
<1> QED
  BY <1>1, <1>2, <1>3, <1>4, <1>5, <1>6, <1>7

-----------------------------------------------------------------------------
\* The producer's actions.
LEMMA JobOf ==
    ASSUME IInv, NEW j \in Jobs
    PROVE  job[j] \in Job /\ JobInv(job[j])
BY DEF IInv, Typed

LEMMA StartsKeeps ==
    ASSUME IInv, NEW j \in Jobs, Starts(j)
    PROVE  IInv'
<1>1. PICK r : /\ SetJob(j, r) /\ free' = free
               /\ \E next \in {"broken", "queued", "prefetching"} : r = [job[j] EXCEPT !.producer = next]
  BY DEF Starts
<1>2. PICK next \in {"broken", "queued", "prefetching"} : r = [job[j] EXCEPT !.producer = next]
  BY <1>1
<1>3. job[j] \in Job /\ JobInv(job[j]) /\ job[j].producer = "starting"
  BY JobOf DEF Starts
<1>4. /\ r \in Job /\ r.producer = next /\ r.key = job[j].key /\ r.refs = job[j].refs
      /\ r.closed = job[j].closed /\ r.stop = job[j].stop /\ r.cancelling = job[j].cancelling
      /\ r.slot = job[j].slot /\ r.prefetch = job[j].prefetch /\ r.copy = job[j].copy
  BY <1>2, <1>3 DEF Job, Producer, Alive
<1>5. ~job[j].slot /\ job[j].prefetch = "none" /\ ~job[j].closed
  BY <1>3 DEF JobInv, Running, Alive
<1>6. JobInv(r)
  BY <1>2, <1>3, <1>4, <1>5 DEF JobInv, Running, Alive
<1>7. \A pool \in Pools : ~HoldsSlot(r, pool) /\ ~HoldsSlot(job[j], pool)
  BY <1>4, <1>5 DEF HoldsSlot
<1>8. free' \in [Pools -> Nat] /\ \A pool \in Pools : free'[pool] + One(HoldsSlot(r, pool)) =
                                                  free[pool] + One(HoldsSlot(job[j], pool))
  BY <1>1, <1>7 DEF One, IInv, Typed
<1> QED
  BY <1>1, <1>4, <1>6, <1>8, JobMoves

LEMMA PrefetchKeptKeeps ==
    ASSUME IInv, NEW j \in Jobs, PrefetchKept(j)
    PROVE  IInv'
<1>1. PICK r : /\ SetJob(j, r) /\ free' = free
               /\ r = [job[j] EXCEPT !.producer = "queued", !.prefetch = "held"]
  BY DEF PrefetchKept
<1>2. /\ job[j] \in Job /\ JobInv(job[j])
      /\ job[j].producer = "prefetching" /\ job[j].prefetch = "granted"
  BY JobOf DEF PrefetchKept
<1>3. /\ r \in Job /\ r.producer = "queued" /\ r.key = job[j].key /\ r.refs = job[j].refs
      /\ r.closed = job[j].closed /\ r.stop = job[j].stop /\ r.cancelling = job[j].cancelling
      /\ r.slot = job[j].slot /\ r.prefetch = "held" /\ r.copy = job[j].copy
  BY <1>1, <1>2 DEF Job, Producer, Alive
<1>4. JobInv(r)
  BY <1>2, <1>3 DEF JobInv, Running, Alive
<1>5. \A pool \in Pools : HoldsSlot(r, pool) = HoldsSlot(job[j], pool)
  BY <1>2, <1>3 DEF HoldsSlot, Running, Alive, Engine
<1>6. free' \in [Pools -> Nat] /\ \A pool \in Pools : free'[pool] + One(HoldsSlot(r, pool)) =
                                                  free[pool] + One(HoldsSlot(job[j], pool))
  BY <1>1, <1>5 DEF IInv, Typed
<1> QED
  BY <1>1, <1>3, <1>4, <1>6, JobMoves

LEMMA StartsDrainKeeps ==
    ASSUME IInv, NEW j \in Jobs, StartsDrain(j)
    PROVE  IInv'
<1>1. PICK r : /\ SetJob(j, r) /\ free' = free
               /\ r = [job[j] EXCEPT !.producer = "draining", !.stop = TRUE]
  BY DEF StartsDrain
<1>2. job[j] \in Job /\ JobInv(job[j]) /\ job[j].producer = "synthesizing"
  BY JobOf DEF StartsDrain
<1>3. /\ r \in Job /\ r.producer = "draining" /\ r.key = job[j].key /\ r.refs = job[j].refs
      /\ r.closed = job[j].closed /\ r.stop /\ r.cancelling = job[j].cancelling
      /\ r.slot = job[j].slot /\ r.prefetch = job[j].prefetch /\ r.copy = job[j].copy
  BY <1>1, <1>2 DEF Job, Producer, Alive
<1>4. JobInv(r)
  BY <1>2, <1>3 DEF JobInv, Running, Alive
<1>5. \A pool \in Pools : HoldsSlot(r, pool) = HoldsSlot(job[j], pool)
  BY <1>2, <1>3 DEF HoldsSlot, Running, Alive, Engine
<1>6. free' \in [Pools -> Nat] /\ \A pool \in Pools : free'[pool] + One(HoldsSlot(r, pool)) =
                                                  free[pool] + One(HoldsSlot(job[j], pool))
  BY <1>1, <1>5 DEF IInv, Typed
<1> QED
  BY <1>1, <1>3, <1>4, <1>6, JobMoves

LEMMA CopyEndsKeeps ==
    ASSUME IInv, NEW j \in Jobs, CopyEnds(j)
    PROVE  IInv'
<1>1. PICK r : SetJob(j, r) /\ free' = free /\ r = [job[j] EXCEPT !.copy = "done"]
  BY DEF CopyEnds
<1>2. job[j] \in Job /\ JobInv(job[j])
  BY JobOf
<1>3. /\ r \in Job /\ r.producer = job[j].producer /\ r.key = job[j].key /\ r.refs = job[j].refs
      /\ r.closed = job[j].closed /\ r.stop = job[j].stop /\ r.cancelling = job[j].cancelling
      /\ r.slot = job[j].slot /\ r.prefetch = job[j].prefetch /\ r.copy = "done"
  BY <1>1, <1>2 DEF Job
<1>4. JobInv(r)
  BY <1>2, <1>3 DEF JobInv, Running
<1>5. \A pool \in Pools : HoldsSlot(r, pool) = HoldsSlot(job[j], pool)
  BY <1>3 DEF HoldsSlot, Running, Engine
<1>6. free' \in [Pools -> Nat] /\ \A pool \in Pools : free'[pool] + One(HoldsSlot(r, pool)) =
                                                  free[pool] + One(HoldsSlot(job[j], pool))
  BY <1>1, <1>5 DEF IInv, Typed
<1> QED
  BY <1>1, <1>3, <1>4, <1>6, JobMoves

\* A slot comes, of prefetches or of the engine.
LEMMA PrefetchGrantKeeps ==
    ASSUME IInv, NEW j \in Jobs, PrefetchGrant(j)
    PROVE  IInv'
<1>1. PICK r : SetJob(j, r) /\ r = [job[j] EXCEPT !.prefetch = "granted"]
  BY DEF PrefetchGrant
<1>2. /\ job[j] \in Job /\ JobInv(job[j])
      /\ job[j].producer = "prefetching" /\ job[j].prefetch = "none"
  BY JobOf DEF PrefetchGrant
<1>3. /\ r \in Job /\ r.producer = job[j].producer /\ r.key = job[j].key /\ r.refs = job[j].refs
      /\ r.closed = job[j].closed /\ r.stop = job[j].stop /\ r.cancelling = job[j].cancelling
      /\ r.slot = job[j].slot /\ r.prefetch = "granted" /\ r.copy = job[j].copy
  BY <1>1, <1>2 DEF Job
<1>4. JobInv(r)
  BY <1>2, <1>3 DEF JobInv, Running, Alive
<1>5. /\ HoldsSlot(r, "prefetch") /\ ~HoldsSlot(job[j], "prefetch")
      /\ \A pool \in Pools \ {"prefetch"} : HoldsSlot(r, pool) = HoldsSlot(job[j], pool)
  BY <1>2, <1>3 DEF HoldsSlot, Running, Alive, Engine
<1>6. /\ free' \in [Pools -> Nat] /\ free'["prefetch"] + 1 = free["prefetch"]
      /\ \A p \in Pools \ {"prefetch"} : free'[p] = free[p]
  BY Taken DEF PrefetchGrant, IInv, Pools
<1>7. \A pool \in Pools : free'[pool] + One(HoldsSlot(r, pool)) =
                          free[pool] + One(HoldsSlot(job[j], pool))
  BY <1>5, <1>6 DEF One, IInv, Typed
<1> QED
  BY <1>1, <1>3, <1>4, <1>6, <1>7, JobMoves

LEMMA SlotGrantKeeps ==
    ASSUME IInv, NEW j \in Jobs, SlotGrant(j)
    PROVE  IInv'
<1>1. PICK r : SetJob(j, r) /\ r = [job[j] EXCEPT !.producer = "granted", !.slot = TRUE]
  BY DEF SlotGrant
<1>2. job[j] \in Job /\ JobInv(job[j]) /\ job[j].producer = "queued" /\ ~job[j].slot
  BY JobOf DEF SlotGrant, JobInv
<1>3. /\ r \in Job /\ r.producer = "granted" /\ r.key = job[j].key /\ r.refs = job[j].refs
      /\ r.closed = job[j].closed /\ r.stop = job[j].stop /\ r.cancelling = job[j].cancelling
      /\ r.slot /\ r.prefetch = job[j].prefetch /\ r.copy = job[j].copy
  BY <1>1, <1>2 DEF Job, Producer, Alive
<1>4. JobInv(r)
  BY <1>2, <1>3 DEF JobInv, Running, Alive
<1>5. /\ HoldsSlot(r, Engine(job[j])) /\ ~HoldsSlot(job[j], Engine(job[j]))
      /\ \A pool \in Pools \ {Engine(job[j])} : HoldsSlot(r, pool) = HoldsSlot(job[j], pool)
  BY <1>2, <1>3 DEF HoldsSlot, Running, Alive, Engine
<1>6. /\ free' \in [Pools -> Nat] /\ free'[Engine(job[j])] + 1 = free[Engine(job[j])]
      /\ \A p \in Pools \ {Engine(job[j])} : free'[p] = free[p]
  <2>1. Take(Engine(job[j])) /\ Engine(job[j]) \in Pools /\ Typed
    BY EngineTyped DEF SlotGrant, IInv
  <2> QED
    BY <2>1, Taken
<1>7. \A pool \in Pools : free'[pool] + One(HoldsSlot(r, pool)) =
                          free[pool] + One(HoldsSlot(job[j], pool))
  BY <1>5, <1>6 DEF One, IInv, Typed
<1> QED
  BY <1>1, <1>3, <1>4, <1>6, <1>7, JobMoves

\* Slots are given back: a producer that goes on or that ends.
LEMMA GivesSlots ==
    ASSUME IInv, NEW j \in Jobs, NEW r \in Job, JobInv(r), SetJob(j, r),
           r.key = job[j].key, r.refs = job[j].refs, r.closed = job[j].closed, job[j].stop => r.stop,
           Running(job[j]), NEW engine \in BOOLEAN, NEW prefetch \in BOOLEAN,
           GiveBack(job[j], engine, prefetch),
           engine <=> job[j].slot /\ ~(Running(r) /\ r.slot),
           prefetch <=> job[j].prefetch # "none" /\ ~(Running(r) /\ r.prefetch # "none"),
           Running(r) => r.slot = job[j].slot /\ (r.prefetch # "none" => job[j].prefetch # "none")
    PROVE  IInv'
<1>1. /\ free' \in [Pools -> Nat]
      /\ free'[Engine(job[j])] = free[Engine(job[j])] + One(engine)
      /\ free'["prefetch"] = free["prefetch"] + One(prefetch)
      /\ \A p \in Pools \ {Engine(job[j]), "prefetch"} : free'[p] = free[p]
  BY GivenBack DEF IInv
<1>2. job[j] \in Job /\ Engine(r) = Engine(job[j]) /\ free \in [Pools -> Nat] /\ "prefetch" \in Pools
  BY JobOf DEF Engine, IInv, Typed, Pools
<1>3. Engine(job[j]) \in Pools /\ Engine(job[j]) # "prefetch"
  BY EngineTyped
<1>4. free'["prefetch"] + One(HoldsSlot(r, "prefetch")) = free["prefetch"] + One(HoldsSlot(job[j], "prefetch"))
  BY <1>1, <1>2 DEF One, HoldsSlot
<1>5. free'[Engine(job[j])] + One(HoldsSlot(r, Engine(job[j]))) =
      free[Engine(job[j])] + One(HoldsSlot(job[j], Engine(job[j])))
  BY <1>1, <1>2, <1>3 DEF One, HoldsSlot, Job
<1>6. \A p \in Pools \ {Engine(job[j]), "prefetch"} :
          free'[p] + One(HoldsSlot(r, p)) = free[p] + One(HoldsSlot(job[j], p))
  BY <1>1, <1>2 DEF One, HoldsSlot
<1>7. \A p \in Pools : free'[p] + One(HoldsSlot(r, p)) = free[p] + One(HoldsSlot(job[j], p))
  BY <1>4, <1>5, <1>6
<1> QED
  BY <1>1, <1>7, JobMoves

LEMMA PrefetchPromotedKeeps ==
    ASSUME IInv, NEW j \in Jobs, PrefetchPromoted(j)
    PROVE  IInv'
<1>1. PICK r : SetJob(j, r) /\ r = [job[j] EXCEPT !.producer = "queued", !.prefetch = "none"]
  BY DEF PrefetchPromoted
<1>2. /\ job[j] \in Job /\ JobInv(job[j]) /\ job[j].producer = "prefetching"
      /\ ~job[j].slot /\ job[j].prefetch # "held"
  BY JobOf DEF PrefetchPromoted, JobInv
<1>3. /\ r \in Job /\ r.producer = "queued" /\ r.key = job[j].key /\ r.refs = job[j].refs
      /\ r.closed = job[j].closed /\ r.stop = job[j].stop /\ r.cancelling = job[j].cancelling
      /\ r.slot = job[j].slot /\ r.prefetch = "none" /\ r.copy = job[j].copy
  BY <1>1, <1>2 DEF Job, Producer, Alive
<1>4. JobInv(r)
  BY <1>2, <1>3 DEF JobInv, Running, Alive
<1>5. GiveBack(job[j], FALSE, GrantReturned(job[j])) /\ (GrantReturned(job[j]) <=> job[j].prefetch # "none")
  BY <1>2 DEF PrefetchPromoted, GrantReturned, Job
<1>6. Running(job[j]) /\ Running(r) /\ GrantReturned(job[j]) \in BOOLEAN
  BY <1>2, <1>3 DEF Running, Alive, GrantReturned
<1> QED
  BY <1>1, <1>2, <1>3, <1>4, <1>5, <1>6, GivesSlots

LEMMA SynthesizeKeeps ==
    ASSUME IInv, NEW j \in Jobs, Synthesize(j)
    PROVE  IInv'
<1>1. PICK promoted \in BOOLEAN :
          /\ promoted <=> job[j].prefetch = "held" /\ job[j].foreground
          /\ SetJob(j, [job[j] EXCEPT !.producer = "synthesizing",
                                      !.prefetch = IF promoted THEN "none" ELSE @])
          /\ GiveBack(job[j], FALSE, promoted)
  <2> DEFINE promoted == job[j].prefetch = "held" /\ job[j].foreground
  <2>1. promoted \in BOOLEAN
    OBVIOUS
  <2> QED
    BY <2>1 DEF Synthesize
<1>2. PICK r : r = [job[j] EXCEPT !.producer = "synthesizing",
                                  !.prefetch = IF promoted THEN "none" ELSE @]
  OBVIOUS
<1>3. /\ job[j] \in Job /\ JobInv(job[j]) /\ job[j].producer = "granted"
      /\ job[j].slot /\ job[j].prefetch # "granted"
  BY JobOf DEF Synthesize, JobInv, Alive
<1>4. /\ r \in Job /\ r.producer = "synthesizing" /\ r.key = job[j].key /\ r.refs = job[j].refs
      /\ r.closed = job[j].closed /\ r.stop = job[j].stop /\ r.cancelling = job[j].cancelling
      /\ r.slot = job[j].slot /\ r.prefetch = (IF promoted THEN "none" ELSE job[j].prefetch)
      /\ r.copy = job[j].copy
  BY <1>2, <1>3 DEF Job, Producer, Alive
<1>5. JobInv(r)
  BY <1>3, <1>4 DEF JobInv, Running, Alive
<1>6. Running(job[j]) /\ Running(r) /\ SetJob(j, r)
  BY <1>1, <1>2, <1>3, <1>4 DEF Running, Alive
<1>7. promoted <=> job[j].prefetch # "none" /\ ~(Running(r) /\ r.prefetch # "none")
  BY <1>1, <1>3, <1>4, <1>6 DEF Job
<1> QED
  BY <1>1, <1>3, <1>4, <1>5, <1>6, <1>7, GivesSlots

LEMMA EndsKeeps ==
    ASSUME IInv, NEW j \in Jobs, Running(job[j]), NEW how \in {"finished", "broken"}, NEW stopped \in BOOLEAN,
           Ends(j, how, stopped)
    PROVE  IInv'
<1>1. job[j] \in Job /\ JobInv(job[j])
  BY JobOf
<1>2. PICK r : SetJob(j, r) /\ r = [job[j] EXCEPT !.producer = how, !.stop = @ \/ stopped,
                                     !.slot = FALSE, !.prefetch = "none",
                                     !.copy = IF how = "finished" /\ job[j].store THEN "running" ELSE @]
  BY DEF Ends
<1>3. /\ r \in Job /\ r.producer = how /\ r.key = job[j].key /\ r.refs = job[j].refs
      /\ r.closed = job[j].closed /\ (job[j].stop => r.stop) /\ r.cancelling = job[j].cancelling
      /\ ~r.slot /\ r.prefetch = "none"
  BY <1>1, <1>2 DEF Job, Producer, Alive
<1>4. ~job[j].closed
  BY <1>1 DEF JobInv
<1>5. JobInv(r) /\ ~Running(r)
  BY <1>1, <1>3, <1>4 DEF JobInv, Running, Alive
<1> DEFINE prefetch == job[j].prefetch = "held" \/ GrantReturned(job[j])
<1>6. prefetch \in BOOLEAN /\ (prefetch <=> job[j].prefetch # "none") /\ job[j].slot \in BOOLEAN
  BY <1>1 DEF GrantReturned, Job
<1>7. GiveBack(job[j], job[j].slot, prefetch)
  BY DEF Ends
<1> HIDE DEF prefetch
<1> QED
  BY <1>2, <1>3, <1>5, <1>6, <1>7, GivesSlots

LEMMA ProducerKeeps ==
    ASSUME IInv, NEW j \in Jobs, ProducerSteps(j)
    PROVE  IInv'
<1>1. CASE Starts(j)
  BY <1>1, StartsKeeps
<1>2. CASE PrefetchKept(j)
  BY <1>2, PrefetchKeptKeeps
<1>3. CASE PrefetchPromoted(j)
  BY <1>3, PrefetchPromotedKeeps
<1>4. CASE Synthesize(j)
  BY <1>4, SynthesizeKeeps
<1>5. CASE Finishes(j)
  BY <1>5, EndsKeeps DEF Finishes, Running, Alive
<1>6. CASE Fails(j)
  BY <1>6, EndsKeeps DEF Fails, Running, Alive
<1>7. CASE StartsDrain(j)
  BY <1>7, StartsDrainKeeps
<1>8. CASE DrainEnds(j)
  BY <1>8, EndsKeeps DEF DrainEnds, Running, Alive
<1>9. CASE Cancelled(j)
  BY <1>9, EndsKeeps DEF Cancelled, Running
<1> QED
  BY <1>1, <1>2, <1>3, <1>4, <1>5, <1>6, <1>7, <1>8, <1>9 DEF ProducerSteps

-----------------------------------------------------------------------------
\* The consumers' actions.
LEMMA Leaving ==
    ASSUME IInv, NEW c \in Consumers, NEW j \in Jobs, consumer[c].at \in Holding, consumer[c].job = j,
           Release(j), NEW place \in [at: At \ Holding, job: Jobs \cup {NoJob}],
           place.at # "idle" => place.job \in Jobs, consumer' = [consumer EXCEPT ![c] = place]
    PROVE  IInv'
<1>1. job[j] \in Job /\ JobInv(job[j]) /\ job[j].refs > 0
  BY JobOf, Held DEF IInv
<1>2. PICK r : r = Released(job[j])
  OBVIOUS
<1>3. /\ r \in Job /\ JobInv(r) /\ r.refs = job[j].refs - 1
      /\ r.key = job[j].key /\ r.producer = job[j].producer /\ r.closed = job[j].closed
      /\ r.slot = job[j].slot /\ r.prefetch = job[j].prefetch /\ (job[j].stop => r.stop)
  BY <1>1, <1>2, ReleasedJob
<1>4. CloseWhenIdle(j, r)
  BY <1>2 DEF Release
<1>5. /\ current' \in [Keys -> Jobs \cup {NoJob}] /\ job' \in [Jobs -> Job] /\ free' = free
      /\ job'[j].refs = r.refs /\ \A i \in Jobs \ {j} : job'[i] = job[i]
      /\ IndexInv' /\ SlotsReturned' /\ \A i \in Jobs : JobInv(job'[i])
  BY <1>3, <1>4, JobCloses
<1>6. /\ consumer' \in [Consumers -> [at: At, job: Jobs \cup {NoJob}]]
      /\ consumer'[c] = place /\ \A d \in Consumers \ {c} : consumer'[d] = consumer[d]
  BY DEF IInv, Typed
<1>7. Typed'
  BY <1>5, <1>6 DEF IInv, Typed
<1>8. RefsInv'
  <2>1. Typed /\ RefsInv
    BY DEF IInv
  <2>2. job'[j].refs = job[j].refs - 1 /\ \A i \in Jobs \ {j} : job'[i].refs = job[i].refs
    BY <1>3, <1>5
  <2>3. consumer'[c].at \notin Holding
    BY <1>6
  <2> QED
    BY <1>6, <2>1, <2>2, <2>3, RefsLeft
<1> QED
  BY <1>5, <1>7, <1>8 DEF IInv

LEMMA PlaceOf ==
    ASSUME IInv, NEW c \in Consumers, consumer[c].at # "idle"
    PROVE  consumer[c].job \in Jobs /\ consumer[c] \in [at: At, job: Jobs \cup {NoJob}]
BY DEF IInv, Typed

LEMMA IdleTyped == Idle \in [at: At \ Holding, job: Jobs \cup {NoJob}] /\ Idle.at = "idle"
BY DEF Idle, At, Holding

LEMMA LeavesIdle ==
    ASSUME IInv, NEW c \in Consumers, consumer[c].at \in Holding,
           Release(consumer[c].job), consumer' = [consumer EXCEPT ![c] = Idle]
    PROVE  IInv'
<1>1. consumer[c].job \in Jobs
  BY PlaceOf DEF Holding
<1> QED
  BY <1>1, IdleTyped, Leaving

LEMMA LeavesKeeps ==
    ASSUME IInv, NEW c \in Consumers, Leaves(c)
    PROVE  IInv'
<1>1. /\ consumer[c].at = "reading" /\ Release(consumer[c].job)
      /\ \/ consumer' = [consumer EXCEPT ![c] = Idle]
         \/ consumer' = [consumer EXCEPT ![c] = [@ EXCEPT !.at = "finalizing"]]
  BY DEF Leaves
<1>2. consumer[c].job \in Jobs /\ consumer[c] \in [at: At, job: Jobs \cup {NoJob}]
  BY <1>1, PlaceOf
<1>3. PICK place : place = [consumer[c] EXCEPT !.at = "finalizing"]
  OBVIOUS
<1>4. place \in [at: At \ Holding, job: Jobs \cup {NoJob}] /\ place.job \in Jobs
  BY <1>2, <1>3 DEF At, Holding
<1>5. CASE consumer' = [consumer EXCEPT ![c] = Idle]
  BY <1>1, <1>5, LeavesIdle DEF Holding
<1>6. CASE consumer' = [consumer EXCEPT ![c] = [@ EXCEPT !.at = "finalizing"]]
  <2>1. consumer' = [consumer EXCEPT ![c] = place]
    BY <1>3, <1>6
  <2>2. consumer[c].at \in Holding
    BY <1>1 DEF Holding
  <2> QED
    BY <1>1, <1>2, <1>4, <2>1, <2>2, Leaving
<1> QED
  BY <1>1, <1>5, <1>6

\* A step of the cleanup, by whoever holds no reference.
LEMMA CleansUp ==
    ASSUME IInv, NEW j \in Jobs, NEW r \in Job, JobInv(r), CloseWhenIdle(j, r),
           r.key = job[j].key, r.producer = job[j].producer, r.closed = job[j].closed, r.refs = job[j].refs,
           r.slot = job[j].slot, r.prefetch = job[j].prefetch, job[j].stop => r.stop,
           \/ consumer' = consumer
           \/ \E c \in Consumers : consumer[c].at = "finalizing" /\ consumer' = [consumer EXCEPT ![c] = Idle]
    PROVE  IInv'
<1>1. /\ current' \in [Keys -> Jobs \cup {NoJob}] /\ job' \in [Jobs -> Job] /\ free' = free
      /\ job'[j].refs = r.refs /\ \A i \in Jobs \ {j} : job'[i] = job[i]
      /\ IndexInv' /\ SlotsReturned' /\ \A i \in Jobs : JobInv(job'[i])
  BY JobCloses
<1>2. /\ consumer' \in [Consumers -> [at: At, job: Jobs \cup {NoJob}]]
      /\ \A c \in Consumers : consumer'[c].at # "idle" => consumer'[c].job \in Jobs
      /\ \A c \in Consumers : \/ consumer'[c] = consumer[c]
                              \/ consumer[c].at \notin Holding /\ consumer'[c].at \notin Holding
  BY IdleTyped DEF IInv, Typed, Holding
<1>3. Typed'
  BY <1>1, <1>2 DEF IInv, Typed
<1>4. RefsInv'
  <2>1. \A i \in Jobs : Holders(i)' = Holders(i)
    BY <1>2 DEF Holders
  <2> QED
    BY <1>1, <2>1 DEF IInv, RefsInv
<1> QED
  BY <1>1, <1>3, <1>4 DEF IInv

LEMMA FinalizesKeeps ==
    ASSUME IInv, NEW c \in Consumers, Finalizes(c)
    PROVE  IInv'
<1>1. PICK j \in Jobs : /\ CloseWhenIdle(j, job[j]) /\ consumer[c].at = "finalizing"
                        /\ consumer' = [consumer EXCEPT ![c] = Idle]
  BY PlaceOf DEF Finalizes
<1>2. job[j] \in Job /\ JobInv(job[j])
  BY JobOf
<1> QED
  BY <1>1, <1>2, CleansUp

LEMMA RetryKeeps ==
    ASSUME IInv, NEW j \in Jobs, Retry(j)
    PROVE  IInv'
<1>1. PICK r : r = NotScheduled(job[j])
  OBVIOUS
<1>2. CloseWhenIdle(j, r) /\ consumer' = consumer
  BY <1>1 DEF Retry
<1>3. job[j] \in Job /\ JobInv(job[j])
  BY JobOf
<1>4. /\ r \in Job /\ r.key = job[j].key /\ r.producer = job[j].producer /\ r.closed = job[j].closed
      /\ r.refs = job[j].refs /\ r.slot = job[j].slot /\ r.prefetch = job[j].prefetch
      /\ r.stop = job[j].stop /\ r.cancelling = job[j].cancelling /\ r.copy = job[j].copy
  BY <1>1, <1>3 DEF NotScheduled, Job
<1>5. JobInv(r)
  BY <1>3, <1>4 DEF JobInv, Running
<1> QED
  BY <1>2, <1>4, <1>5, CleansUp

LEMMA ReadsKeeps ==
    ASSUME IInv, NEW c \in Consumers, Reads(c)
    PROVE  IInv'
<1>1. /\ consumer[c].at = "waiting" /\ consumer' = [consumer EXCEPT ![c] = [@ EXCEPT !.at = "reading"]]
      /\ current' = current /\ job' = job /\ free' = free
  BY DEF Reads
<1>2. consumer[c].job \in Jobs /\ consumer[c] \in [at: At, job: Jobs \cup {NoJob}]
  BY <1>1, PlaceOf
<1>3. /\ consumer' \in [Consumers -> [at: At, job: Jobs \cup {NoJob}]]
      /\ consumer'[c].at = "reading" /\ consumer'[c].job = consumer[c].job
      /\ \A d \in Consumers \ {c} : consumer'[d] = consumer[d]
  BY <1>1, <1>2 DEF IInv, Typed, At
<1>4. Typed'
  BY <1>1, <1>2, <1>3 DEF IInv, Typed
<1>5. RefsInv'
  BY <1>1, <1>3, RefsStay DEF IInv, Holding
<1> QED
  BY <1>1, <1>4, <1>5 DEF IInv, IndexInv, SlotsReturned

LEMMA PromoteKeeps ==
    ASSUME IInv, NEW c \in Consumers, Promote(c)
    PROVE  IInv'
<1>1. PICK j \in Jobs : /\ job' = [job EXCEPT ![j].foreground = TRUE]
                        /\ UNCHANGED <<current, consumer, free>>
  BY PlaceOf DEF Promote, Holding
<1>2. PICK r : r = [job[j] EXCEPT !.foreground = TRUE]
  OBVIOUS
<1>3. SetJob(j, r)
  BY <1>1, <1>2 DEF SetJob
<1>4. job[j] \in Job /\ JobInv(job[j])
  BY JobOf
<1>5. /\ r \in Job /\ r.producer = job[j].producer /\ r.key = job[j].key /\ r.refs = job[j].refs
      /\ r.closed = job[j].closed /\ r.stop = job[j].stop /\ r.cancelling = job[j].cancelling
      /\ r.slot = job[j].slot /\ r.prefetch = job[j].prefetch /\ r.copy = job[j].copy
  BY <1>2, <1>4 DEF Job
<1>6. JobInv(r)
  BY <1>4, <1>5 DEF JobInv, Running
<1>7. \A pool \in Pools : HoldsSlot(r, pool) = HoldsSlot(job[j], pool)
  BY <1>5 DEF HoldsSlot, Running, Engine
<1>8. free' \in [Pools -> Nat] /\ \A pool \in Pools : free'[pool] + One(HoldsSlot(r, pool)) =
                                                  free[pool] + One(HoldsSlot(job[j], pool))
  BY <1>1, <1>7 DEF IInv, Typed
<1> QED
  BY <1>3, <1>5, <1>6, <1>8, JobMoves

LEMMA CopiesKeeps ==
    ASSUME IInv, NEW c \in Consumers, Copies(c)
    PROVE  IInv'
<1>1. PICK j \in Jobs :
          /\ consumer[c].at = "filing" /\ consumer[c].job = j
          /\ job' = [job EXCEPT ![j].copy = IF @ = "none" THEN "running" ELSE @]
          /\ consumer' = [consumer EXCEPT ![c] = [@ EXCEPT !.at = "copying"]]
          /\ current' = current /\ free' = free
  BY PlaceOf DEF Copies
<1>2. PICK r : r = [job[j] EXCEPT !.copy = IF @ = "none" THEN "running" ELSE @]
  OBVIOUS
<1>3. job[j] \in Job /\ JobInv(job[j]) /\ job[j].refs > 0
  BY <1>1, JobOf, Held DEF IInv, Holding
<1>4. /\ r \in Job /\ r.producer = job[j].producer /\ r.key = job[j].key /\ r.refs = job[j].refs
      /\ r.closed = job[j].closed /\ r.stop = job[j].stop /\ r.cancelling = job[j].cancelling
      /\ r.slot = job[j].slot /\ r.prefetch = job[j].prefetch
  BY <1>2, <1>3 DEF Job
<1>5. ~job[j].closed
  BY <1>3, ConsumersAssumption, FS_CardinalityType DEF JobInv, Job
<1>6. JobInv(r)
  BY <1>3, <1>4, <1>5 DEF JobInv, Running
<1>7. job' \in [Jobs -> Job] /\ job'[j] = r /\ \A i \in Jobs \ {j} : job'[i] = job[i]
  <2>1. job' = [job EXCEPT ![j] = r]
    BY <1>1, <1>2
  <2> QED
    BY <1>4, <2>1 DEF IInv, Typed
<1>8. /\ consumer[c] \in [at: At, job: Jobs \cup {NoJob}]
      /\ consumer' \in [Consumers -> [at: At, job: Jobs \cup {NoJob}]]
      /\ consumer'[c].at = "copying" /\ consumer'[c].job = j
      /\ \A d \in Consumers \ {c} : consumer'[d] = consumer[d]
  BY <1>1 DEF IInv, Typed, At
<1>9. Typed'
  BY <1>1, <1>7, <1>8 DEF IInv, Typed
<1>10. RefsInv'
  <2>1. \A i \in Jobs : job'[i].refs = job[i].refs
    BY <1>4, <1>7
  <2>2. Typed /\ RefsInv
    BY DEF IInv
  <2>3. consumer[c].at \in Holding /\ consumer'[c].at \in Holding
    BY <1>1, <1>8 DEF Holding
  <2> QED
    BY <1>1, <1>8, <2>1, <2>2, <2>3, RefsStay
<1>11. IndexInv'
  BY <1>1, <1>4, <1>7 DEF IInv, IndexInv
<1>12. SlotsReturned'
  <2>1. \A pool \in Pools : free'[pool] + One(HoldsSlot(job'[j], pool)) =
                            free[pool] + One(HoldsSlot(job[j], pool))
    BY <1>1, <1>4, <1>7 DEF HoldsSlot, Running, Engine
  <2>2. free' \in [Pools -> Nat] /\ Typed /\ SlotsReturned
    BY <1>1 DEF IInv, Typed
  <2> QED
    BY <1>7, <2>1, <2>2, SlotsMoved
<1>13. \A i \in Jobs : JobInv(job'[i])
  BY <1>6, <1>7 DEF IInv
<1> QED
  BY <1>9, <1>10, <1>11, <1>12, <1>13 DEF IInv

\* A consumer comes to a job r that it found or made at j.
LEMMA Joins ==
    ASSUME IInv, NEW c \in Consumers, NEW q \in Request, consumer[c] = Idle, NEW j \in Jobs,
           NEW r \in Job, JobInv(r), r.key = q.key, r.refs = job[j].refs, ~r.stop, ~r.closed,
           \A pool \in Pools : HoldsSlot(r, pool) = HoldsSlot(job[j], pool),
           \A i \in Jobs \ {j} : job[i].key = q.key => job[i].stop \/ job[i].closed,
           \A k \in Keys \ {q.key} : current[k] # j,
           job' = [job EXCEPT ![j] = [r EXCEPT !.refs = @ + 1, !.store = @ \/ q.store,
                                               !.foreground = @ \/ q.foreground]],
           current' = [current EXCEPT ![q.key] = j],
           consumer' = [consumer EXCEPT ![c] = [at |-> q.at, job |-> j]], free' = free
    PROVE  IInv'
<1>1. PICK t : t = [r EXCEPT !.refs = @ + 1, !.store = @ \/ q.store, !.foreground = @ \/ q.foreground]
  OBVIOUS
<1>2. Cardinality(Holders(j)) + 1 \in 0..Cardinality(Consumers) /\ r.refs = Cardinality(Holders(j))
  <2>1. Holders(j) \cup {c} \subseteq Consumers /\ c \notin Holders(j)
    BY DEF Holders, Idle, Holding
  <2>2. Cardinality(Holders(j) \cup {c}) = Cardinality(Holders(j)) + 1
    BY <2>1, HoldersOf, FS_AddElement
  <2>3. Cardinality(Holders(j) \cup {c}) <= Cardinality(Consumers)
    BY <2>1, ConsumersAssumption, FS_Subset
  <2>4. Cardinality(Consumers) \in Nat
    BY ConsumersAssumption, FS_CardinalityType
  <2> QED
    BY <2>2, <2>3, <2>4, HoldersOf DEF IInv, RefsInv
<1>3. /\ t \in Job /\ t.refs = r.refs + 1 /\ t.key = r.key /\ t.producer = r.producer
      /\ t.closed = r.closed /\ t.stop = r.stop /\ t.cancelling = r.cancelling
      /\ t.slot = r.slot /\ t.prefetch = r.prefetch /\ t.copy = r.copy
  BY <1>1, <1>2 DEF Job, Request
<1>4. JobInv(t)
  BY <1>3 DEF JobInv, Running, Job
<1>5. job' \in [Jobs -> Job] /\ job'[j] = t /\ \A i \in Jobs \ {j} : job'[i] = job[i]
  <2>1. job' = [job EXCEPT ![j] = t]
    BY <1>1
  <2> QED
    BY <1>3, <2>1 DEF IInv, Typed
<1>6. /\ consumer' \in [Consumers -> [at: At, job: Jobs \cup {NoJob}]]
      /\ consumer'[c].at \in Holding /\ consumer'[c].job = j
      /\ \A d \in Consumers \ {c} : consumer'[d] = consumer[d]
  <2>1. [at |-> q.at, job |-> j] \in [at: At, job: Jobs \cup {NoJob}] /\ q.at \in Holding
    BY DEF Request, At, Holding
  <2> QED
    BY <2>1 DEF IInv, Typed
<1>7. /\ q.key \in Keys /\ current' \in [Keys -> Jobs \cup {NoJob}] /\ current'[q.key] = j
      /\ \A k \in Keys \ {q.key} : current'[k] = current[k]
  BY DEF Request, IInv, Typed
<1>8. Typed'
  BY <1>5, <1>6, <1>7 DEF IInv, Typed
<1>9. RefsInv'
  <2>1. Typed /\ RefsInv /\ consumer[c].at \notin Holding
    BY DEF IInv, Idle, Holding
  <2>2. job'[j].refs = job[j].refs + 1 /\ \A i \in Jobs \ {j} : job'[i].refs = job[i].refs
    BY <1>3, <1>5
  <2> QED
    BY <1>6, <2>1, <2>2, RefsJoined
<1>10. IndexInv'
  <2>1. ASSUME NEW i \in Jobs \ {j}, ~job'[i].stop, ~job'[i].closed
        PROVE  current'[job'[i].key] = i
    <3>1. job'[i] = job[i] /\ job[i].key \in Keys /\ current[job[i].key] = i
      BY <1>5, <2>1 DEF IInv, IndexInv, Typed, Job
    <3> QED
      BY <1>7, <2>1, <3>1
  <2>2. current'[job'[j].key] = j
    BY <1>3, <1>5, <1>7
  <2>3. ASSUME NEW k \in Keys \ {q.key}, current'[k] # NoJob
        PROVE  job'[current'[k]].key = k /\ ~job'[current'[k]].closed
    <3>1. current'[k] = current[k] /\ current[k] \in Jobs \ {j}
      BY <1>7, <2>3 DEF IInv, Typed
    <3>2. job[current[k]].key = k /\ ~job[current[k]].closed
      BY <2>3, <3>1 DEF IInv, IndexInv
    <3> QED
      BY <1>5, <3>1, <3>2
  <2>4. job'[current'[q.key]].key = q.key /\ ~job'[current'[q.key]].closed
    BY <1>3, <1>5, <1>7
  <2> QED
    BY <2>1, <2>2, <2>3, <2>4 DEF IndexInv
<1>11. SlotsReturned'
  <2>1. \A pool \in Pools : HoldsSlot(t, pool) = HoldsSlot(r, pool)
    BY <1>3 DEF HoldsSlot, Running, Engine
  <2>2. \A pool \in Pools : free'[pool] + One(HoldsSlot(job'[j], pool)) =
                            free[pool] + One(HoldsSlot(job[j], pool))
    BY <1>5, <2>1
  <2>3. free' \in [Pools -> Nat] /\ Typed /\ SlotsReturned
    BY DEF IInv, Typed
  <2> QED
    BY <1>5, <2>2, <2>3, SlotsMoved
<1>12. \A i \in Jobs : JobInv(job'[i])
  BY <1>4, <1>5 DEF IInv
<1> QED
  BY <1>8, <1>9, <1>10, <1>11, <1>12 DEF IInv

LEMMA AcquireKeeps ==
    ASSUME IInv, NEW c \in Consumers, NEW q \in Requests, Acquire(c, q)
    PROVE  IInv'
<1>1. q \in Request /\ q.key \in Keys /\ consumer[c] = Idle /\ free' = free
  BY RequestsAssumption DEF Acquire, Request
<1>2. CASE Reusable(q.key)
  <2>1. PICK j : j = current[q.key]
    OBVIOUS
  <2>2. j \in Jobs /\ ~job[j].stop /\ ~job[j].closed /\ job[j].key = q.key
    BY <1>1, <1>2, <2>1 DEF Reusable, IInv, Typed, IndexInv
  <2>3. job[j] \in Job /\ JobInv(job[j])
    BY <2>2, JobOf
  <2>4. \A i \in Jobs \ {j} : job[i].key = q.key => job[i].stop \/ job[i].closed
    BY <2>1 DEF IInv, IndexInv
  <2>5. \A k \in Keys \ {q.key} : current[k] # j
    BY <2>2, NoJobAssumption DEF IInv, IndexInv
  <2>6. /\ job' = [job EXCEPT ![j] = [job[j] EXCEPT !.refs = @ + 1, !.store = @ \/ q.store,
                                                    !.foreground = @ \/ q.foreground]]
        /\ current' = [current EXCEPT ![q.key] = j]
        /\ consumer' = [consumer EXCEPT ![c] = [at |-> q.at, job |-> j]]
    BY <1>2, <2>1 DEF Acquire
  <2> QED
    BY <1>1, <2>2, <2>3, <2>4, <2>5, <2>6, Joins
<1>3. CASE ~Reusable(q.key)
  <2>1. PICK j \in Jobs : Garbage(j) /\ j = CHOOSE i \in Jobs : Garbage(i)
    BY <1>3 DEF Acquire
  <2>2. job[j].closed /\ ~Running(job[j]) /\ \A d \in Consumers : consumer[d].job # j
    BY <2>1 DEF Garbage
  <2>3. job[j] \in Job /\ job[j].refs = 0
    BY <2>2, JobOf DEF JobInv
  <2>4. PICK r : r = NewJob(q)
    OBVIOUS
  <2>5. /\ r \in Job /\ JobInv(r) /\ r.key = q.key /\ r.refs = 0 /\ ~r.slot /\ r.prefetch = "none"
        /\ ~r.stop /\ ~r.closed
    BY <1>1, <2>4, NewJobTyped
  <2>6. \A pool \in Pools : ~HoldsSlot(r, pool) /\ ~HoldsSlot(job[j], pool)
    BY <2>2, <2>5 DEF HoldsSlot
  <2>7. \A pool \in Pools : HoldsSlot(r, pool) = HoldsSlot(job[j], pool)
    BY <2>6 DEF HoldsSlot
  <2>8. \A i \in Jobs \ {j} : job[i].key = q.key => job[i].stop \/ job[i].closed
    BY <1>3, NoJobAssumption DEF Reusable, IInv, IndexInv
  <2>9. \A k \in Keys \ {q.key} : current[k] # j
    BY <2>2, NoJobAssumption DEF IInv, IndexInv
  <2>10. /\ job' = [job EXCEPT ![j] = [r EXCEPT !.refs = @ + 1, !.store = @ \/ q.store,
                                                !.foreground = @ \/ q.foreground]]
         /\ current' = [current EXCEPT ![q.key] = j]
         /\ consumer' = [consumer EXCEPT ![c] = [at |-> q.at, job |-> j]]
    BY <1>3, <2>1, <2>4 DEF Acquire
  <2>11. r \in Job /\ JobInv(r) /\ r.key = q.key /\ r.refs = job[j].refs /\ ~r.stop /\ ~r.closed
    BY <2>3, <2>5
  <2> QED
    BY <1>1, <2>7, <2>8, <2>9, <2>10, <2>11, Joins
<1> QED
  BY <1>2, <1>3

-----------------------------------------------------------------------------
\* The invariant, from the first state through every step.
LEMMA InitIInv == Init => IInv
<1> SUFFICES ASSUME Init PROVE IInv
  OBVIOUS
<1>1. \A j \in Jobs : job[j] = Unused
  BY DEF Init
<1>2. Typed
  <2>1. job \in [Jobs -> Job] /\ current \in [Keys -> Jobs \cup {NoJob}]
    BY UnusedTyped DEF Init
  <2>2. free \in [Pools -> Nat]
    BY SlotsAssumption DEF Init, Size
  <2>3. /\ consumer \in [Consumers -> [at: At, job: Jobs \cup {NoJob}]]
        /\ \A c \in Consumers : consumer[c].at = "idle"
    BY DEF Init, Idle, At
  <2> QED
    BY <2>1, <2>2, <2>3 DEF Typed
<1>3. RefsInv
  <2>1. \A j \in Jobs : Holders(j) = {}
    BY DEF Init, Idle, Holders, Holding
  <2> QED
    BY <1>1, <2>1, UnusedTyped, FS_EmptySet DEF RefsInv
<1>4. IndexInv
  BY <1>1, UnusedTyped DEF Init, IndexInv
<1>5. SlotsReturned
  <2>1. ~Running(Unused)
    BY UnusedTyped DEF JobInv
  <2>2. \A pool \in Pools : SlotHolders(pool) = {}
    BY <1>1, <2>1 DEF SlotHolders, HoldsSlot
  <2>3. \A pool \in Pools : free[pool] = Size(pool) /\ Size(pool) \in Nat
    BY SlotsAssumption DEF Init, Size
  <2> QED
    BY <2>2, <2>3, FS_EmptySet, SlotsByHolders
<1> QED
  BY <1>1, <1>2, <1>3, <1>4, <1>5, UnusedTyped DEF IInv

LEMMA NextIInv == IInv /\ [Next]_vars => IInv'
<1> SUFFICES ASSUME IInv, [Next]_vars PROVE IInv'
  OBVIOUS
<1>1. CASE \E c \in Consumers, q \in Requests : Acquire(c, q)
  BY <1>1, AcquireKeeps
<1>2. CASE \E c \in Consumers : ConsumerSteps(c) \/ FileCancelled(c) \/ Promote(c)
  <2> SUFFICES ASSUME NEW c \in Consumers, ConsumerSteps(c) \/ FileCancelled(c) \/ Promote(c)
               PROVE  IInv'
    BY <1>2
  <2>1. CASE GivesUp(c) \/ FileEnds(c) \/ FileCancelled(c)
    BY <2>1, LeavesIdle DEF GivesUp, FileEnds, FileCancelled, Holding
  <2> QED
    BY <2>1, ReadsKeeps, LeavesKeeps, FinalizesKeeps, CopiesKeeps, PromoteKeeps DEF ConsumerSteps
<1>3. CASE \E j \in Jobs : ProducerSteps(j) \/ PrefetchGrant(j) \/ SlotGrant(j) \/ CopyEnds(j) \/ Retry(j)
  BY <1>3, ProducerKeeps, PrefetchGrantKeeps, SlotGrantKeeps, CopyEndsKeeps, RetryKeeps
<1>4. CASE UNCHANGED vars
  BY <1>4 DEF vars, IInv, Typed, RefsInv, Holders, IndexInv, SlotsReturned
<1> QED
  BY <1>1, <1>2, <1>3, <1>4 DEF Next

\* What the invariant says of the properties.
LEMMA IInvTyped == IInv => TypeOK
<1> SUFFICES ASSUME IInv, NEW pool \in Pools PROVE free[pool] \in 0..Size(pool)
  BY DEF IInv, Typed, TypeOK
<1>1. /\ free[pool] + Cardinality(SlotHolders(pool)) = Size(pool) /\ free[pool] \in Nat
      /\ Cardinality(SlotHolders(pool)) \in Nat
  BY SlotsByHolders, HoldersFinite DEF IInv, Typed
<1>2. Size(pool) \in Nat
  BY SlotsAssumption DEF Size
<1> QED
  BY <1>1, <1>2

LEMMA IInvLimited == IInv => RequestsLimited
<1> SUFFICES ASSUME IInv, NEW engine \in {"edge", "gtts"}
             PROVE  Cardinality({j \in Jobs : /\ Engine(job[j]) = engine
                                             /\ job[j].producer \in {"synthesizing", "draining"}}) <= Slots
  BY DEF RequestsLimited
<1> DEFINE requests == {j \in Jobs : Engine(job[j]) = engine /\ job[j].producer \in {"synthesizing", "draining"}}
<1>1. engine \in Pools /\ Size(engine) = Slots /\ Slots \in Nat
  BY SlotsAssumption DEF Pools, Size
<1>2. requests \subseteq SlotHolders(engine)
  BY DEF SlotHolders, HoldsSlot, IInv, JobInv, Running, Alive
<1>3. IsFiniteSet(SlotHolders(engine)) /\ Cardinality(SlotHolders(engine)) \in Nat
  BY HoldersFinite
<1>4. Cardinality(requests) <= Cardinality(SlotHolders(engine)) /\ Cardinality(requests) \in Nat
  BY <1>2, <1>3, FS_Subset, FS_CardinalityType
<1>5. free[engine] + Cardinality(SlotHolders(engine)) = Slots /\ free[engine] \in Nat
  BY <1>1, SlotsByHolders DEF IInv, Typed
<1>6. Cardinality(requests) <= Slots
  BY <1>1, <1>3, <1>4, <1>5
<1> QED
  BY <1>6

LEMMA IInvUndisturbed == IInv => OthersUndisturbed
<1> SUFFICES ASSUME IInv PROVE OthersUndisturbed
  OBVIOUS
<1>1. ASSUME NEW c \in Consumers, consumer[c].at \in Holding
      PROVE  ~job[consumer[c].job].cancelling /\ ~job[consumer[c].job].closed
  <2>1. consumer[c].job \in Jobs
    BY <1>1, PlaceOf DEF Holding
  <2>2. job[consumer[c].job].refs > 0
    BY <1>1, <2>1, Held DEF IInv
  <2>3. JobInv(job[consumer[c].job])
    BY <2>1, JobOf
  <2> QED
    BY <2>2, <2>3 DEF JobInv
<1> QED
  BY <1>1, JobOf DEF OthersUndisturbed, JobInv

\* SharedSynthesis!SlotsAccounted: states are well formed, at most Slots requests run in an
\* engine, those that nobody waits for any more included, and every slot of the semaphores of
\* runtime.py is free or held by a producer that runs.
THEOREM SlotsKept == Spec => []SlotsAccounted
<1>1. IInv => SlotsAccounted
  BY IInvTyped, IInvLimited DEF SlotsAccounted, IInv
<1> QED
  BY InitIInv, NextIInv, <1>1, PTL DEF Spec

\* SharedSynthesis!OthersUndisturbed: whoever leaves a shared job (_release_shared_job) takes
\* nothing from the others: what a consumer holds is neither cancelled nor closed, and the
\* copy for the cache never reads a closed buffer.
THEOREM HeldJobsLive == Spec => []OthersUndisturbed
BY InitIInv, NextIInv, IInvUndisturbed, PTL DEF Spec

\* SharedSynthesis!OneSynthesisPerText: two jobs that can be joined are never for the same
\* text: _acquire_shared_job finds the one there is.
THEOREM OneJobPerText == Spec => []OneSynthesisPerText
<1>1. IInv => OneSynthesisPerText
  BY DEF IInv, IndexInv, OneSynthesisPerText
<1> QED
  BY InitIInv, NextIInv, <1>1, PTL DEF Spec

=============================================================================
