-------------------------- MODULE SharedSynthesis --------------------------
(***************************************************************************)
(* Speech syntheses shared by text (SharedSynthesisMixin in                *)
(* cogs/tts/streaming.py, StreamJob in cogs/tts/runtime.py): consumers     *)
(* that want the same audio, to play it or as a file, share one job and    *)
(* its buffer.  The last one to leave cancels a synthesis that still runs, *)
(* and the buffer is closed once nothing can touch it.                     *)
(*                                                                         *)
(* The semaphores are taken for the pools of slots they promise to be      *)
(* (SlotPool; promote only reorders waiters and changes nothing here). *)
(* Jobs are recycled once they are closed and nobody refers to them.       *)
(***************************************************************************)
EXTENDS Naturals, FiniteSets

CONSTANTS Consumers,      \* playbacks, prefetches and files
          Jobs,           \* StreamJob objects alive at a time
          EdgeKeys,       \* texts for the edge engine, which is cancelled at once
          GttsKeys,       \* texts for gtts, whose request runs to its end in a thread
          Slots,          \* of each engine's semaphore
          PrefetchSlots,  \* TTS_EDGE_PREFETCH_CONCURRENCY
          Requests,       \* what a consumer may ask for
          NoJob

ASSUME ConsumersAssumption == IsFiniteSet(Consumers) /\ IsFiniteSet(Jobs)
ASSUME KeysAssumption == EdgeKeys \cap GttsKeys = {} /\ EdgeKeys \cup GttsKeys # {}
ASSUME SlotsAssumption == Slots \in Nat \ {0} /\ PrefetchSlots \in Nat \ {0}
ASSUME NoJobAssumption == NoJob \notin Jobs

Keys == EdgeKeys \cup GttsKeys

\* An item's text, whether it is the current speech, whether its audio is to be
\* stored in the cache, and where its consumer goes: a stream or a file.
Request == [key: Keys, foreground: BOOLEAN, store: BOOLEAN, at: {"waiting", "filing"}]
ASSUME RequestsAssumption == Requests \subseteq Request

VARIABLES current,    \* _tts_shared_jobs
          job,        \* the jobs
          consumer,   \* where each consumer is, and the job it holds
          free        \* the slots each semaphore has left
vars == <<current, job, consumer, free>>

Pools == {"edge", "gtts", "prefetch"}
Size(pool) == IF pool = "prefetch" THEN PrefetchSlots ELSE Slots

\* The producer task before its end, and all it can be.
Alive == {"starting", "prefetching", "queued", "granted", "synthesizing", "draining"}
Producer == Alive \cup {"finished", "broken", "unused"}

Job == [key: Keys,
        producer: Producer,                       \* job.task
        refs: 0..Cardinality(Consumers),          \* references
        stop: BOOLEAN, foreground: BOOLEAN,
        store: BOOLEAN,                           \* store_in_cache
        closed: BOOLEAN,                          \* buffer.closed
        cancelling: BOOLEAN,                      \* task.cancel() was called
        scheduled: {"no", "producer", "copy"},    \* the task cleanup waits for
        copy: {"none", "running", "done"},        \* cache_task
        prefetch: {"none", "granted", "held"},    \* the prefetch slot
        slot: BOOLEAN]                            \* the engine's slot

At == {"idle", "waiting", "reading", "filing", "copying", "finalizing"}
Holding == {"waiting", "reading", "filing", "copying"}

TypeOK ==
    /\ current \in [Keys -> Jobs \cup {NoJob}]
    /\ job \in [Jobs -> Job]
    /\ consumer \in [Consumers -> [at: At, job: Jobs \cup {NoJob}]]
    /\ \A pool \in Pools : free[pool] \in 0..Size(pool)

Idle == [at |-> "idle", job |-> NoJob]
NewJob(q) ==
    [key |-> q.key, producer |-> "starting", refs |-> 0, stop |-> FALSE,
     foreground |-> q.foreground, store |-> q.store, closed |-> FALSE,
     cancelling |-> FALSE, scheduled |-> "no", copy |-> "none",
     prefetch |-> "none", slot |-> FALSE]
Unused == [NewJob([key |-> CHOOSE k \in Keys : TRUE, foreground |-> FALSE, store |-> FALSE])
             EXCEPT !.producer = "unused", !.closed = TRUE]

Init ==
    /\ current = [k \in Keys |-> NoJob]
    /\ job = [j \in Jobs |-> Unused]
    /\ consumer = [c \in Consumers |-> Idle]
    /\ free = [pool \in Pools |-> Size(pool)]

Running(r) == r.producer \in Alive

\* A closed job, of which only the key and a copy that still runs matter.
Closed(r) == [Unused EXCEPT !.key = r.key, !.copy = IF r.copy = "running" THEN "running" ELSE "none"]
Garbage(j) == job[j].closed /\ ~Running(job[j]) /\ \A c \in Consumers : consumer[c].job # j

-----------------------------------------------------------------------------
\* A job that was stopped, or whose buffer is closed, is joined no more.
Reusable(key) == current[key] # NoJob /\ ~job[current[key]].stop /\ ~job[current[key]].closed

\* _acquire_shared_job, by a consumer of a stream or of a file.
Acquire(c, q) ==
    /\ consumer[c] = Idle
    /\ Reusable(q.key) \/ \E j \in Jobs : Garbage(j)
    /\ LET j == IF Reusable(q.key) THEN current[q.key] ELSE CHOOSE j \in Jobs : Garbage(j)
           r == IF Reusable(q.key) THEN job[j] ELSE NewJob(q)
       IN  /\ job' = [job EXCEPT ![j] = [r EXCEPT !.refs = @ + 1,
                                                  !.store = @ \/ q.store,
                                                  !.foreground = @ \/ q.foreground]]
           /\ current' = [current EXCEPT ![q.key] = j]
           /\ consumer' = [consumer EXCEPT ![c] = [at |-> q.at, job |-> j]]
    /\ UNCHANGED free

\* The last of the tasks that may still touch the buffer.
Pending(r) == IF r.copy = "running" THEN "copy"
              ELSE IF Running(r) THEN "producer" ELSE "no"

\* _close_shared_job_when_idle: a job without references closes, or waits for
\* its tasks.  Mutant: the copy of the audio is not waited for.
IgnoresCopy(r) == IF r.refs > 0 \/ r.scheduled # "no" THEN r
                  ELSE IF Running(r) THEN [r EXCEPT !.scheduled = "producer"]
                  ELSE Closed(r)
WhenIdle(r) == IF r.refs > 0 \/ r.scheduled # "no" THEN r
               ELSE IF Pending(r) # "no" THEN [r EXCEPT !.scheduled = Pending(r)]
               ELSE Closed(r)

\* Only its own entry of the index.  Mutant: whatever job has the key.
PopsAny(key, j) == TRUE
Pops(key, j) == current[key] = j

CloseWhenIdle(j, r) ==
    /\ job' = [job EXCEPT ![j] = WhenIdle(r)]
    /\ current' = IF WhenIdle(r).closed /\ Pops(r.key, j)
                    THEN [current EXCEPT ![r.key] = NoJob] ELSE current
    /\ UNCHANGED free

\* _release_shared_job: the last reference cancels what still runs.
Released(r) ==
    LET s == [r EXCEPT !.refs = IF @ > 0 THEN @ - 1 ELSE 0]
    IN  IF s.refs = 0 /\ Running(s) THEN [s EXCEPT !.stop = TRUE, !.cancelling = TRUE] ELSE s

Release(j) == CloseWhenIdle(j, Released(job[j]))

\* The task that cleanup waits for is done: its callback looks again.  Mutant:
\* it does not withdraw the note that cleanup is scheduled.
StillScheduled(r) == r
NotScheduled(r) == [r EXCEPT !.scheduled = "no"]
Retry(j) ==
    /\ \/ job[j].scheduled = "producer" /\ ~Running(job[j])
       \/ job[j].scheduled = "copy" /\ job[j].copy # "running"
    /\ CloseWhenIdle(j, NotScheduled(job[j]))
    /\ UNCHANGED consumer
-----------------------------------------------------------------------------
SetJob(j, r) == job' = [job EXCEPT ![j] = r] /\ UNCHANGED <<current, consumer>>

\* The semaphore of a job's engine, and slots taken from one or given back.
Engine(r) == IF r.key \in EdgeKeys THEN "edge" ELSE "gtts"
Take(pool) == free[pool] > 0 /\ free' = [free EXCEPT ![pool] = @ - 1]
One(given) == IF given THEN 1 ELSE 0
GiveBack(r, engine, prefetch) ==
    free' = [free EXCEPT ![Engine(r)] = @ + One(engine), !["prefetch"] = @ + One(prefetch)]

\* The producer's first step.  A task cancelled before it never runs.
Starts(j) ==
    /\ job[j].producer = "starting"
    /\ SetJob(j, IF job[j].cancelling THEN [job[j] EXCEPT !.producer = "broken"]
                 ELSE [job[j] EXCEPT !.producer =
                         IF job[j].foreground \/ Engine(job[j]) # "edge"
                           THEN "queued" ELSE "prefetching"])
    /\ UNCHANGED free

\* _shared_prefetch_slot: a prefetch asks for a slot until it is promoted; a
\* grant that comes with the promotion, or with a cancellation, is returned.
\* Mutant: it is not.
GrantLost(r) == FALSE
GrantReturned(r) == r.prefetch = "granted"
PrefetchGrant(j) ==
    /\ job[j].producer = "prefetching" /\ job[j].prefetch = "none"
    /\ SetJob(j, [job[j] EXCEPT !.prefetch = "granted"])
    /\ Take("prefetch")
PrefetchKept(j) ==
    /\ job[j].producer = "prefetching" /\ ~job[j].cancelling
    /\ job[j].prefetch = "granted" /\ ~job[j].foreground
    /\ SetJob(j, [job[j] EXCEPT !.producer = "queued", !.prefetch = "held"])
    /\ UNCHANGED free
PrefetchPromoted(j) ==
    /\ job[j].producer = "prefetching" /\ ~job[j].cancelling
    /\ job[j].foreground
    /\ SetJob(j, [job[j] EXCEPT !.producer = "queued", !.prefetch = "none"])
    /\ GiveBack(job[j], FALSE, GrantReturned(job[j]))

SlotGrant(j) ==
    /\ job[j].producer = "queued" /\ ~job[j].cancelling
    /\ SetJob(j, [job[j] EXCEPT !.producer = "granted", !.slot = TRUE])
    /\ Take(Engine(job[j]))

\* A synthesis begins; one that is no longer a prefetch leaves their slots.
Synthesize(j) ==
    LET promoted == job[j].prefetch = "held" /\ job[j].foreground
    IN  /\ job[j].producer = "granted" /\ ~job[j].cancelling
        /\ SetJob(j, [job[j] EXCEPT !.producer = "synthesizing",
                                    !.prefetch = IF promoted THEN "none" ELSE @])
        /\ GiveBack(job[j], FALSE, promoted)

\* The producer ends: what it holds is given back.
Ends(j, how, stopped) ==
    LET r == job[j]
    IN  /\ SetJob(j, [r EXCEPT !.producer = how, !.stop = @ \/ stopped,
                               !.slot = FALSE, !.prefetch = "none",
                               !.copy = IF how = "finished" /\ r.store THEN "running" ELSE @])
        /\ GiveBack(r, r.slot, r.prefetch = "held" \/ GrantReturned(r))

\* All audio came; it is copied to the cache when some consumer asked for that.
Finishes(j) ==
    job[j].producer = "synthesizing" /\ ~job[j].cancelling /\ Ends(j, "finished", FALSE)
Fails(j) ==
    job[j].producer = "synthesizing" /\ ~job[j].cancelling /\ Ends(j, "broken", TRUE)

\* gtts was cancelled or timed out: the slot is kept until the request in the
\* thread ends.
StartsDrain(j) ==
    /\ job[j].producer = "synthesizing" /\ Engine(job[j]) = "gtts"
    /\ SetJob(j, [job[j] EXCEPT !.producer = "draining", !.stop = TRUE])
    /\ UNCHANGED free
DrainEnds(j) == job[j].producer = "draining" /\ Ends(j, "broken", TRUE)

\* A cancellation reaches the producer anywhere else.
Cancelled(j) ==
    /\ job[j].cancelling
    /\ job[j].producer \in Alive \ {"starting", "draining"}
    /\ ~(job[j].producer = "synthesizing" /\ Engine(job[j]) = "gtts")
    /\ Ends(j, "broken", TRUE)

\* _materialize_shared_job ends, with a file or without.
CopyEnds(j) ==
    /\ job[j].copy = "running"
    /\ SetJob(j, [job[j] EXCEPT !.copy = "done"])
    /\ UNCHANGED free
-----------------------------------------------------------------------------
\* _prepare_shared_stream: the producer has its slot, or ended.
Reads(c) ==
    LET j == consumer[c].job
    IN  /\ consumer[c].at = "waiting"
        /\ job[j].producer \in {"synthesizing", "draining", "finished"}
        /\ consumer' = [consumer EXCEPT ![c].at = "reading"]
        /\ UNCHANGED <<current, job, free>>

\* _promote_prefetched_audio: the item of a prefetch becomes the current speech.
Promote(c) ==
    LET j == consumer[c].job
    IN  /\ consumer[c].at \in Holding
        /\ ~job[j].foreground
        /\ job' = [job EXCEPT ![j].foreground = TRUE]
        /\ UNCHANGED <<current, consumer, free>>

\* A stream that failed, timed out or was cancelled before it had a handle.
GivesUp(c) ==
    /\ consumer[c].at = "waiting"
    /\ Release(consumer[c].job)
    /\ consumer' = [consumer EXCEPT ![c] = Idle]

\* _finalize_edge_stream, at the end of a playback or in the middle of one.
Leaves(c) ==
    LET j == consumer[c].job
    IN  /\ consumer[c].at = "reading"
        /\ Release(j)
        /\ consumer' = [consumer EXCEPT ![c] =
                          IF Released(job[j]).refs = 0 /\ Engine(job[j]) = "edge"
                            THEN [@ EXCEPT !.at = "finalizing"] ELSE Idle]
Finalizes(c) ==
    LET j == consumer[c].job
    IN  /\ consumer[c].at = "finalizing"
        /\ ~Running(job[j])
        /\ CloseWhenIdle(j, job[j])
        /\ consumer' = [consumer EXCEPT ![c] = Idle]

\* _shared_job_file: the audio is there, and one consumer has it copied.
Copies(c) ==
    LET j == consumer[c].job
    IN  /\ consumer[c].at = "filing"
        /\ job[j].producer = "finished"
        /\ job' = [job EXCEPT ![j].copy = IF @ = "none" THEN "running" ELSE @]
        /\ consumer' = [consumer EXCEPT ![c].at = "copying"]
        /\ UNCHANGED <<current, free>>

\* A file consumer is done, failed or was cancelled.
FileEnds(c) ==
    LET j == consumer[c].job
    IN  /\ \/ consumer[c].at = "filing" /\ job[j].producer = "broken"
           \/ consumer[c].at = "copying" /\ job[j].copy = "done"
        /\ Release(j)
        /\ consumer' = [consumer EXCEPT ![c] = Idle]
FileCancelled(c) ==
    /\ consumer[c].at \in {"filing", "copying"}
    /\ Release(consumer[c].job)
    /\ consumer' = [consumer EXCEPT ![c] = Idle]
-----------------------------------------------------------------------------
ProducerSteps(j) ==
    \/ Starts(j) \/ PrefetchKept(j) \/ PrefetchPromoted(j) \/ Synthesize(j)
    \/ Finishes(j) \/ Fails(j) \/ StartsDrain(j) \/ DrainEnds(j) \/ Cancelled(j)
ConsumerSteps(c) == Reads(c) \/ GivesUp(c) \/ Leaves(c) \/ Finalizes(c) \/ Copies(c) \/ FileEnds(c)

Next ==
    \/ \E c \in Consumers, q \in Requests : Acquire(c, q)
    \/ \E c \in Consumers : ConsumerSteps(c) \/ FileCancelled(c) \/ Promote(c)
    \/ \E j \in Jobs : ProducerSteps(j) \/ PrefetchGrant(j) \/ SlotGrant(j)
                       \/ CopyEnds(j) \/ Retry(j)

Spec == Init /\ [][Next]_vars

\* Tasks that can go on do: a synthesis has a deadline, a playback an end, and a
\* semaphore serves every waiter (PrioritySemaphore!EveryWaiterServed).
Fairness ==
    /\ \A j \in Jobs : /\ WF_vars(ProducerSteps(j)) /\ WF_vars(CopyEnds(j)) /\ WF_vars(Retry(j))
                       /\ SF_vars(SlotGrant(j)) /\ SF_vars(PrefetchGrant(j))
    /\ \A c \in Consumers : WF_vars(ConsumerSteps(c))
FairSpec == Spec /\ Fairness
-----------------------------------------------------------------------------
\* Nobody else's departure takes the audio from a consumer: a job that someone
\* holds is neither cancelled nor closed, and no copy reads a closed buffer.
OthersUndisturbed ==
    /\ \A c \in Consumers : consumer[c].at \in Holding =>
          ~job[consumer[c].job].cancelling /\ ~job[consumer[c].job].closed
    /\ \A j \in Jobs : job[j].copy = "running" => ~job[j].closed

\* A text is synthesized once at a time, for all who want it.
OneSynthesisPerText ==
    \A i, j \in Jobs :
        /\ job[i].key = job[j].key
        /\ ~job[i].stop /\ ~job[i].closed /\ ~job[j].stop /\ ~job[j].closed
        => i = j

\* Requests to an engine are limited, the abandoned ones that still run included.
RequestsLimited ==
    \A engine \in {"edge", "gtts"} :
        Cardinality({j \in Jobs : Engine(job[j]) = engine
                                  /\ job[j].producer \in {"synthesizing", "draining"}}) <= Slots

\* However a promotion or a cancellation meets a grant, every slot is held by a
\* producer that runs or is there to be taken.
SlotsReturned ==
    \A pool \in Pools :
        LET holders == {j \in Jobs : /\ Running(job[j])
                                     /\ IF pool = "prefetch" THEN job[j].prefetch # "none"
                                        ELSE job[j].slot /\ Engine(job[j]) = pool}
        IN  free[pool] + Cardinality(holders) = Size(pool)

\* Both, over well formed states: slots are neither lost nor passed by.
SlotsAccounted == TypeOK /\ RequestsLimited /\ SlotsReturned

\* A job that nobody holds closes, or someone takes it up again.
JobsClose == \A j \in Jobs : job[j].refs = 0 ~> job[j].refs > 0 \/ job[j].closed

\* A file that was asked for is delivered or refused.
FilesAnswered == \A c \in Consumers : consumer[c].at \in {"filing", "copying"} ~> consumer[c] = Idle

\* Both: whatever consumers leave or ask for ends.
SynthesesEnd == JobsClose /\ FilesAnswered
=============================================================================
