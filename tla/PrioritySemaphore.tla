------------------------- MODULE PrioritySemaphore -------------------------
(***************************************************************************)
(* The semaphore that limits speech syntheses (_PrioritySemaphore in       *)
(* cogs/tts/audio.py): current speech overtakes speculative prefetch, but  *)
(* not for ever.  A waiter is a future in one of two queues; a release     *)
(* hands the slot to a future, and the task behind it runs later.  In      *)
(* between it may be cancelled, so a slot may reach a task that no longer  *)
(* wants it.                                                               *)
(***************************************************************************)
EXTENDS Naturals, FiniteSets, Sequences

CONSTANTS Tasks,
          Slots,      \* TTS_SYNTH_CONCURRENCY, TTS_GTTS_CONCURRENCY
          MaxStreak   \* foreground turns in a row while the background waits

ASSUME TasksAssumption == IsFiniteSet(Tasks)
ASSUME SlotsAssumption == Slots \in Nat \ {0}
ASSUME StreakAssumption == MaxStreak \in Nat

VARIABLES value,        \* _value
          foreground,   \* _foreground_waiters
          background,   \* _background_waiters
          streak,       \* _foreground_streak, counted up to MaxStreak
          state         \* of each task and of its future
semaphoreVars == <<value, foreground, background, streak, state>>

\* "pending", "granted" and "cancelled" are the future's states; a task that is
\* cancelled once its future was granted is "withdrawn".
State == {"idle", "pending", "granted", "withdrawn", "cancelled", "holding"}

SemaphoreTypeOK ==
    /\ value \in 0..Slots
    /\ foreground \in Seq(Tasks)
    /\ background \in Seq(Tasks)
    /\ streak \in 0..MaxStreak
    /\ state \in [Tasks -> State]

SemaphoreInit ==
    /\ value = Slots
    /\ foreground = <<>> /\ background = <<>>
    /\ streak = 0
    /\ state = [t \in Tasks |-> "idle"]

\* Mutant: a newcomer takes a slot whoever waits, a returned one included.
ValueLeft == value + 1 > 0
FreeAtOnce == value > 0 /\ foreground = <<>> /\ background = <<>>

\* acquire, up to its await.
AcquireAtOnce(t) ==
    /\ state[t] = "idle"
    /\ FreeAtOnce
    /\ value' = value - 1
    /\ state' = [state EXCEPT ![t] = "holding"]
    /\ UNCHANGED <<foreground, background, streak>>

AcquireWaits(t, first) ==
    /\ state[t] = "idle"
    /\ ~FreeAtOnce
    /\ state' = [state EXCEPT ![t] = "pending"]
    /\ IF first
         THEN foreground' = Append(foreground, t) /\ UNCHANGED background
         ELSE background' = Append(background, t) /\ UNCHANGED foreground
    /\ UNCHANGED <<value, streak>>

\* The waiters of a queue whose futures are not done, the first of them, and
\* what is left of the queue once it is served: done futures are dropped on the
\* way, and a queue with no live waiter is emptied.
Live(q) == {i \in DOMAIN q : state[q[i]] = "pending"}
First(q) == CHOOSE i \in Live(q) : \A k \in Live(q) : i <= k
After(q) == IF Live(q) = {} THEN <<>> ELSE SubSeq(q, First(q) + 1, Len(q))

\* Mutant: the foreground always goes first.
NeverTheirTurn == FALSE
BackgroundTurn == streak >= MaxStreak /\ background # <<>>
ServesBackground == Live(background) # {} /\ (BackgroundTurn \/ Live(foreground) = {})
ServesForeground == Live(foreground) # {} /\ ~(BackgroundTurn /\ Live(background) # {})
NextTask == IF ServesForeground THEN foreground[First(foreground)]
                                ELSE background[First(background)]

Raised == IF ServesForeground \/ ServesBackground THEN value ELSE value + 1

\* release, called by task t that goes on without a slot.
ReleaseSlot(t) ==
    /\ foreground' = IF ServesBackground /\ BackgroundTurn THEN foreground
                                                           ELSE After(foreground)
    /\ background' = IF ServesForeground /\ ~BackgroundTurn THEN background
                                                            ELSE After(background)
    /\ streak' = CASE ServesForeground -> IF streak < MaxStreak THEN streak + 1 ELSE streak
                   [] ServesBackground -> 0
                   [] OTHER -> streak
    /\ value' = Raised
    /\ state' = IF ServesForeground \/ ServesBackground
                  THEN [state EXCEPT ![t] = "idle", ![NextTask] = "granted"]
                  ELSE [state EXCEPT ![t] = "idle"]

Release(t) == state[t] = "holding" /\ ReleaseSlot(t)

\* The task behind a granted future goes on.
Resume(t) ==
    /\ state[t] = "granted"
    /\ state' = [state EXCEPT ![t] = "holding"]
    /\ UNCHANGED <<value, foreground, background, streak>>

\* The task is cancelled: so is its future, unless that was granted already.
Cancel(t) ==
    /\ state[t] \in {"pending", "granted"}
    /\ state' = [state EXCEPT ![t] = IF state[t] = "pending" THEN "cancelled"
                                                             ELSE "withdrawn"]
    /\ UNCHANGED <<value, foreground, background, streak>>

\* A queue without a task, which is in it once at most.
InQueue(t, q) == \E i \in DOMAIN q : q[i] = t
Without(q, t) ==
    LET i == CHOOSE i \in DOMAIN q : q[i] = t
    IN  IF InQueue(t, q) THEN SubSeq(q, 1, i - 1) \o SubSeq(q, i + 1, Len(q)) ELSE q

ResumeCancelled(t) ==
    /\ state[t] = "cancelled"
    /\ foreground' = Without(foreground, t)
    /\ background' = Without(background, t)
    /\ state' = [state EXCEPT ![t] = "idle"]
    /\ UNCHANGED <<value, streak>>

\* A slot that reached a cancelled task is passed on.  Mutant: it is lost.
SlotLost(t) ==
    /\ state' = [state EXCEPT ![t] = "idle"]
    /\ UNCHANGED <<value, foreground, background, streak>>
PassOn(t) == ReleaseSlot(t)
ResumeWithdrawn(t) == state[t] = "withdrawn" /\ PassOn(t)

\* promote: a prefetch became the current speech.
Promote(t) ==
    /\ state[t] = "pending"
    /\ InQueue(t, background)
    /\ background' = Without(background, t)
    /\ foreground' = Append(foreground, t)
    /\ UNCHANGED <<value, streak, state>>

Resumes(t) == Resume(t) \/ ResumeCancelled(t) \/ ResumeWithdrawn(t)

SemaphoreNext ==
    \E t \in Tasks :
        \/ AcquireAtOnce(t) \/ \E first \in BOOLEAN : AcquireWaits(t, first)
        \/ Release(t) \/ Resumes(t) \/ Cancel(t) \/ Promote(t)

SemaphoreSpec == SemaphoreInit /\ [][SemaphoreNext]_semaphoreVars

\* The event loop resumes every task that can go on, and a synthesis ends.
Fairness == \A t \in Tasks : WF_semaphoreVars(Resumes(t)) /\ WF_semaphoreVars(Release(t))
FairSemaphoreSpec == SemaphoreSpec /\ Fairness
-----------------------------------------------------------------------------
\* Slots are neither lost nor made, wherever a cancellation strikes.
WithSlot == {t \in Tasks : state[t] \in {"granted", "withdrawn", "holding"}}
SlotsConserved == value + Cardinality(WithSlot) = Slots

\* No slot is free while a task waits for one.
NoIdleSlot == value > 0 => \A t \in Tasks : state[t] # "pending"

\* Every task that waits gets a slot or is cancelled, in the background too.
EveryWaiterServed == \A t \in Tasks : state[t] = "pending" ~> state[t] # "pending"

\* The semaphore implements the pool of slots it promises to be.
PlaceOf(t) == CASE state[t] \in {"granted", "withdrawn", "holding"} -> "inside"
                [] state[t] = "pending" -> "asking"
                [] OTHER -> "out"
Pool == INSTANCE SlotPool WITH place <- [t \in Tasks |-> PlaceOf(t)]
ImplementsPool == Pool!Spec
=============================================================================
