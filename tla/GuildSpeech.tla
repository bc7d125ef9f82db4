---------------------------- MODULE GuildSpeech ----------------------------
(***************************************************************************)
(* One guild's speech (GuildTTSState in cogs/tts/audio.py, the clears in   *)
(* cogs/tts/cog.py): messages are queued as groups of parts, a worker      *)
(* speaks them one at a time and prepares the next while it speaks, and    *)
(* clearing the queue drains it, cancels the worker and waits for its end. *)
(*                                                                         *)
(* Everything runs on one event loop: another task can only take a step    *)
(* while the worker awaits.  A cancelled worker gets CancelledError at its *)
(* next resumption, wherever it awaits; a few of its awaits swallow it.    *)
(***************************************************************************)
EXTENDS Naturals, Sequences, FiniteSetsExt

CONSTANTS Texts,
          Groups,        \* the messages' parts: sequences of texts
          Messages,      \* bound: messages sent
          Capacity,      \* TTS_QUEUE_MAXSIZE
          Clears,        \* bound: the clears that may happen
          Toggles,       \* bound: changes of the dashboard's switch
          NoItem

ASSUME GroupsAssumption == IsFiniteSet(Groups) /\ Groups \subseteq Seq(Texts) \ {<<>>}
ASSUME ClearsAssumption == IsFiniteSet(Clears)
ASSUME BoundsAssumption == Messages \in Nat /\ Capacity \in Nat \ {0} /\ Toggles \in Nat

VARIABLES guild,      \* the guild's GuildTTSState
          worker,     \* its worker task, with the locals of _worker_loop
          clearing,   \* where each clear is
          fate,       \* what became of each accepted part
          sent,       \* messages sent so far
          toggles,    \* changes of the switch so far
          left        \* history: the parts a worker on its way out has left queued
vars == <<guild, worker, clearing, fate, sent, toggles, left>>

MaxParts == Max({Len(g) : g \in Groups} \cup {0})
Part == (1..Messages) \X (1..MaxParts)

\* A QueueItem: its message (request_id) and its place in it, its text and the
\* generation it was accepted in.
Item == [msg: 1..Messages, part: 1..MaxParts, text: Texts, gen: 0..Cardinality(Clears)]
ASSUME NoItemAssumption == NoItem \notin Item

\* What became of a part: "done" once a player has it or it has failed.
Fates == {"none", "waiting", "done", "evicted", "cleared"}

\* Where the worker awaits, and where it runs on without awaiting.
Awaits == {"none", "created", "idle", "fetched", "leaving", "discarding", "checking",
           "routing", "handing", "remote", "connecting", "abandoning", "resolving",
           "starting", "playing", "releasing", "unwatching", "closing"}
Running == {"top", "got", "finishing", "ending"}

TypeOK ==
    /\ guild.queue \in Seq(Item) /\ Len(guild.queue) <= Capacity
    /\ guild.pending \in [Texts -> 0..(Capacity + 2)]
    /\ guild.accepting \in BOOLEAN /\ guild.enabled \in BOOLEAN /\ guild.live \in BOOLEAN
    /\ guild.generation \in 0..Cardinality(Clears)
    /\ worker.at \in Awaits \cup Running
    /\ worker.gen \in 0..Cardinality(Clears)
    /\ worker.item \in Item \cup {NoItem}
    /\ worker.ahead \in Item \cup {NoItem}
    /\ worker.arrived \in Item \cup {NoItem}
    /\ worker.audio \in {"none", "ahead", "spent"}
    /\ worker.route \in {"local", "agent", "direct"}
    /\ {worker.cancelled, worker.raising, worker.watching, worker.remote, worker.retried}
          \subseteq BOOLEAN
    /\ clearing \in [Clears -> {"idle", "waiting", "woken", "detached", "done"}]
    /\ fate \in [Part -> Fates]
    /\ sent \in 0..Messages /\ toggles \in 0..Toggles
    /\ left \subseteq Part

\* A state _get_state makes; one that does not exist yet is kept in this form.
NewState == [live |-> FALSE, queue |-> <<>>, pending |-> [t \in Texts |-> 0],
             accepting |-> TRUE, enabled |-> TRUE, generation |-> 0]

NoWorker == [at |-> "none", gen |-> 0,
             item |-> NoItem,       \* active_item
             ahead |-> NoItem,      \* prefetched_item
             arrived |-> NoItem,    \* what the arrival task has returned
             watching |-> FALSE,    \* arrival_prefetch_task waits for the queue
             audio |-> "none",      \* audio_task: prepared ahead, or spent by a route
             route |-> "local",
             remote |-> FALSE,      \* _tts_remote_active
             retried |-> FALSE,     \* the second attempt at playing
             raising |-> FALSE,     \* an exception leaves the loop
             cancelled |-> FALSE]   \* a CancelledError is due

Init ==
    /\ guild = NewState /\ worker = NoWorker
    /\ clearing = [c \in Clears |-> "idle"]
    /\ fate = [p \in Part |-> "none"]
    /\ sent = 0 /\ toggles = 0 /\ left = {}

(***************************************************************************)
(* Helpers                                                                 *)
(***************************************************************************)
\* The worker is not in the middle of a step.
Suspended == worker.at \in Awaits

ElementsOf(q) == {q[k] : k \in DOMAIN q}

\* The worker ends without a look at the queue: it is leaving the channel or
\* throws away what it has prepared, a clear has cancelled it, or an exception
\* leaves its loop.
Stalled == worker.at \notin {"none", "created"} /\ worker.gen # guild.generation
OnItsWayOut ==
    worker.at \in {"leaving", "discarding"} \/ worker.cancelled \/ worker.raising \/ Stalled

\* The history every step keeps and no guard reads: what waits in the queue while
\* the worker is on its way out is left to the next one, which _ensure_worker
\* starts with the next message, or to this one when it stays after all.
Picked == <<worker.at, worker'.at>> \in {<<"none", "created">>, <<"leaving", "top">>}
Leaves ==
    left' = IF Picked THEN {}
            ELSE left \cup {p \in Part : OnItsWayOut' /\ \E i \in ElementsOf(guild'.queue) :
                                                           <<i.msg, i.part>> = p}

Settle(f, items, as) ==
    [p \in Part |-> IF f[p] = "waiting" /\ \E i \in items : <<i.msg, i.part>> = p
                    THEN as ELSE f[p]]
InHand == {worker.item, worker.ahead, worker.arrived} \ {NoItem}

\* _increment_pending_signature and _decrement_pending_signature.
Count(q, t) == Cardinality({k \in DOMAIN q : q[k].text = t})
Incremented(pending, q) == [t \in Texts |-> pending[t] + Count(q, t)]
Decremented(pending, q) ==
    [t \in Texts |-> IF pending[t] <= Count(q, t) THEN 0 ELSE pending[t] - Count(q, t)]

\* queue.get and the bookkeeping after it.  Mutant: it is not booked.
TakenUnbooked == [guild EXCEPT !.queue = Tail(@)]
Taken == [guild EXCEPT !.queue = Tail(@),
                       !.pending = Decremented(@, <<Head(guild.queue)>>)]
Drained == [guild EXCEPT !.queue = <<>>, !.pending = Decremented(@, guild.queue)]

\* _ensure_worker, called with the state st.
Ensured(st) ==
    IF st.accepting /\ worker.at = "none" THEN [NoWorker EXCEPT !.at = "created"] ELSE worker

(***************************************************************************)
(* Messages                                                                *)
(***************************************************************************)
\* How many parts are evicted so that n more fit: whole messages, oldest first.
\* Mutant: as many parts as it takes.
PartEvictions(q, n) == Max({0, Len(q) + n - Capacity})
Evictions(q, n) ==
    LET Enough(k) == /\ Len(q) - k + n <= Capacity
                     /\ k \in {0, Len(q)} \/ q[k].msg # q[k + 1].msg
    IN  Min({k \in 0..Len(q) : Enough(k)})

\* _enqueue_tts_items and the _ensure_worker every caller follows it with.
Message(group) ==
    LET present == [guild EXCEPT !.live = TRUE]
        msg == sent + 1
        n == Len(group)
        fits == [k \in 1..n |-> [msg |-> msg, part |-> k, text |-> group[k],
                                 gen |-> guild.generation]]
        cut == Evictions(guild.queue, n)
        old == SubSeq(guild.queue, 1, cut)
        kept == SubSeq(guild.queue, cut + 1, Len(guild.queue))
        admitted == /\ guild.accepting /\ guild.enabled
                    /\ \E k \in 1..n : guild.pending[group[k]] = 0
                    /\ n <= Capacity
    IN  /\ Suspended /\ sent < Messages
        /\ sent' = msg
        /\ IF admitted
           THEN /\ guild' = [present EXCEPT
                      !.queue = kept \o fits,
                      !.pending = Incremented(Decremented(@, old), fits)]
                /\ fate' = [p \in Part |->
                      IF p[1] = msg /\ p[2] <= n THEN "waiting"
                      ELSE Settle(fate, ElementsOf(old), "evicted")[p]]
           ELSE guild' = present /\ UNCHANGED fate
        /\ worker' = Ensured(guild')
        /\ UNCHANGED <<clearing, toggles>> /\ Leaves

\* _apply_dashboard_enabled_state, once the guild's settings have been read.
Toggle ==
    /\ Suspended /\ guild.live /\ toggles < Toggles
    /\ toggles' = toggles + 1
    /\ IF guild.enabled
       THEN /\ guild' = [Drained EXCEPT !.enabled = FALSE]
            /\ fate' = Settle(fate, ElementsOf(guild.queue), "cleared")
       ELSE guild' = [guild EXCEPT !.enabled = TRUE] /\ UNCHANGED fate
    /\ UNCHANGED <<worker, clearing, sent>> /\ Leaves

(***************************************************************************)
(* Clearing the queue                                                      *)
(***************************************************************************)
\* The end of _clear_queue_only on a state that is still the guild's.
Reopened(st) == [st EXCEPT !.pending = [t \in Texts |-> 0], !.accepting = TRUE]

\* Its beginning.  Mutant: the generation stays.
ClosedOnly == [Drained EXCEPT !.live = TRUE, !.accepting = FALSE]
Closed == [Drained EXCEPT !.live = TRUE, !.accepting = FALSE, !.generation = @ + 1]

\* _clear_queue_only up to its wait for the worker, or to its end without one.
Clear(c) ==
    /\ Suspended /\ clearing[c] = "idle"
    /\ fate' = Settle(fate, ElementsOf(guild.queue), "cleared")
    /\ IF worker.at = "none"
       THEN /\ guild' = Reopened(Closed) /\ UNCHANGED worker
            /\ clearing' = [clearing EXCEPT ![c] = "done"]
       ELSE /\ guild' = Closed
            /\ worker' = [worker EXCEPT !.cancelled = TRUE]
            /\ clearing' = [clearing EXCEPT ![c] = "waiting"]
    /\ UNCHANGED <<sent, toggles>> /\ Leaves

\* The clear wakes after the worker's end; the guild may have a new state by then.
ClearEnds(c) ==
    /\ Suspended /\ clearing[c] \in {"woken", "detached"}
    /\ clearing' = [clearing EXCEPT ![c] = "done"]
    /\ guild' = IF clearing[c] = "woken" THEN Reopened(guild) ELSE guild
    /\ UNCHANGED <<worker, fate, sent, toggles>> /\ Leaves

(***************************************************************************)
(* The worker (_worker_loop)                                               *)
(***************************************************************************)
Goes(from, to) == worker.at = from /\ worker' = [worker EXCEPT !.at = to]
Continues(at) == worker.at = at /\ ~worker.cancelled
Only(variable) == \* what a step of the worker leaves alone besides the variable
    /\ UNCHANGED <<clearing, sent, toggles>>
    /\ variable # "guild" => UNCHANGED guild
    /\ variable # "fate" => UNCHANGED fate
    /\ Leaves

\* An await that ends with the CancelledError: inside the item's try the finally
\* clauses run next, outside it the end of the task.
Cancelled ==
    /\ worker.cancelled
    /\ \/ /\ worker.at \in {"checking", "handing", "remote", "resolving", "starting", "playing"}
          /\ worker' = [worker EXCEPT !.at = "finishing", !.raising = TRUE, !.cancelled = FALSE]
       \/ /\ worker.at = "connecting"
          /\ worker' = [worker EXCEPT !.at = "abandoning", !.raising = TRUE, !.cancelled = FALSE]
       \/ /\ worker.at \in {"idle", "leaving", "releasing"}
          /\ worker' = [worker EXCEPT !.at = "ending", !.cancelled = FALSE]
    /\ Only("worker")

\* A clear came since the worker began.
Stale == worker.gen # guild.generation \/ ~guild.accepting

\* Mutant: the queue is asked before what was prepared ahead.
QueueFirst == worker.ahead # NoItem /\ guild.queue = <<>>
HasNext == worker.ahead # NoItem

\* The top of the loop, after which it awaits or has an item at hand.
Top ==
    /\ worker.at = "top"
    /\ worker' =
         IF Stale \/ (~guild.enabled /\ worker.ahead = NoItem) THEN [worker EXCEPT !.at = "ending"]
         ELSE IF ~guild.enabled THEN [worker EXCEPT !.at = "discarding"]
         ELSE IF HasNext
              THEN [worker EXCEPT !.at = "got", !.audio = "ahead",
                                  !.item = worker.ahead, !.ahead = NoItem]
         ELSE [worker EXCEPT !.at = "idle"]
    /\ Only("worker")

\* The task's first step.
Starts ==
    /\ Continues("created")
    /\ worker' = [worker EXCEPT !.at = "top", !.gen = guild.generation]
    /\ Only("worker")

\* The prepared audio is cancelled or thrown away, whatever else happens meanwhile.
Discarded ==
    /\ worker.at = "discarding"
    /\ fate' = Settle(fate, {worker.ahead}, "cleared")
    /\ worker' = [worker EXCEPT !.at = "ending", !.ahead = NoItem, !.cancelled = FALSE]
    /\ Only("fate")

\* wait_for(queue.get()): the inner task takes the item, and the loop resumes
\* later; a cancellation or a timeout in between loses nothing, for wait_for
\* then returns the item all the same.
Fetch ==
    /\ Continues("idle") /\ guild.queue # <<>>
    /\ worker' = [worker EXCEPT !.at = "fetched", !.item = Head(guild.queue)]
    /\ guild' = [guild EXCEPT !.queue = Tail(@)]
    /\ Only("guild")

Resumed ==
    /\ worker.at = "fetched"
    /\ worker' = [worker EXCEPT !.at = "got", !.cancelled = FALSE]
    /\ guild' = [guild EXCEPT !.pending = Decremented(@, <<worker.item>>)]
    /\ Only("guild")

\* The idle timeout, also when a part came too late for it: _disconnect_idle,
\* which may leave the channel or stay.
IdleTimeout ==
    /\ Continues("idle") /\ Goes("idle", "leaving") /\ Only("worker")
IdleEnds ==
    /\ Continues("leaving")
    /\ Goes("leaving", "ending") \/ Goes("leaving", "top")
    /\ Only("worker")

\* An item of another generation is passed over.  Mutant: it is not.
AnyGeneration == TRUE
SameGeneration == worker.item.gen = worker.gen /\ guild.generation = worker.gen
Accepts ==
    /\ worker.at = "got"
    /\ IF SameGeneration
       THEN Goes("got", "checking") /\ UNCHANGED fate
       ELSE Goes("got", "finishing") /\ fate' = Settle(fate, {worker.item}, "cleared")
    /\ Only("fate")

\* The channel belongs to another voice bot.
Blocked ==
    /\ Continues("checking") /\ Goes("checking", "finishing")
    /\ fate' = Settle(fate, {worker.item}, "done")
    /\ Only("fate")

\* The music agent takes the speech; audio prepared ahead is no use to it.
RouteAgent ==
    /\ Continues("checking")
    /\ \/ worker.audio = "none" /\ worker' = [worker EXCEPT !.at = "handing", !.route = "agent"]
       \/ /\ worker.audio = "ahead"
          /\ \E at \in {"routing", "handing"} : \* still being made, or made
                worker' = [worker EXCEPT !.at = at, !.route = "agent", !.audio = "spent"]
    /\ Only("worker")

\* The wait for the cancelled audio swallows whatever ends it.
Routed ==
    /\ worker.at = "routing"
    /\ worker' = [worker EXCEPT !.at = "handing", !.cancelled = FALSE]
    /\ Only("worker")

\* _try_worker_voice_direct_tts, for an item without audio.
RouteDirect ==
    /\ Continues("checking") /\ worker.audio = "none"
    /\ worker' = [worker EXCEPT !.at = "handing", !.route = "direct"]
    /\ Only("worker")

\* The remote player is asked to speak.
HandOver ==
    /\ Continues("handing")
    /\ worker' = [worker EXCEPT !.at = "remote", !.remote = TRUE]
    /\ fate' = Settle(fate, {worker.item}, "done")
    /\ Only("fate")

RemoteEnds ==
    /\ Continues("remote")
    /\ worker' = [worker EXCEPT !.at = "finishing", !.remote = FALSE]
    /\ Only("worker")

\* The agent failed, with its music playing: the item is given up.
RemoteGivesUp ==
    /\ worker.at \in {"handing", "remote"} /\ ~worker.cancelled /\ worker.route = "agent"
    /\ worker' = [worker EXCEPT !.at = "finishing"]
    /\ fate' = Settle(fate, {worker.item}, "done")
    /\ Only("fate")

\* The agent failed, or the worker's own player: the next way is tried.
RemoteFallsBack ==
    /\ worker.at \in {"handing", "remote"} /\ ~worker.cancelled
    /\ worker.route = "agent" /\ worker.audio = "none"
    /\ worker' = [worker EXCEPT !.at = "handing", !.route = "direct"]
    /\ Only("worker")

\* The local way: the connection and the audio are started together, and the
\* next item is taken from the queue, now or by a task that waits for it.  After
\* a route that failed the audio may be one it has spent.
SpeakLocally ==
    /\ ~worker.cancelled
    /\ worker.at \in {"checking", "handing", "remote"}
    /\ IF guild.queue # <<>>
       THEN /\ worker' = [worker EXCEPT !.at = "connecting", !.route = "local",
                                        !.ahead = Head(guild.queue)]
            /\ guild' = Taken
       ELSE /\ worker' = [worker EXCEPT !.at = "connecting", !.route = "local", !.watching = TRUE]
            /\ UNCHANGED guild
    /\ Only("guild")

\* _wait_and_prefetch_next.
Arrival ==
    /\ Suspended /\ worker.watching /\ guild.queue # <<>>
    /\ worker' = [worker EXCEPT !.watching = FALSE, !.arrived = Head(guild.queue)]
    /\ guild' = Taken
    /\ Only("guild")

Connected == Continues("connecting") /\ Goes("connecting", "resolving") /\ Only("worker")

\* No connection: the audio being made is abandoned, and that wait swallows
\* whatever ends it.
NotConnected ==
    /\ Continues("connecting") /\ Goes("connecting", "abandoning")
    /\ fate' = Settle(fate, {worker.item}, "done")
    /\ Only("fate")
Abandoned ==
    /\ worker.at = "abandoning"
    /\ worker' = [worker EXCEPT !.at = "finishing", !.cancelled = FALSE]
    /\ Only("worker")

\* The audio is ready: it is played if no clear came meanwhile.
Resolved ==
    /\ Continues("resolving") /\ worker.audio # "spent"
    /\ IF guild.generation = worker.gen /\ guild.accepting
       THEN Goes("resolving", "starting") /\ UNCHANGED fate
       ELSE Goes("resolving", "finishing") /\ fate' = Settle(fate, {worker.item}, "cleared")
    /\ Only("fate")

\* No audio: the synthesis failed or its file is gone.  Audio a route has spent
\* was cancelled, and its CancelledError leaves the loop.
Unresolved ==
    /\ Continues("resolving")
    /\ \E raised \in {FALSE, worker.audio = "spent"} :
          worker' = [worker EXCEPT !.at = "finishing", !.raising = raised]
    /\ fate' = Settle(fate, {worker.item}, "done")
    /\ Only("fate")

\* _play_file: the wait for the playback lock and a playable connection, then the
\* playing; _play_file_with_recovery tries it twice, unless music plays or the
\* audio was a stream.
Plays ==
    /\ Continues("starting") /\ Goes("starting", "playing")
    /\ fate' = Settle(fate, {worker.item}, "done")
    /\ Only("fate")
PlayFails ==
    /\ worker.at \in {"starting", "playing"} /\ ~worker.cancelled
    /\ \/ worker' = [worker EXCEPT !.at = "finishing"] /\ fate' = Settle(fate, {worker.item}, "done")
       \/ /\ ~worker.retried
          /\ worker' = [worker EXCEPT !.at = "starting", !.retried = TRUE] /\ UNCHANGED fate
    /\ Only("fate")
Played == Continues("playing") /\ Goes("playing", "finishing") /\ Only("worker")

\* The end of an item's finally clauses: the arrival task is stopped, and what it
\* took is the item prepared ahead.  Mutant: it is forgotten.
LoopedForgetful(w) ==
    [w EXCEPT !.at = IF w.raising THEN "ending" ELSE "top", !.arrived = NoItem,
              !.item = NoItem, !.audio = "none", !.route = "local", !.retried = FALSE]
Looped(w) ==
    [w EXCEPT !.at = IF w.raising THEN "ending" ELSE "top",
              !.item = NoItem, !.audio = "none", !.route = "local", !.retried = FALSE,
              !.ahead = IF w.arrived = NoItem THEN @ ELSE w.arrived, !.arrived = NoItem]
Released(w) ==
    IF w.watching THEN [w EXCEPT !.at = "unwatching", !.watching = FALSE] ELSE Looped(w)

Finish ==
    /\ worker.at = "finishing"
    /\ fate' = Settle(fate, {worker.item}, "cleared")
    /\ worker' = IF worker.remote THEN [worker EXCEPT !.at = "releasing"] ELSE Released(worker)
    /\ Only("fate")

\* _cancel_remote_tts_request.
RemoteReleased ==
    /\ Continues("releasing")
    /\ worker' = Released([worker EXCEPT !.remote = FALSE])
    /\ Only("worker")

\* The wait for the cancelled arrival task swallows whatever ends it.
Unwatched ==
    /\ worker.at = "unwatching"
    /\ worker' = Looped([worker EXCEPT !.cancelled = FALSE])
    /\ Only("worker")

\* The end of the task: the prepared audio is cancelled, and a guild with an empty
\* queue loses its state (_cleanup_guild_state_if_idle).  A task cancelled before
\* its first step or while it ends does neither.
Ending ==
    /\ worker.at = "ending" /\ worker.ahead # NoItem
    /\ Goes("ending", "closing") /\ Only("worker")
Ends ==
    LET tidy == worker.at # "created" /\ ~worker.cancelled
        gone == tidy /\ guild.queue = <<>>
    IN  /\ \/ worker.at = "ending" /\ worker.ahead = NoItem
           \/ worker.at = "closing"
           \/ worker.at = "created" /\ worker.cancelled
        /\ worker' = NoWorker
        /\ guild' = IF gone THEN NewState ELSE guild
        /\ clearing' = [c \in Clears |-> IF clearing[c] # "waiting" THEN clearing[c]
                                         ELSE IF gone THEN "detached" ELSE "woken"]
        /\ fate' = Settle(fate, InHand, "cleared")
        /\ UNCHANGED <<sent, toggles>> /\ Leaves

WorkerStep ==
    \/ Cancelled \/ Top \/ Starts \/ Discarded \/ Fetch \/ Resumed \/ IdleTimeout \/ IdleEnds
    \/ Accepts \/ Blocked \/ RouteAgent \/ Routed \/ RouteDirect \/ HandOver \/ RemoteEnds
    \/ RemoteGivesUp \/ RemoteFallsBack \/ SpeakLocally \/ Connected \/ NotConnected
    \/ Abandoned \/ Resolved \/ Unresolved \/ Plays \/ PlayFails \/ Played \/ Finish
    \/ RemoteReleased \/ Unwatched \/ Ending \/ Ends

Next ==
    \/ \E group \in Groups : Message(group)
    \/ Toggle
    \/ \E c \in Clears : Clear(c) \/ ClearEnds(c)
    \/ WorkerStep \/ Arrival

Spec == Init /\ [][Next]_vars

\* Every await of the worker ends: the waits are bounded by timeouts or end with
\* the task they cancelled.  The event loop runs what is ready in its turn, as
\* often as the worker's steps come between.
FairSpec ==
    /\ Spec
    /\ WF_vars(WorkerStep) /\ SF_vars(Arrival)
    /\ \A c \in Clears : SF_vars(ClearEnds(c))

(***************************************************************************)
(* Properties                                                              *)
(***************************************************************************)
Speaking == {"remote", "playing"}
StartsSpeaking == worker.at # worker'.at /\ worker'.at \in Speaking

\* No message is heard that a clear of the queue has thrown away: when the
\* worker hands a part to a player, no clear came after the part was accepted.
NoStaleSpeech ==
    [][StartsSpeaking => worker'.item.gen = guild'.generation]_vars

\* The same, but for the parts whose audio was ready or being made when the music
\* agent took them over.
NoStaleLocalSpeech ==
    [][StartsSpeaking /\ worker'.audio # "spent" => worker'.item.gen = guild'.generation]_vars

\* Parts are heard in the order they were accepted: when one begins, every
\* accepted part before it has been heard, or will never be, whether it was
\* taken from the queue, prepared ahead or taken by the arrival task.
SpokenInOrder ==
    [][StartsSpeaking =>
         \A p \in Part :
            \/ p[1] > worker'.item.msg
            \/ p[1] = worker'.item.msg /\ p[2] >= worker'.item.part
            \/ fate[p] # "waiting"]_vars

\* A message is refused as a duplicate only while its text waits to be spoken: a
\* text is not counted as pending more often than it is in the queue, a part
\* whose fetch has not been booked yet included.
DuplicatesWait ==
    /\ TypeOK
    /\ \A t \in Texts :
          guild.pending[t] <= Count(guild.queue, t)
                              + (IF worker.at = "fetched" /\ worker.item.text = t THEN 1 ELSE 0)

\* A message is evicted whole: none of its parts waits in the queue after an
\* earlier one was evicted.
WholeMessages ==
    \A k \in DOMAIN guild.queue : \A earlier \in 1..guild.queue[k].part :
       fate[<<guild.queue[k].msg, earlier>>] # "evicted"

\* A part accepted after a clear is not thrown away by it, whatever the worker had
\* at hand when it was cancelled: what is discarded was accepted in an earlier
\* generation, or speech was switched off.  The exceptions are clears that overlap,
\* when the end of one lets messages in while another still waits for the worker,
\* and a worker that ends by the exception of audio a failed route had cancelled,
\* which throws away what it had prepared although no clear came.
Overlapping == guild.accepting /\ \E c \in Clears : clearing[c] = "waiting"
Strayed == worker.raising /\ worker.gen = guild.generation
ClearsOnlyOlder ==
    [][\A i \in InHand \cup ElementsOf(guild.queue) :
         fate[<<i.msg, i.part>>] = "waiting" /\ fate'[<<i.msg, i.part>>] = "cleared"
         => i.gen < Max({guild.generation, guild'.generation})
            \/ ~guild'.enabled \/ worker.at = "discarding" \/ Overlapping \/ Strayed]_vars

\* Every accepted part is heard, fails, is evicted or is cleared, but for the parts
\* that waited in the queue of a worker on its way out (`left`): these stay until
\* the next message, or the worker that stays after all, and then settle too.  No
\* other part stays in the queue without a worker that comes to it, and none at
\* hand.  And every clear ends: its caller does not wait for the worker for ever.
EverythingSettles ==
    /\ []<>(\A p \in Part : fate[p] = "waiting" => p \in left)
    /\ []<>(\A c \in Clears : clearing[c] \in {"idle", "done"})
=============================================================================
