------------------------------ MODULE Robbery ------------------------------
(***************************************************************************)
(* Ordinary robberies between users and the two race skills that give one  *)
(* back, Change Fate and 0to1 (cogs/games/services/base.py).  Each copies  *)
(* the documents of two users under both economy locks, taken in the order *)
(* of the ids, and saves them one after the other; if a save raises, both  *)
(* are put back.  The history rows are written afterwards, without a lock, *)
(* and so is the daily bonus (claim_daily_bonus), which may come meanwhile.*)
(* 0to1 finds a robbery through its row, Change Fate through the list in   *)
(* the victim's document, of which only the newest are kept.               *)
(*                                                                         *)
(* A robbery's id stands for its time as well.  Each lock is a step of its *)
(* own: the wait for one may come between any two.                         *)
(***************************************************************************)
EXTENDS Integers, Sequences, FiniteSets, FiniteSetsExt, SequencesExt

CONSTANTS Users,         \* ids
          Lucky, Glitched,  \* those whose race may give Change Fate, 0to1
          Handlers,      \* commands under way at a time
          Amounts,       \* what a robbery takes
          StartDocs,     \* each user's document at the start
          Before,        \* robberies before the start
          Keep,          \* robberies kept in a document (10)
          Limit,         \* RACE_SKILL_0TO1_LIMIT
          Fine,          \* what Change Fate costs the thief besides (10)
          DailyChips,
          MaxRobberies, MaxDay, MaxFaults,   \* bounds
          NoHandler

ASSUME UsersAssumption == IsFiniteSet(Users) /\ Users \subseteq Nat \ {0}
ASSUME HandlersAssumption == IsFiniteSet(Handlers) /\ NoHandler \notin Handlers
ASSUME ChipsAssumption == Amounts \subseteq Nat \ {0} /\ {Limit, Fine, DailyChips} \subseteq Nat
ASSUME BoundsAssumption ==
    /\ Keep \in Nat \ {0}
    /\ MaxRobberies \in Nat /\ MaxDay \in Nat \ {0} /\ MaxFaults \in Nat
    /\ Before \in 0..MaxRobberies

Ids == 1..MaxRobberies
NoUser == 0
NoRobbery == [id |-> 0, thief |-> NoUser, normal |-> 0, bonus |-> 0, resolved |-> FALSE]
RobberyOf == [id: Ids, thief: Users, normal: Nat, bonus: Nat, resolved: BOOLEAN]

\* A user's document: the robberies suffered, their rows in the history, the time
\* up to which 0to1 has used the history, the day of the last Change Fate.
\* "back" counts what the document got back of each robbery.
Doc == [chips: Int, bonus: Nat, robberies: Seq(RobberyOf), rows: Seq(RobberyOf),
        cutoff: Ids \cup {0}, fate: 0..MaxDay, claimed: BOOLEAN, back: [Ids -> Nat]]

\* Nobody has robbed oneself: a robbery of the thief is refused.
FromOthers(u, doc) == \A r \in ToSet(doc.robberies) \cup ToSet(doc.rows) : r.thief # u

\* A robbery is given back at most once, and marked in the list exactly then.
GivenBack(doc) ==
    /\ \A id \in Ids : doc.back[id] <= 1
    /\ \A r \in ToSet(doc.robberies) : r.resolved <=> doc.back[r.id] = 1

\* The robberies a document tells of, and those 0to1 will not look for.
Recorded(doc) ==
    {r.id : r \in ToSet(doc.robberies) \cup ToSet(doc.rows)} \cup {id \in Ids : doc.back[id] # 0}
UsedUp(doc) == \A id \in Ids : doc.back[id] # 0 => id <= doc.cutoff

\* The documents are as the program left them before.
ASSUME StartAssumption ==
    /\ StartDocs \in [Users -> Doc]
    /\ \A u \in Users : /\ FromOthers(u, StartDocs[u]) /\ GivenBack(StartDocs[u])
                        /\ Recorded(StartDocs[u]) \subseteq 1..Before /\ UsedUp(StartDocs[u])

NoDoc == [chips |-> 0, bonus |-> 0, robberies |-> <<>>, rows |-> <<>>, cutoff |-> 0,
          fate |-> 0, claimed |-> FALSE, back |-> [i \in Ids |-> 0]]

SaveOf == [user: Users, doc: Doc]
NoteOf == [user: Users, row: RobberyOf \cup {NoRobbery}]

\* A command: the locks it still waits for, the saves it still makes (the first is
\* under way), those that would undo it, the rows to be noted after it, and by how
\* much it changes the chips there are.
Work == [at: {"idle", "locking", "saving", "undoing", "noting"},
         kind: {"none", "rob", "0to1", "fate", "golden", "claim"},
         user: Users \cup {NoUser}, other: Users \cup {NoUser},
         id: Ids \cup {0}, amount: Nat, want: Seq(Users), saves: Seq(SaveOf),
         undo: Seq(SaveOf), notes: Seq(NoteOf), minted: Int]
NoWork == [at |-> "idle", kind |-> "none", user |-> NoUser, other |-> NoUser, id |-> 0,
           amount |-> 0, want |-> <<>>, saves |-> <<>>, undo |-> <<>>, notes |-> <<>>,
           minted |-> 0]

VARIABLES cache, store,    \* user_cache and the collection
          economy,         \* _chip_economy_locks: the handler that holds each
          progress,        \* _race_progress_locks
          work,            \* what each handler is at
          day, robberies,  \* today; robberies begun
          failures,        \* saves that raised
          minted,          \* chips given or fined, but not moved between users
          crashed
vars == <<cache, store, economy, progress, work, day, robberies, failures, minted, crashed>>

TypeOK ==
    /\ cache \in [Users -> Doc] /\ store \in [Users -> Doc]
    /\ economy \in [Users -> Handlers \cup {NoHandler}]
    /\ progress \in [Users -> Handlers \cup {NoHandler}]
    /\ work \in [Handlers -> Work]
    /\ day \in 1..MaxDay /\ robberies \in 0..MaxRobberies /\ failures \in 0..MaxFaults
    /\ minted \in Int /\ crashed \in BOOLEAN

Init ==
    /\ cache = StartDocs /\ store = StartDocs
    /\ economy = [u \in Users |-> NoHandler] /\ progress = economy
    /\ work = [h \in Handlers |-> NoWork]
    /\ day = 1 /\ robberies = Before /\ failures = 0 /\ minted = 0 /\ crashed = FALSE

\* Saves that raised and the restart, which the bound counts together.
Faults == failures + (IF crashed THEN 1 ELSE 0)

(***************************************************************************)
(* Locks                                                                   *)
(***************************************************************************)
\* Mutant: in the order in which the command names the users.
AsNamed(a, b) == <<a, b>>
Ordered(a, b) == IF a < b THEN <<a, b>> ELSE <<b, a>>

Freed(locks, h) == [u \in Users |-> IF locks[u] = h THEN NoHandler ELSE locks[u]]
Releases(h) == economy' = Freed(economy, h) /\ progress' = Freed(progress, h)

Ends(h) == Releases(h) /\ work' = [work EXCEPT ![h] = NoWork]

\* A command that waits for the locks it wants.
Asking(kind, user, other, id, n, want) ==
    [at |-> "locking", kind |-> kind, user |-> user, other |-> other, id |-> id,
     amount |-> n, want |-> want, saves |-> <<>>, undo |-> <<>>, notes |-> <<>>, minted |-> 0]
Asks(h, w) == work' = [work EXCEPT ![h] = w]

TakesLock(h) ==
    /\ work[h].at = "locking" /\ Len(work[h].want) > 1
    /\ economy[Head(work[h].want)] = NoHandler
    /\ economy' = [economy EXCEPT ![Head(work[h].want)] = h]
    /\ work' = [work EXCEPT ![h].want = Tail(@)]
    /\ UNCHANGED <<cache, store, progress, day, robberies, failures, minted, crashed>>

\* The last lock is taken, and the command goes on without an await.
LastLock(h) ==
    /\ work[h].at = "locking" /\ Len(work[h].want) = 1
    /\ economy[work[h].want[1]] = NoHandler

(***************************************************************************)
(* Saving two documents, or putting them back                              *)
(***************************************************************************)
Pair(a, docA, b, docB) == <<[user |-> a, doc |-> docA], [user |-> b, doc |-> docB]>>

\* The first document is in the cache at once; the others follow as the saves land.
Saves(h, saves, undo, notes, mints) ==
    /\ cache' = [cache EXCEPT ![saves[1].user] = saves[1].doc]
    /\ economy' = [economy EXCEPT ![work[h].want[1]] = h]
    /\ work' = [work EXCEPT ![h].at = "saving", ![h].want = <<>>, ![h].saves = saves,
                            ![h].undo = undo, ![h].notes = notes, ![h].minted = mints]
    /\ UNCHANGED <<store, progress, day, robberies, failures, minted, crashed>>

Noted(doc, row) == IF row = NoRobbery THEN doc ELSE [doc EXCEPT !.rows = Append(@, row)]

\* A command that saves a document without a lock, and has rows to note after it.
Noting(kind, u, doc, notes) ==
    [NoWork EXCEPT !.at = "noting", !.kind = kind,
                   !.saves = <<[user |-> u, doc |-> doc]>>, !.notes = notes]

\* append_chip_history reads, changes and begins to save the document as it is now.
NotesNext(h, notes) ==
    IF notes = <<>>
      THEN work' = [work EXCEPT ![h] = NoWork] /\ UNCHANGED cache
      ELSE LET u == notes[1].user
               doc == Noted(cache[u], notes[1].row)
           IN  /\ cache' = [cache EXCEPT ![u] = doc]
               /\ work' = [work EXCEPT ![h] = Noting(work[h].kind, u, doc, Tail(notes))]

Goes(h, saves) ==
    /\ cache' = [cache EXCEPT ![saves[1].user] = saves[1].doc]
    /\ work' = [work EXCEPT ![h].saves = saves]
    /\ UNCHANGED <<economy, progress, minted>>

Stored(h) == [store EXCEPT ![work[h].saves[1].user] = work[h].saves[1].doc]

SaveLands(h) ==
    LET w == work[h]
    IN  /\ w.at \in {"saving", "undoing", "noting"}
        /\ store' = Stored(h)
        /\ \/ Len(w.saves) > 1 /\ Goes(h, Tail(w.saves))
           \/ /\ Len(w.saves) = 1 /\ w.at # "undoing"
              /\ Releases(h) /\ minted' = minted + w.minted
              /\ NotesNext(h, w.notes)
           \/ /\ Len(w.saves) = 1 /\ w.at = "undoing"
              /\ Ends(h) /\ UNCHANGED <<cache, minted>>
        /\ UNCHANGED <<day, robberies, failures, crashed>>

\* Mutant: only the document whose save raised is put back.
UndoneHalf(w) == SelectSeq(w.undo, LAMBDA s : s.user = w.saves[1].user)
Undone(w) == w.undo

\* A save raises, whether or not it reached the collection.
SaveFails(h) ==
    LET w == work[h]
    IN  /\ w.at \in {"saving", "undoing", "noting"} /\ Faults < MaxFaults
        /\ failures' = failures + 1
        /\ store' \in {store, Stored(h)}
        /\ \/ /\ w.at = "saving" /\ w.undo # <<>>
              /\ cache' = [cache EXCEPT ![Undone(w)[1].user] = Undone(w)[1].doc]
              /\ work' = [work EXCEPT ![h].at = "undoing", ![h].saves = Undone(w)]
              /\ UNCHANGED <<economy, progress>>
           \/ /\ \/ w.at = "undoing"
                 \/ w.undo = <<>> /\ (w.at = "saving" \/ w.kind = "rob")
              /\ Ends(h) /\ UNCHANGED cache
           \/ /\ w.at = "noting" /\ w.kind # "rob"      \* the other rows are still tried
              /\ NotesNext(h, w.notes) /\ UNCHANGED <<economy, progress>>
        /\ UNCHANGED <<day, robberies, minted, crashed>>

(***************************************************************************)
(* The robbery (_execute_ordinary_robbery_transfer)                        *)
(***************************************************************************)
\* The command has looked at the victim's chips before.
Rob(h, thief, victim, n) ==
    /\ work[h].at = "idle" /\ thief # victim /\ robberies < MaxRobberies
    /\ n <= cache[victim].chips
    /\ robberies' = robberies + 1
    /\ Asks(h, Asking("rob", thief, victim, robberies + 1, n, Ordered(thief, victim)))
    /\ UNCHANGED <<cache, store, economy, progress, day, failures, minted, crashed>>

\* The newest robberies only.
Kept(s) == IF Len(s) > Keep THEN SubSeq(s, Len(s) - Keep + 1, Len(s)) ELSE s

BonusTaken(doc, n) == Min({doc.bonus, n})

Robbed(doc, r) ==
    [doc EXCEPT !.bonus = @ - r.bonus, !.chips = @ - r.normal,
                !.robberies = Kept(Append(@, r))]

Robs(h) ==
    LET w == work[h]
        old == cache[w.other]
        bonus == BonusTaken(old, w.amount)
        r == [id |-> w.id, thief |-> w.user, normal |-> w.amount - bonus, bonus |-> bonus,
              resolved |-> FALSE]
        thief == cache[w.user]
    IN  /\ LastLock(h) /\ w.kind = "rob"
        /\ IF r.normal > Max({0, old.chips})
             THEN Ends(h) /\ UNCHANGED <<cache, store, day, robberies, failures, minted, crashed>>
             ELSE Saves(h, Pair(w.other, Robbed(old, r),
                                w.user, [thief EXCEPT !.chips = @ + w.amount]),
                        Pair(w.other, old, w.user, thief),
                        <<[user |-> w.other, row |-> r], [user |-> w.user, row |-> NoRobbery]>>, 0)

(***************************************************************************)
(* The skills that give it back                                            *)
(***************************************************************************)
Resolved(doc) == {r.id : r \in {r \in ToSet(doc.robberies) : r.resolved}}

\* _race_skill_0to1_entry: the last usable row.
Entry(doc) ==
    LET usable == {i \in DOMAIN doc.rows : /\ doc.rows[i].id > doc.cutoff
                                           /\ doc.rows[i].id \notin Resolved(doc)}
    IN  IF usable = {} THEN NoRobbery ELSE doc.rows[Max(usable)]

\* _recent_unresolved_robbery: the newest, unless all are older than a day.
Unresolved(doc) ==
    LET open == {i \in DOMAIN doc.robberies : ~doc.robberies[i].resolved}
    IN  IF open = {} THEN {NoRobbery} ELSE {NoRobbery, doc.robberies[Max(open)]}

\* The document tells whose wallet is needed.  A command begins here when it gets the
\* user's progress lock, having read nothing before; one with nothing to do ends.
Skill(h, u, w) ==
    /\ work[h].at = "idle" /\ progress[u] = NoHandler
    /\ progress' = [progress EXCEPT ![u] = h]
    /\ Asks(h, w)
    /\ UNCHANGED <<cache, store, economy, day, robberies, failures, minted, crashed>>

AskZeroToOne(h, u) ==
    LET thief == Entry(cache[u]).thief
    IN  /\ u \in Glitched /\ Entry(cache[u]) # NoRobbery
        /\ Skill(h, u, Asking("0to1", u, thief, 0, 0, Ordered(u, thief)))

AskChangeFate(h, u) ==
    /\ u \in Lucky /\ cache[u].fate # day
    /\ \E r \in Unresolved(cache[u]) :
          IF r = NoRobbery
            THEN Skill(h, u, Asking("golden", u, NoUser, 0, 0, <<u>>))
            ELSE Skill(h, u, Asking("fate", u, r.thief, r.id, 0, Ordered(u, r.thief)))

Marked(doc, id) ==
    [doc EXCEPT !.robberies = [i \in DOMAIN @ |-> IF @[i].id = id THEN [@[i] EXCEPT !.resolved = TRUE]
                                                  ELSE @[i]],
                !.back[id] = @ + 1]

Charged(doc, n) == [doc EXCEPT !.chips = @ - n]

SkillRows(u, other) == <<[user |-> u, row |-> NoRobbery], [user |-> other, row |-> NoRobbery]>>

\* 0to1 looks for its row again.  It charges the thief only if the thief's lock is
\* the one it has taken: the row may be of another robbery by now.
ZeroToOne(h) ==
    LET w == work[h]
        old == cache[w.user]
        r == Entry(old)
        n == Min({Limit, r.normal + r.bonus})
        doc == [Marked(old, r.id) EXCEPT !.chips = @ + n, !.cutoff = r.id]
    IN  /\ LastLock(h) /\ w.kind = "0to1"
        /\ IF r = NoRobbery
             THEN Ends(h) /\ UNCHANGED <<cache, store, day, robberies, failures, minted, crashed>>
             ELSE IF r.thief = w.other
             THEN Saves(h, Pair(w.user, doc, w.other, Charged(cache[w.other], n)),
                        Pair(w.user, old, w.other, cache[w.other]), SkillRows(w.user, w.other), 0)
             ELSE Saves(h, <<[user |-> w.user, doc |-> doc]>>, <<[user |-> w.user, doc |-> old]>>,
                        <<[user |-> w.user, row |-> NoRobbery]>>, n)

\* Mutant: the history keeps offering the robbery to 0to1.
CutoffKept(doc, id) == doc.cutoff
CutoffAfter(doc, id) == Max({doc.cutoff, id})

\* Change Fate: the robbery it found is still there, open, and the user's race and
\* the day's use have not changed.
ChangeFate(h) ==
    LET w == work[h]
        old == cache[w.user]
        thief == cache[w.other]
        open == {r \in ToSet(old.robberies) : r.id = w.id /\ ~r.resolved}
    IN  /\ LastLock(h) /\ w.kind = "fate"
        /\ \/ Ends(h) /\ UNCHANGED <<cache, store, day, robberies, failures, minted, crashed>>
           \/ /\ old.fate # day
              /\ \E r \in open :
                    LET n == r.normal + r.bonus
                        doc == [Marked(old, r.id) EXCEPT !.chips = @ + r.normal,
                                   !.bonus = @ + r.bonus, !.cutoff = CutoffAfter(old, r.id),
                                   !.fate = day]
                    IN  Saves(h, Pair(w.user, doc, w.other, Charged(thief, n + Fine)),
                              Pair(w.user, old, w.other, thief), SkillRows(w.user, w.other), -Fine)

\* Without a robbery Change Fate gives golden rounds: the day's use is noted.
Golden(h) ==
    LET u == work[h].user
    IN  /\ LastLock(h) /\ work[h].kind = "golden"
        /\ IF cache[u].fate = day
             THEN Ends(h) /\ UNCHANGED <<cache, store, day, robberies, failures, minted, crashed>>
             ELSE Saves(h, <<[user |-> u, doc |-> [cache[u] EXCEPT !.fate = day]]>>, <<>>, <<>>, 0)

(***************************************************************************)
(* Meanwhile                                                               *)
(***************************************************************************)
\* claim_daily_bonus, which does not lock.
Claim(h, u) ==
    LET doc == [cache[u] EXCEPT !.chips = @ + DailyChips, !.claimed = TRUE]
    IN  /\ work[h].at = "idle" /\ ~cache[u].claimed
        /\ cache' = [cache EXCEPT ![u] = doc]
        /\ work' = [work EXCEPT ![h] = Noting("claim", u, doc, <<>>)]
        /\ minted' = minted + DailyChips
        /\ UNCHANGED <<store, economy, progress, day, robberies, failures, crashed>>

NewDay ==
    /\ day < MaxDay /\ day' = day + 1
    /\ UNCHANGED <<cache, store, economy, progress, work, robberies, failures, minted, crashed>>

\* The process stops and starts, once: what was not saved is lost.
Restart ==
    /\ ~crashed /\ Faults < MaxFaults /\ crashed' = TRUE
    /\ cache' = store
    /\ economy' = [u \in Users |-> NoHandler] /\ progress' = [u \in Users |-> NoHandler]
    /\ work' = [h \in Handlers |-> NoWork]
    /\ UNCHANGED <<store, day, robberies, failures, minted>>

Acts(h) == Robs(h) \/ ZeroToOne(h) \/ ChangeFate(h) \/ Golden(h)

Next ==
    \/ \E h \in Handlers :
          \/ \E u \in Users :
                \/ \E v \in Users, n \in Amounts : Rob(h, u, v, n)
                \/ AskZeroToOne(h, u) \/ AskChangeFate(h, u) \/ Claim(h, u)
          \/ TakesLock(h) \/ Acts(h) \/ SaveLands(h) \/ SaveFails(h)
    \/ NewDay \/ Restart

Spec == Init /\ [][Next]_vars

(***************************************************************************)
(* Properties                                                              *)
(***************************************************************************)
\* A victim gets a robbery back at most once, by whichever skill, and it is marked
\* exactly then - although its row may be written after it was given back, the list
\* forgets it, a save may raise, the day changes and the process may restart.
GivenBackOnce ==
    /\ TypeOK
    /\ \A u \in Users : GivenBack(cache[u]) /\ GivenBack(store[u])

\* Chips move: what users hold together is what they held before, but for what was
\* granted and fined - or less, since a document that is put back or saved from its
\* copy may forget a bonus granted meanwhile.
Worth(doc) == doc.chips + doc.bonus
Total(docs) == SumFunctionOnSet([u \in Users |-> Worth(docs[u])], Users)
NoChipsFromNothing ==
    (~crashed /\ \A h \in Handlers : work[h].at \notin {"saving", "undoing"}) =>
       Total(cache) <= Total(StartDocs) + minted

\* Nobody waits for a lock in a circle of commands that hold what the others wait for,
\* nor for one of their own, whoever robs whom and whoever asks for what.
NoCircularWait ==
    ~\E S \in (SUBSET Handlers) \ {{}} : \A h \in S :
        work[h].at = "locking" /\ economy[Head(work[h].want)] \in S
=============================================================================
