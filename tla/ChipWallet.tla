----------------------------- MODULE ChipWallet -----------------------------
(***************************************************************************)
(* The chips of users as the bot keeps them: a cached document per user    *)
(* that every handler changes (db.py), and the stored one it is saved to   *)
(* whole.  A handler reads and writes the cache without an await between,  *)
(* then waits for its save; entries, prizes and bonuses hold the user's    *)
(* economy lock meanwhile (cogs/games/services/base.py), the others - the  *)
(* history of an entry, the daily bonus, the consent to a debt, the stamp  *)
(* of a recharge - do not.  Saves that are under way together land in any  *)
(* order.                                                                  *)
(***************************************************************************)
EXTENDS ChipBalance

CONSTANTS Users,
          Handlers,        \* handlers that may change a balance at once
          Amounts,         \* entry costs and prizes
          DailyChips, DailyBonus, RechargeBonus,
          Threshold,       \* CHIPS_RECHARGE_THRESHOLD
          StartDocs,       \* the documents a run of the bot may start from
          MaxWorth,        \* bound: no credit takes a user beyond it
          MaxRecharges,    \* bound: recharges of a user
          NoHandler, NoUser

\* "claimed" is today's daily key and "recharged" a recharge that cools down;
\* "dailies" and "recharges" count what the balance holds of each.
Doc == [chips: Int, bonus: Nat, authorized: BOOLEAN, claimed: BOOLEAN,
        recharged: BOOLEAN, dailies: Nat, recharges: Nat]

ASSUME AmountsAssumption == Amounts \subseteq Nat
ASSUME GrantsAssumption == DailyChips \in Nat /\ DailyBonus \in Nat /\ RechargeBonus \in Nat
ASSUME StartAssumption ==
    StartDocs \subseteq {d \in Doc : /\ d.chips < 0 => d.authorized
                                   /\ d.dailies <= 1 /\ (~d.claimed => d.dailies = 0)}
ASSUME NoneAssumption == NoHandler \notin Handlers /\ NoUser \notin Users

VARIABLES cache,    \* user_cache
          store,    \* the collection
          holder,   \* the handler that holds a user's economy lock
          saving    \* the save each handler waits for
vars == <<cache, store, holder, saving>>

\* A save under way, and what the handler does when it has landed.
Save == [lock: {"none", "waiting", "held", "free"}, user: Users \cup {NoUser}, doc: Doc,
         next: {"end", "history", "stamp"}]

TypeOK ==
    /\ cache \in [Users -> Doc]
    /\ store \in [Users -> Doc]
    /\ holder \in [Users -> Handlers \cup {NoHandler}]
    /\ saving \in [Handlers -> Save]

NoDoc == [chips |-> 0, bonus |-> 0, authorized |-> FALSE, claimed |-> FALSE,
          recharged |-> FALSE, dailies |-> 0, recharges |-> 0]
NoSave == [lock |-> "none", user |-> NoUser, doc |-> NoDoc, next |-> "end"]

Init ==
    /\ cache \in [Users -> StartDocs]
    /\ store = cache
    /\ holder = [u \in Users |-> NoHandler]
    /\ saving = [h \in Handlers |-> NoSave]

Idle(h) == saving[h].lock = "none"

\* The economy lock is taken, the cache is changed and the save begins.
SaveLocked(h, u, doc, next) ==
    /\ holder[u] = NoHandler
    /\ holder' = [holder EXCEPT ![u] = h]
    /\ cache' = [cache EXCEPT ![u] = doc]
    /\ saving' = [saving EXCEPT ![h] = [lock |-> "held", user |-> u, doc |-> doc,
                                        next |-> next]]
    /\ UNCHANGED store

SaveUnlocked(h, u, doc) ==
    /\ Idle(h)
    /\ cache' = [cache EXCEPT ![u] = doc]
    /\ saving' = [saving EXCEPT ![h] = [lock |-> "free", user |-> u, doc |-> doc,
                                        next |-> "end"]]
    /\ UNCHANGED <<store, holder>>

MayConsume(b, n) == ~NeedsConfirmation(b, n) /\ WithinDebtLimit(b, n)

\* _try_consume_chips: an entry is charged, or nothing happens.
TryConsume(h, u, n) ==
    /\ Idle(h)
    /\ MayConsume(cache[u], n)
    /\ SaveLocked(h, u, Spent(cache[u], n), "history")

\* _change_user_chips with a prize or a refund.
Prize(h, u, n) ==
    /\ Idle(h)
    /\ Worth(cache[u]) + n <= MaxWorth
    /\ SaveLocked(h, u, Gained(cache[u], n), "history")

\* _try_use_chip_recharge: the cooldown is looked at first...
AskRecharge(h, u) ==
    /\ Idle(h)
    /\ cache[u].chips <= Threshold
    /\ ~cache[u].recharged
    /\ cache[u].recharges < MaxRecharges
    /\ saving' = [saving EXCEPT ![h] = [NoSave EXCEPT !.lock = "waiting", !.user = u]]
    /\ UNCHANGED <<cache, store, holder>>

\* ... the bonus is given under the lock, and the cooldown is stamped once that
\* is saved.
Recharge(h) ==
    LET u == saving[h].user
    IN  /\ saving[h].lock = "waiting"
        /\ Worth(cache[u]) + RechargeBonus <= MaxWorth
        /\ SaveLocked(h, u,
                      [GainedBonus(cache[u], RechargeBonus) EXCEPT !.recharges = @ + 1],
                      "stamp")

\* Mutant: today's key is not written with the bonus.
WithDailyUnmarked(d) ==
    [GainedBonus(Gained(d, DailyChips), DailyBonus) EXCEPT !.dailies = @ + 1]
WithDaily(d) ==
    [GainedBonus(Gained(d, DailyChips), DailyBonus) EXCEPT !.claimed = TRUE,
                                                           !.dailies = @ + 1]

\* claim_daily_bonus: once a day, without the economy lock.
ClaimDaily(h, u) ==
    /\ ~cache[u].claimed
    /\ Worth(cache[u]) + DailyChips + DailyBonus <= MaxWorth
    /\ SaveUnlocked(h, u, WithDaily(cache[u]))

\* The user pressed Continue for a cost that still needs it.
Confirm(h, u, n) ==
    /\ NeedsConfirmation(cache[u], n)
    /\ SaveUnlocked(h, u, [cache[u] EXCEPT !.authorized = TRUE])

\* A save under the lock has landed: the lock is given back, and the handler
\* goes on with a save of the document as it is now.
LockedSaveLands(h) ==
    LET u == saving[h].user
        stamped == IF saving[h].next = "stamp"
                     THEN [cache[u] EXCEPT !.recharged = TRUE] ELSE cache[u]
    IN  /\ saving[h].lock = "held"
        /\ store' = [store EXCEPT ![u] = saving[h].doc]
        /\ holder' = [holder EXCEPT ![u] = NoHandler]
        /\ cache' = [cache EXCEPT ![u] = stamped]
        /\ saving' = [saving EXCEPT ![h] =
                        IF saving[h].next = "end" THEN NoSave
                        ELSE [lock |-> "free", user |-> u, doc |-> stamped,
                              next |-> "end"]]

UnlockedSaveLands(h) ==
    /\ saving[h].lock = "free"
    /\ store' = [store EXCEPT ![saving[h].user] = saving[h].doc]
    /\ saving' = [saving EXCEPT ![h] = NoSave]
    /\ UNCHANGED <<cache, holder>>

\* The process stops and starts: load_cache reads the collection, and the saves
\* that had not landed are lost.
Restart ==
    /\ cache' = store
    /\ holder' = [u \in Users |-> NoHandler]
    /\ saving' = [h \in Handlers |-> NoSave]
    /\ UNCHANGED store

SaveLands(h) == LockedSaveLands(h) \/ UnlockedSaveLands(h)

Next ==
    \/ \E h \in Handlers, u \in Users :
          \/ \E n \in Amounts : TryConsume(h, u, n) \/ Prize(h, u, n) \/ Confirm(h, u, n)
          \/ AskRecharge(h, u) \/ ClaimDaily(h, u)
    \/ \E h \in Handlers : Recharge(h) \/ SaveLands(h)
    \/ Restart

Spec == Init /\ [][Next]_vars
-----------------------------------------------------------------------------
\* Nobody owes chips without having agreed to: neither as the bot sees it nor
\* as a restart would find it, whatever else changes the balance meanwhile.
DebtWasAuthorized ==
    \A u \in Users : \A d \in {cache[u], store[u]} : d.chips < 0 => d.authorized

\* A day's bonus is in a balance at most once, a restart or not.
DailyOnce == \A u \in Users : cache[u].dailies <= 1
=============================================================================
