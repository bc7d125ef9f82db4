--------------------------- MODULE DebtGate_proofs ---------------------------
(***************************************************************************)
(* The wallet and the debt gate over it, for any users, handlers, commands,*)
(* tasks and amounts.  The wallet: nobody owes chips without having agreed *)
(* to, and balances changed only under the economy lock are the stored     *)
(* ones once their saves have landed.  The gate: it changes the wallet     *)
(* only as the wallet allows, its owner waits for somebody who will        *)
(* answer, and a consent comes from the question shown last.               *)
(***************************************************************************)
EXTENDS DebtGate, TLAPS

Agreed(d) == d.chips < 0 => d.authorized
\* The day's bonus is in the balance at most once, and noted if it is.
Noted(d) == d.dailies <= 1 /\ (~d.claimed => d.dailies = 0)
Sound(d) == Agreed(d) /\ Noted(d)

-----------------------------------------------------------------------------
(* What each change of a document preserves. *)

\* An entry that needs no confirmation leaves nobody in debt without consent.
LEMMA SpentSound ==
    ASSUME NEW d \in Doc, NEW n \in Nat, Sound(d), MayConsume(d, n)
    PROVE  Spent(d, n) \in Doc /\ Sound(Spent(d, n))
<1>1. d.chips \in Int /\ d.bonus \in Nat
  BY DEF Doc
<1> DEFINE b == IF n <= d.bonus THEN d.bonus - n ELSE 0
           c == IF n <= d.bonus THEN d.chips ELSE d.chips - (n - d.bonus)
<1>2. b \in Nat /\ c \in Int /\ c <= d.chips
  BY <1>1
<1>3. Spent(d, n) = [d EXCEPT !.bonus = b, !.chips = c]
  BY DEF Spent
<1> HIDE DEF b, c
<1>4. Spent(d, n) \in Doc
  BY <1>2, <1>3 DEF Doc
<1>5. Spent(d, n).chips = c /\ Spent(d, n).authorized = d.authorized
  BY <1>3 DEF Doc
<1>6. ~d.authorized => ~(c < -MaxDebt) /\ ~(-MaxDebt <= c /\ c < 0 /\ c < d.chips)
  BY <1>1, <1>2, <1>5, MaxDebtAssumption DEF MayConsume, NeedsConfirmation, WithinDebtLimit
<1>7. ~d.authorized => ~(c < 0)
  BY <1>1, <1>2, <1>6, MaxDebtAssumption DEF Sound, Agreed
<1>8. Spent(d, n).claimed = d.claimed /\ Spent(d, n).dailies = d.dailies
  BY <1>3 DEF Doc
<1> QED
  BY <1>4, <1>5, <1>7, <1>8 DEF Sound, Agreed, Noted

\* A credit withdraws the consent to a debt only when the debt is paid.
LEMMA GainedSound ==
    ASSUME NEW d \in Doc, NEW n \in Nat, Sound(d)
    PROVE  Gained(d, n) \in Doc /\ Sound(Gained(d, n))
<1>1. d.chips \in Int
  BY DEF Doc
<1>2. d.authorized \in BOOLEAN
  BY DEF Doc
<1> DEFINE c == d.chips + n
           paid == d.chips < 0 /\ 0 <= d.chips + n
           a == IF paid THEN FALSE ELSE d.authorized
<1>3. c \in Int
  BY <1>1
<1>4. a \in BOOLEAN
  BY <1>2
<1>5. Gained(d, n) = [d EXCEPT !.chips = c, !.authorized = a]
  BY DEF Gained
<1>6. c < 0 => ~paid /\ d.chips < 0
  BY <1>1
<1> HIDE DEF c, paid
<1>7. ~paid => a = d.authorized
  OBVIOUS
<1> HIDE DEF a
<1>8. Gained(d, n) \in Doc
  BY <1>3, <1>4, <1>5 DEF Doc
<1>9. Gained(d, n).chips = c /\ Gained(d, n).authorized = a
  BY <1>5 DEF Doc
<1>10. Gained(d, n).claimed = d.claimed /\ Gained(d, n).dailies = d.dailies
  BY <1>5 DEF Doc
<1> QED
  BY <1>6, <1>7, <1>8, <1>9, <1>10 DEF Sound, Agreed, Noted

\* A bonus leaves the normal chips and the consent alone.
LEMMA GainedBonusSound ==
    ASSUME NEW d \in Doc, NEW n \in Nat, Sound(d)
    PROVE  GainedBonus(d, n) \in Doc /\ Sound(GainedBonus(d, n))
  BY DEF GainedBonus, Doc, Sound, Agreed, Noted

\* So does every other field a handler writes.
LEMMA MarkedSound ==
    ASSUME NEW d \in Doc, Sound(d)
    PROVE  /\ [d EXCEPT !.recharges = @ + 1] \in Doc
           /\ Sound([d EXCEPT !.recharges = @ + 1])
           /\ [d EXCEPT !.recharged = TRUE] \in Doc
           /\ Sound([d EXCEPT !.recharged = TRUE])
           /\ [d EXCEPT !.authorized = TRUE] \in Doc
           /\ Sound([d EXCEPT !.authorized = TRUE])
<1>1. /\ [d EXCEPT !.recharges = @ + 1] \in Doc
      /\ Sound([d EXCEPT !.recharges = @ + 1])
  BY DEF Doc, Sound, Agreed, Noted
<1>2. /\ [d EXCEPT !.recharged = TRUE] \in Doc
      /\ Sound([d EXCEPT !.recharged = TRUE])
  BY DEF Doc, Sound, Agreed, Noted
<1>3. [d EXCEPT !.authorized = TRUE] \in Doc
  BY DEF Doc
<1>4. [d EXCEPT !.authorized = TRUE].authorized = TRUE
  BY DEF Doc
<1> QED
  BY <1>1, <1>2, <1>3, <1>4 DEF Sound, Agreed, Noted

LEMMA WithDailySound ==
    ASSUME NEW d \in Doc, Sound(d), ~d.claimed
    PROVE  WithDaily(d) \in Doc /\ Sound(WithDaily(d))
<1> DEFINE g == Gained(d, DailyChips)
           e == GainedBonus(g, DailyBonus)
<1>0. g \in Doc /\ Sound(g) /\ g.claimed = d.claimed
  BY GrantsAssumption, GainedSound DEF Gained, Doc
<1> HIDE DEF g
<1>1. e \in Doc /\ Sound(e) /\ ~e.claimed
  BY <1>0, GrantsAssumption, GainedBonusSound DEF GainedBonus, Doc
<1>2. WithDaily(d) = [e EXCEPT !.claimed = TRUE, !.dailies = e.dailies + 1]
  BY DEF WithDaily, g
<1> HIDE DEF e
<1>3. e.dailies + 1 \in Nat /\ e.dailies + 1 <= 1
  BY <1>1 DEF Doc, Sound, Noted
<1> DEFINE n == e.dailies + 1
<1>4. n \in Nat /\ n <= 1 /\ WithDaily(d) = [e EXCEPT !.claimed = TRUE, !.dailies = n]
  BY <1>2, <1>3
<1> HIDE DEF n
<1>5. WithDaily(d) \in Doc
  BY <1>1, <1>4 DEF Doc
<1>6. WithDaily(d).chips = e.chips /\ WithDaily(d).authorized = e.authorized
  BY <1>1, <1>4 DEF Doc
<1>7. WithDaily(d).claimed = TRUE /\ WithDaily(d).dailies = n
  BY <1>1, <1>4 DEF Doc
<1> QED
  BY <1>1, <1>4, <1>5, <1>6, <1>7 DEF Sound, Agreed, Noted

-----------------------------------------------------------------------------
(* Documents on their way: every copy of a user's document is sound.    *)

AllSound ==
    /\ \A u \in Users : Sound(cache[u]) /\ Sound(store[u])
    /\ \A h \in Handlers : Sound(saving[h].doc)

\* The users a save is for; an idle handler's save is for nobody.
SavesHaveUsers ==
    \A h \in Handlers : saving[h].lock # "none" => saving[h].user \in Users

DocsInv == TypeOK /\ SavesHaveUsers /\ AllSound

LEMMA NoSaveTyped == NoSave \in Save /\ Sound(NoSave.doc) /\ NoSave.lock = "none"
<1>1. NoDoc \in Doc /\ NoDoc.chips = 0 /\ NoDoc.dailies = 0
  BY DEF NoDoc, Doc
<1>2. NoSave \in Save /\ NoSave.doc = NoDoc /\ NoSave.lock = "none"
  BY <1>1 DEF NoSave, Save
<1> QED
  BY <1>1, <1>2 DEF Sound, Agreed, Noted

\* A handler that saves an sound document, under the lock or not, keeps every
\* copy sound.
LEMMA SaveKeepsDocs ==
    ASSUME DocsInv, NEW h \in Handlers, NEW u \in Users, NEW d \in Doc, Sound(d),
           NEW s \in Save, s.doc = d, s.user = u,
           cache' = [cache EXCEPT ![u] = d],
           saving' = [saving EXCEPT ![h] = s],
           store' = store,
           holder' \in [Users -> Handlers \cup {NoHandler}]
    PROVE  DocsInv'
<1>1. TypeOK'
  BY DEF DocsInv, TypeOK
<1>2. SavesHaveUsers'
  BY DEF DocsInv, TypeOK, SavesHaveUsers
<1>3. AllSound'
  BY DEF DocsInv, TypeOK, AllSound
<1> QED
  BY <1>1, <1>2, <1>3 DEF DocsInv

LEMMA SaveLockedKeepsDocs ==
    ASSUME DocsInv, NEW h \in Handlers, NEW u \in Users, NEW d \in Doc, Sound(d),
           NEW next \in {"end", "history", "stamp"}, SaveLocked(h, u, d, next)
    PROVE  DocsInv'
<1> DEFINE s == [lock |-> "held", user |-> u, doc |-> d, next |-> next]
<1>1. s \in Save /\ s.doc = d /\ s.user = u
  BY DEF Save
<1>2. holder' \in [Users -> Handlers \cup {NoHandler}]
  BY DEF SaveLocked, DocsInv, TypeOK
<1>3. saving' = [saving EXCEPT ![h] = s] /\ cache' = [cache EXCEPT ![u] = d] /\ store' = store
  BY DEF SaveLocked
<1> HIDE DEF s
<1> QED
  BY <1>1, <1>2, <1>3, SaveKeepsDocs

LEMMA SaveUnlockedKeepsDocs ==
    ASSUME DocsInv, NEW h \in Handlers, NEW u \in Users, NEW d \in Doc, Sound(d),
           SaveUnlocked(h, u, d)
    PROVE  DocsInv'
<1> DEFINE s == [lock |-> "free", user |-> u, doc |-> d, next |-> "end"]
<1>1. s \in Save /\ s.doc = d /\ s.user = u
  BY DEF Save
<1>2. holder' \in [Users -> Handlers \cup {NoHandler}]
  BY DEF SaveUnlocked, DocsInv, TypeOK
<1>3. saving' = [saving EXCEPT ![h] = s] /\ cache' = [cache EXCEPT ![u] = d] /\ store' = store
  BY DEF SaveUnlocked
<1> HIDE DEF s
<1> QED
  BY <1>1, <1>2, <1>3, SaveKeepsDocs

LEMMA RechargeKeepsDocs ==
    ASSUME DocsInv, NEW h \in Handlers, Recharge(h)
    PROVE  DocsInv'
<1> DEFINE u == saving[h].user
           g == GainedBonus(cache[u], RechargeBonus)
           d == [g EXCEPT !.recharges = @ + 1]
<1>1. u \in Users
  BY DEF DocsInv, SavesHaveUsers, Recharge
<1>2. cache[u] \in Doc /\ Sound(cache[u])
  BY <1>1 DEF DocsInv, TypeOK, AllSound
<1>3. g \in Doc /\ Sound(g)
  BY <1>2, GrantsAssumption, GainedBonusSound
<1>4. SaveLocked(h, u, d, "stamp")
  BY DEF Recharge
<1> HIDE DEF u, g
<1>5. d \in Doc /\ Sound(d)
  BY <1>3, MarkedSound
<1> HIDE DEF d
<1> QED
  BY <1>1, <1>4, <1>5, SaveLockedKeepsDocs

\* A landed save puts an sound copy in the collection, and the one that follows
\* it is sound too.
LEMMA LandingKeepsDocs ==
    ASSUME DocsInv, NEW h \in Handlers, SaveLands(h)
    PROVE  DocsInv'
<1> DEFINE u == saving[h].user
<1>1. u \in Users
  BY DEF DocsInv, SavesHaveUsers, SaveLands, LockedSaveLands, UnlockedSaveLands
<1>2. saving[h] \in Save /\ saving[h].doc \in Doc /\ Sound(saving[h].doc)
  BY DEF DocsInv, TypeOK, AllSound, Save
<1>3. cache[u] \in Doc /\ Sound(cache[u])
  BY <1>1 DEF DocsInv, TypeOK, AllSound
<1>4. CASE LockedSaveLands(h)
  <2> DEFINE d == IF saving[h].next = "stamp"
                    THEN [cache[u] EXCEPT !.recharged = TRUE] ELSE cache[u]
             s == IF saving[h].next = "end" THEN NoSave
                  ELSE [lock |-> "free", user |-> u, doc |-> d, next |-> "end"]
  <2>1. d \in Doc /\ Sound(d)
    BY <1>3, MarkedSound
  <2>2. /\ store' = [store EXCEPT ![u] = saving[h].doc]
        /\ holder' = [holder EXCEPT ![u] = NoHandler]
        /\ cache' = [cache EXCEPT ![u] = d]
        /\ saving' = [saving EXCEPT ![h] = s]
    BY <1>4 DEF LockedSaveLands
  <2> HIDE DEF d
  <2>3. s \in Save /\ Sound(s.doc) /\ (s.lock # "none" => s.user \in Users)
    <3>1. CASE saving[h].next = "end"
      BY <3>1, NoSaveTyped
    <3>2. CASE saving[h].next # "end"
      <4>1. s = [lock |-> "free", user |-> u, doc |-> d, next |-> "end"]
        BY <3>2
      <4> HIDE DEF s, u
      <4> QED
        BY <1>1, <2>1, <4>1 DEF Save
    <3> QED
      BY <3>1, <3>2
  <2> HIDE DEF s, u
  <2>4. TypeOK'
    BY <1>2, <2>1, <2>2, <2>3 DEF DocsInv, TypeOK
  <2>5. SavesHaveUsers'
    BY <2>2, <2>3 DEF DocsInv, TypeOK, SavesHaveUsers
  <2>6. AllSound'
    BY <1>2, <2>1, <2>2, <2>3 DEF DocsInv, TypeOK, AllSound
  <2> QED
    BY <2>4, <2>5, <2>6 DEF DocsInv
<1>5. CASE UnlockedSaveLands(h)
  <2>1. /\ store' = [store EXCEPT ![u] = saving[h].doc]
        /\ saving' = [saving EXCEPT ![h] = NoSave]
        /\ cache' = cache /\ holder' = holder
    BY <1>5 DEF UnlockedSaveLands
  <2> HIDE DEF u
  <2>2. TypeOK'
    BY <1>2, <2>1, NoSaveTyped DEF DocsInv, TypeOK
  <2>3. SavesHaveUsers'
    BY <2>1, NoSaveTyped DEF DocsInv, TypeOK, SavesHaveUsers
  <2>4. AllSound'
    BY <1>2, <2>1, NoSaveTyped DEF DocsInv, TypeOK, AllSound
  <2> QED
    BY <2>2, <2>3, <2>4 DEF DocsInv
<1> QED
  BY <1>4, <1>5 DEF SaveLands

LEMMA RestartKeepsDocs ==
    ASSUME DocsInv, Restart
    PROVE  DocsInv'
<1>1. TypeOK'
  BY NoSaveTyped DEF DocsInv, TypeOK, Restart
<1>2. SavesHaveUsers'
  BY NoSaveTyped DEF SavesHaveUsers, Restart
<1>3. AllSound'
  BY NoSaveTyped DEF DocsInv, AllSound, Restart
<1> QED
  BY <1>1, <1>2, <1>3 DEF DocsInv

LEMMA InitDocs == Init => DocsInv
<1> SUFFICES ASSUME Init PROVE DocsInv
  OBVIOUS
<1>1. \A u \in Users : cache[u] \in Doc /\ Sound(cache[u]) /\ store[u] = cache[u]
  BY StartAssumption DEF Init, Sound, Agreed, Noted
<1>2. TypeOK
  BY <1>1, NoSaveTyped, StartAssumption DEF Init, TypeOK
<1>3. SavesHaveUsers
  BY NoSaveTyped DEF Init, SavesHaveUsers
<1>4. AllSound
  BY <1>1, NoSaveTyped DEF Init, AllSound
<1> QED
  BY <1>2, <1>3, <1>4 DEF DocsInv

LEMMA NextDocs == DocsInv /\ [Next]_vars => DocsInv'
<1> SUFFICES ASSUME DocsInv, [Next]_vars PROVE DocsInv'
  OBVIOUS
<1>1. ASSUME NEW h \in Handlers, NEW u \in Users, NEW n \in Amounts, TryConsume(h, u, n)
      PROVE  DocsInv'
  <2>1. cache[u] \in Doc /\ Sound(cache[u]) /\ n \in Nat
    BY AmountsAssumption DEF DocsInv, TypeOK, AllSound
  <2>2. Spent(cache[u], n) \in Doc /\ Sound(Spent(cache[u], n))
    BY <1>1, <2>1, SpentSound DEF TryConsume
  <2>3. SaveLocked(h, u, Spent(cache[u], n), "history")
    BY <1>1 DEF TryConsume
  <2> QED
    BY <2>2, <2>3, SaveLockedKeepsDocs
<1>2. ASSUME NEW h \in Handlers, NEW u \in Users, NEW n \in Amounts, Prize(h, u, n)
      PROVE  DocsInv'
  <2>1. cache[u] \in Doc /\ Sound(cache[u]) /\ n \in Nat
    BY AmountsAssumption DEF DocsInv, TypeOK, AllSound
  <2>2. Gained(cache[u], n) \in Doc /\ Sound(Gained(cache[u], n))
    BY <2>1, GainedSound
  <2>3. SaveLocked(h, u, Gained(cache[u], n), "history")
    BY <1>2 DEF Prize
  <2> QED
    BY <2>2, <2>3, SaveLockedKeepsDocs
<1>3. ASSUME NEW h \in Handlers, NEW u \in Users, NEW n \in Amounts, Confirm(h, u, n)
      PROVE  DocsInv'
  <2> DEFINE d == [cache[u] EXCEPT !.authorized = TRUE]
  <2>1. cache[u] \in Doc /\ Sound(cache[u])
    BY DEF DocsInv, TypeOK, AllSound
  <2>2. d \in Doc /\ Sound(d)
    BY <2>1, MarkedSound
  <2>3. SaveUnlocked(h, u, d)
    BY <1>3 DEF Confirm
  <2> HIDE DEF d
  <2> QED
    BY <2>2, <2>3, SaveUnlockedKeepsDocs
<1>4. ASSUME NEW h \in Handlers, NEW u \in Users, ClaimDaily(h, u)
      PROVE  DocsInv'
  <2>1. cache[u] \in Doc /\ Sound(cache[u])
    BY DEF DocsInv, TypeOK, AllSound
  <2> QED
    BY <1>4, <2>1, WithDailySound, SaveUnlockedKeepsDocs DEF ClaimDaily
<1>5. ASSUME NEW h \in Handlers, NEW u \in Users, AskRecharge(h, u)
      PROVE  DocsInv'
  <2> DEFINE s == [NoSave EXCEPT !.lock = "waiting", !.user = u]
  <2>1. s \in Save /\ Sound(s.doc) /\ s.user = u
    BY NoSaveTyped DEF Save, NoSave, Sound, Agreed, Noted
  <2>2. saving' = [saving EXCEPT ![h] = s] /\ cache' = cache /\ store' = store /\ holder' = holder
    BY <1>5 DEF AskRecharge
  <2> HIDE DEF s
  <2>3. TypeOK'
    BY <2>1, <2>2 DEF DocsInv, TypeOK
  <2>4. SavesHaveUsers'
    BY <2>1, <2>2 DEF DocsInv, TypeOK, SavesHaveUsers
  <2>5. AllSound'
    BY <2>1, <2>2 DEF DocsInv, TypeOK, AllSound
  <2> QED
    BY <2>3, <2>4, <2>5 DEF DocsInv
<1>6. CASE UNCHANGED vars
  BY <1>6 DEF vars, DocsInv, TypeOK, SavesHaveUsers, AllSound
<1> QED
  BY <1>1, <1>2, <1>3, <1>4, <1>5, <1>6, RechargeKeepsDocs, LandingKeepsDocs,
     RestartKeepsDocs DEF Next

\* Documents, locks and saves stay well formed.
THEOREM WalletTyped == Spec => []TypeOK
<1>1. DocsInv => TypeOK
  BY DEF DocsInv
<1> QED
  BY InitDocs, NextDocs, <1>1, PTL DEF Spec

\* Nobody owes chips without having agreed to it, in the cache or in the
\* collection: _try_consume_chips looks under the lock, a credit withdraws the
\* consent only when it pays the debt, and every save writes a whole document.
THEOREM DebtNeedsConsent == Spec => []DebtWasAuthorized
<1>1. DocsInv => DebtWasAuthorized
  BY DEF DocsInv, AllSound, Sound, Agreed, Noted, DebtWasAuthorized
<1> QED
  BY InitDocs, NextDocs, <1>1, PTL DEF Spec

\* A day's bonus is granted once, with copies of the document on their way and
\* restarts: claim_daily_bonus writes the key and the chips in one document.
THEOREM DailyGrantedOnce == Spec => []DailyOnce
<1>1. DocsInv => DailyOnce
  BY DEF DocsInv, AllSound, Sound, Noted, DailyOnce
<1> QED
  BY InitDocs, NextDocs, <1>1, PTL DEF Spec
-----------------------------------------------------------------------------

\* A task that was not withdrawn is its user's gate's, and one that ended is no one's.
ShowsAtGates ==
    \A s \in Shows :
       /\ show[s].at = "ended" => show[s] = Ended
       /\ show[s].at # "ended" =>
             /\ show[s].user \in Users
             /\ ~show[s].cancelled => IsOpen(show[s].user) /\ gate[show[s].user].show = s

GateTyped ==
    /\ gate \in [Users -> Gate]
    /\ show \in [Shows -> ShowState]
    /\ command \in [Commands -> Users \cup {NoUser}]

OpenGates == \A u \in Users : IsOpen(u) => gate[u].owner \in Commands /\ gate[u].show \in Shows

Gates == GateTyped /\ OpenGates /\ OwnerWaitsAtGate /\ ShowsAtGates
GateInv == DocsInv /\ Gates

-----------------------------------------------------------------------------
(* The wallet under the gates. *)

\* Nothing costs nothing: without a gate there is no cost to agree to.
LEMMA NothingNeedsNoConsent ==
    ASSUME NEW d \in Doc PROVE ~NeedsConfirmation(d, 0)
<1>1. d.chips \in Int /\ d.bonus \in Nat
  BY DEF Doc
<1>2. Spent(d, 0).chips = d.chips
  BY <1>1 DEF Spent, Doc
<1> QED
  BY <1>1, <1>2 DEF NeedsConfirmation

\* A consent that is noted is one the wallet allows.
LEMMA ConsentIsConfirm ==
    ASSUME GateInv, NEW s \in Shows, NEW h \in Handlers, ConsentNoted(s, h)
    PROVE  \E u \in Users, n \in Amounts : Confirm(h, u, n)
<1> DEFINE u == show[s].user
           n == gate[u].amount
<1>1. u \in Users
  BY DEF ConsentNoted, Runs, GateInv, Gates, ShowsAtGates
<1>2. n \in Amounts \cup {0} /\ cache[u] \in Doc
  BY <1>1 DEF GateInv, Gates, GateTyped, Gate, DocsInv, TypeOK
<1>3. NeedsConfirmation(cache[u], n) /\ SaveUnlocked(h, u, [cache[u] EXCEPT !.authorized = TRUE])
  BY DEF ConsentNoted, StillNeeded
<1>4. n \in Amounts
  BY <1>2, <1>3, NothingNeedsNoConsent
<1> QED
  BY <1>1, <1>3, <1>4 DEF Confirm

\* Steps of the gate that leave the wallet alone.
GateOnly ==
    \/ \E u \in Users, n \in Amounts, s \in Shows :
          AskAgain(u, n, s) \/ \E c \in Commands : OpenGate(c, u, n, s)
    \/ \E s \in Shows : ShowStep(s) \/ Press(s)

LEMMA GateOnlyKeepsWallet == GateOnly => UNCHANGED vars
<1>1. \A u \in Users, n \in Amounts, s \in Shows :
         AskAgain(u, n, s) \/ (\E c \in Commands : OpenGate(c, u, n, s)) => UNCHANGED vars
  BY DEF AskAgain, OpenGate
<1>2. \A s \in Shows : ShowStep(s) \/ Press(s) => UNCHANGED vars
  BY DEF ShowStep, Press, CancelledEnds, Wakes, Prepared, Sent, ViewEnds, ConsentSaved,
         ShowFails, Concludes
<1> QED
  BY <1>1, <1>2 DEF GateOnly

LEMMA GateNextParts ==
    GateNext <=> \/ GateOnly
                 \/ \E s \in Shows, h \in Handlers : ConsentNoted(s, h)
                 \/ WalletStep \/ Restarted
                 \/ \E h \in Handlers : Landed(h)
BY DEF GateNext, GateOnly

LEMMA StepRefines == GateInv /\ [GateNext]_allVars => [Next]_vars
<1> SUFFICES ASSUME GateInv, [GateNext]_allVars PROVE [Next]_vars
  OBVIOUS
<1>1. CASE GateOnly
  BY <1>1, GateOnlyKeepsWallet
<1>2. CASE \E s \in Shows, h \in Handlers : ConsentNoted(s, h)
  BY <1>2, ConsentIsConfirm DEF Next
<1>3. CASE WalletStep
  BY <1>3 DEF WalletStep, Next
<1>4. CASE Restarted
  BY <1>4 DEF Restarted, Next
<1>5. CASE \E h \in Handlers : Landed(h)
  BY <1>5 DEF Landed, Next
<1>6. CASE UNCHANGED allVars
  BY <1>6 DEF allVars, vars
<1> QED
  BY <1>1, <1>2, <1>3, <1>4, <1>5, <1>6, GateNextParts

-----------------------------------------------------------------------------
(* The gates, their owners and their tasks. *)

LEMMA NoGateTyped == NoGate \in Gate /\ NoGate.owner = NoCommand /\ NoGate.show = NoShow
BY MaxAsksAssumption DEF NoGate, Gate

LEMMA EndedTyped ==
    /\ Ended \in ShowState /\ Ended.at = "ended" /\ ~Ended.cancelled
    /\ \A u \in Users : /\ NewShow(u) \in ShowState /\ NewShow(u).at = "sleeping"
                         /\ NewShow(u).user = u /\ ~NewShow(u).cancelled
BY DEF Ended, NewShow, ShowState

\* A gate is open exactly when it has an owner.
LEMMA OpenMeansOwned ==
    ASSUME Gates, NEW u \in Users
    PROVE  /\ gate[u] \in Gate
           /\ IsOpen(u) <=> gate[u].owner # NoCommand
           /\ ~IsOpen(u) => gate[u] = NoGate /\ gate[u].show = NoShow
<1>1. gate[u] \in Gate
  BY DEF Gates, GateTyped
<1>2. ~IsOpen(u) => gate[u] = NoGate /\ gate[u].owner = NoCommand /\ gate[u].show = NoShow
  BY NoGateTyped DEF IsOpen
<1>3. IsOpen(u) => gate[u].owner # NoCommand
  BY NoneAtGateAssumption DEF Gates, OpenGates
<1> QED
  BY <1>1, <1>2, <1>3

\* A task that goes on keeps the gates; the view it shows may be noted in its own.
LEMMA TaskGoesOn ==
    ASSUME Gates, NEW s \in Shows, NEW t \in ShowState,
           show[s].at # "ended", t.at # "ended", t.user = show[s].user,
           t.cancelled = show[s].cancelled,
           show' = [show EXCEPT ![s] = t], command' = command,
           gate' \in [Users -> Gate],
           \A u \in Users : /\ gate'[u].owner = gate[u].owner /\ gate'[u].show = gate[u].show
                            /\ ~IsOpen(u) => gate'[u] = gate[u]
    PROVE  Gates'
<1>1. GateTyped'
  BY DEF Gates, GateTyped
<1>2. \A u \in Users : IsOpen(u)' <=> IsOpen(u)
  <2> SUFFICES ASSUME NEW u \in Users PROVE IsOpen(u)' <=> IsOpen(u)
    OBVIOUS
  <2>1. CASE IsOpen(u)
    BY <2>1, OpenMeansOwned, NoGateTyped DEF IsOpen
  <2>2. CASE ~IsOpen(u)
    BY <2>2 DEF IsOpen
  <2> QED
    BY <2>1, <2>2
<1>3. OpenGates'
  BY <1>2 DEF Gates, OpenGates
<1>4. show[s] # Ended
  BY EndedTyped
<1>5. \A r \in Shows : /\ show'[r].at = "ended" <=> show[r].at = "ended"
                       /\ show'[r].user = show[r].user
                       /\ show'[r].cancelled = show[r].cancelled
                       /\ r # s => show'[r] = show[r]
  BY DEF Gates, GateTyped
<1>6. ShowsAtGates'
  BY <1>2, <1>5 DEF Gates, ShowsAtGates
<1>7. OwnerWaitsAtGate'
  BY <1>2, <1>5 DEF Gates, OwnerWaitsAtGate, OpenGates
<1> QED
  BY <1>1, <1>3, <1>6, <1>7 DEF Gates

\* A task that is not its gate's ends and nothing waits for it.
LEMMA TaskEnds ==
    ASSUME Gates, NEW s \in Shows, End(s), UNCHANGED <<gate, command>>,
           show[s].cancelled \/ ~Current(s)
    PROVE  Gates'
<1>1. \A u \in Users : IsOpen(u) => gate[u].show # s
  BY DEF Gates, OwnerWaitsAtGate, Current
<1>2. show' = [show EXCEPT ![s] = Ended]
  BY DEF End
<1>3. GateTyped' /\ OpenGates'
  BY <1>2, EndedTyped DEF Gates, GateTyped, OpenGates, IsOpen
<1>4. OwnerWaitsAtGate'
  BY <1>1, <1>2 DEF Gates, GateTyped, OpenGates, OwnerWaitsAtGate, IsOpen
<1>5. ShowsAtGates'
  BY <1>2, EndedTyped DEF Gates, GateTyped, ShowsAtGates, IsOpen
<1> QED
  BY <1>3, <1>4, <1>5 DEF Gates

\* The gate's task ends with its gate and the wait of its owner.
LEMMA TaskAnswers ==
    ASSUME Gates, NEW s \in Shows, Current(s), ~show[s].cancelled, End(s), Answer(show[s].user)
    PROVE  Gates'
<1> DEFINE u == show[s].user
<1>1. u \in Users /\ show[s].at # "ended" /\ gate[u].show = s /\ IsOpen(u)
  BY DEF Current, Gates, ShowsAtGates
<1>2. /\ show' = [show EXCEPT ![s] = Ended]
      /\ gate' = [gate EXCEPT ![u] = NoGate]
      /\ command' = [command EXCEPT ![gate[u].owner] = NoUser]
  BY DEF End, Answer
<1>3. gate[u].owner \in Commands /\ NoUser \notin Users
  BY <1>1, NoneAssumption DEF Gates, OpenGates
<1>4. \A v \in Users \ {u} : IsOpen(v) => gate[v].show # s
  BY <1>1 DEF Gates, OwnerWaitsAtGate
<1> HIDE DEF u
<1>5. /\ gate'[u] = NoGate /\ \A v \in Users \ {u} : gate'[v] = gate[v]
      /\ \A r \in Shows \ {s} : show'[r] = show[r]
      /\ show'[s] = Ended
  BY <1>1, <1>2 DEF Gates, GateTyped
<1>6. GateTyped'
  BY <1>2, EndedTyped, NoGateTyped DEF Gates, GateTyped
<1>7. OpenGates'
  BY <1>5 DEF Gates, OpenGates, IsOpen
<1>8. ShowsAtGates'
  BY <1>1, <1>5, EndedTyped DEF Gates, ShowsAtGates, IsOpen
<1>9. OwnerWaitsAtGate'
  <2> SUFFICES ASSUME NEW v \in Users
               PROVE  /\ {c \in Commands : command'[c] = v} = {gate'[v].owner} \ {NoCommand}
                      /\ gate'[v] # NoGate =>
                            /\ show'[gate'[v].show].at # "ended" /\ show'[gate'[v].show].user = v
                            /\ ~show'[gate'[v].show].cancelled
    BY DEF OwnerWaitsAtGate, IsOpen
  <2>1. CASE v = u
    <3>1. {c \in Commands : command[c] = u} = {gate[u].owner} \ {NoCommand}
      BY <1>1 DEF Gates, OwnerWaitsAtGate
    <3>2. {c \in Commands : command'[c] = u} = {}
      BY <1>1, <1>2, <1>3, <3>1 DEF Gates, GateTyped
    <3> QED
      BY <2>1, <3>2, <1>5, NoGateTyped
  <2>2. CASE v # u
    <3>1. command[gate[u].owner] = u
      BY <1>1, <1>3, NoneAtGateAssumption DEF Gates, OwnerWaitsAtGate
    <3>2. {c \in Commands : command'[c] = v} = {c \in Commands : command[c] = v}
      BY <1>2, <1>3, <2>2, <3>1 DEF Gates, GateTyped
    <3> QED
      BY <2>2, <3>2, <1>4, <1>5 DEF Gates, OwnerWaitsAtGate, OpenGates, IsOpen
  <2> QED
    BY <2>1, <2>2
<1> QED
  BY <1>6, <1>7, <1>8, <1>9 DEF Gates

\* What a task's user, its gate and its view say of the gates.
LEMMA ConcludesKeepsGates ==
    ASSUME Gates, NEW s \in Shows, Concludes(s), ~show[s].cancelled
    PROVE  Gates'
<1>1. CASE Current(s)
  BY <1>1, TaskAnswers DEF Concludes, FinalAnswer
<1>2. CASE ~Current(s)
  BY <1>2, TaskEnds DEF Concludes
<1> QED
  BY <1>1, <1>2

\* Only the state of the task changes.
LEMMA TaskMoves ==
    ASSUME Gates, NEW s \in Shows, NEW t \in ShowState,
           show[s].at # "ended", t.at # "ended", t.user = show[s].user,
           t.cancelled = show[s].cancelled,
           show' = [show EXCEPT ![s] = t], UNCHANGED <<gate, command>>
    PROVE  Gates'
BY TaskGoesOn DEF Gates, GateTyped

LEMMA MovedTask ==
    ASSUME NEW t \in ShowState,
           NEW at \in {"preparing", "sending", "shown"}
    PROVE  /\ [t EXCEPT !.at = at] \in ShowState
           /\ [t EXCEPT !.at = at].at = at
           /\ [t EXCEPT !.at = at].user = t.user
           /\ [t EXCEPT !.at = at].cancelled = t.cancelled
BY DEF ShowState

LEMMA ShowStepKeepsGates ==
    ASSUME Gates, NEW s \in Shows, ShowStep(s)
    PROVE  Gates'
<1>1. show[s] \in ShowState
  BY DEF Gates, GateTyped
<1>2. CASE CancelledEnds(s)
  BY <1>2, TaskEnds DEF CancelledEnds
<1>3. CASE Wakes(s)
  <2> DEFINE t == [show[s] EXCEPT !.at = "preparing"]
  <2>1. CASE Current(s)
    <3>1. show' = [show EXCEPT ![s] = t]
      BY <1>3, <2>1 DEF Wakes
    <3>2. t \in ShowState /\ t.at = "preparing" /\ t.user = show[s].user
          /\ t.cancelled = show[s].cancelled
      BY <1>1, MovedTask
    <3> HIDE DEF t
    <3> QED
      BY <1>3, <3>1, <3>2, TaskMoves DEF Wakes, Runs
  <2>2. CASE ~Current(s)
    BY <1>3, <2>2, TaskEnds DEF Wakes
  <2> QED
    BY <2>1, <2>2
<1>4. CASE Prepared(s)
  <2> DEFINE u == show[s].user
             t == [show[s] EXCEPT !.at = "sending"]
  <2>1. CASE ~Current(s)
    BY <1>4, <2>1, TaskEnds DEF Prepared
  <2>2. CASE Current(s) /\ NeedsConfirmation(cache[u], gate[u].amount)
    <3>1. /\ show' = [show EXCEPT ![s] = t]
          /\ gate' = [gate EXCEPT ![u].view = s]
          /\ command' = command
      BY <1>4, <2>2 DEF Prepared
    <3>2. t \in ShowState /\ t.at = "sending" /\ t.user = show[s].user
          /\ t.cancelled = show[s].cancelled
      BY <1>1, MovedTask
    <3>3. u \in Users /\ IsOpen(u) /\ show[s].at # "ended"
      BY <1>4 DEF Prepared, Runs, Gates, ShowsAtGates
    <3> HIDE DEF u, t
    <3>4. gate' \in [Users -> Gate]
      BY <3>1 DEF Gates, GateTyped, Gate
    <3>5. \A v \in Users : /\ gate'[v].owner = gate[v].owner /\ gate'[v].show = gate[v].show
                           /\ ~IsOpen(v) => gate'[v] = gate[v]
      BY <3>1, <3>3 DEF Gates, GateTyped, Gate
    <3> QED
      BY <3>1, <3>2, <3>3, <3>4, <3>5, TaskGoesOn
  <2>3. CASE Current(s) /\ ~NeedsConfirmation(cache[u], gate[u].amount)
    BY <1>4, <2>3, TaskAnswers DEF Prepared, Runs
  <2> QED
    BY <2>1, <2>2, <2>3
<1>5. CASE Sent(s)
  <2> DEFINE t == [show[s] EXCEPT !.at = "shown"]
  <2>1. CASE Current(s)
    <3>1. show' = [show EXCEPT ![s] = t]
      BY <1>5, <2>1 DEF Sent
    <3>2. t \in ShowState /\ t.at = "shown" /\ t.user = show[s].user
          /\ t.cancelled = show[s].cancelled
      BY <1>1, MovedTask
    <3> HIDE DEF t
    <3> QED
      BY <1>5, <3>1, <3>2, TaskMoves DEF Sent, Runs
  <2>2. CASE ~Current(s)
    BY <1>5, <2>2, TaskEnds DEF Sent
  <2> QED
    BY <2>1, <2>2
<1>6. CASE ViewEnds(s) \/ ConsentSaved(s) \/ ShowFails(s)
  BY <1>6, ConcludesKeepsGates DEF ViewEnds, ConsentSaved, ShowFails, Runs
<1> QED
  BY <1>2, <1>3, <1>4, <1>5, <1>6 DEF ShowStep

LEMMA PressKeepsGates ==
    ASSUME Gates, NEW s \in Shows, Press(s)
    PROVE  Gates'
<1> DEFINE t == [show[s] EXCEPT !.confirmed = TRUE]
<1>1. t \in ShowState /\ t.at = show[s].at /\ t.user = show[s].user
      /\ t.cancelled = show[s].cancelled
  BY DEF Gates, GateTyped, ShowState
<1>2. show' = [show EXCEPT ![s] = t] /\ show[s].at # "ended" /\ UNCHANGED <<gate, command>>
  BY DEF Press
<1> HIDE DEF t
<1> QED
  BY <1>1, <1>2, TaskMoves

LEMMA ConsentNotedKeepsGates ==
    ASSUME Gates, NEW s \in Shows, NEW h \in Handlers, ConsentNoted(s, h)
    PROVE  Gates'
<1> DEFINE t == [show[s] EXCEPT !.at = "saving", !.handler = h]
<1>0. show[s] \in ShowState /\ h \in Handlers \cup {NoHandler}
  BY DEF Gates, GateTyped
<1>1. t \in ShowState /\ t.at = "saving" /\ t.user = show[s].user
      /\ t.cancelled = show[s].cancelled
  BY <1>0 DEF ShowState
<1>2. show' = [show EXCEPT ![s] = t] /\ show[s].at # "ended" /\ UNCHANGED <<gate, command>>
  BY DEF ConsentNoted, Runs
<1> HIDE DEF t
<1> QED
  BY <1>1, <1>2, TaskMoves

\* A save that lands wakes the task that waits for it, which was not one that ended.
LEMMA LandedKeepsGates ==
    ASSUME Gates, NEW h \in Handlers, Landed(h)
    PROVE  Gates'
<1> DEFINE t(s) == [show[s] EXCEPT !.at = "saved", !.handler = NoHandler]
<1>1. /\ show' = [s \in Shows |-> IF show[s].handler = h THEN t(s) ELSE show[s]]
      /\ UNCHANGED <<gate, command>>
  BY DEF Landed
<1>2. \A s \in Shows : t(s) \in ShowState /\ t(s).at = "saved" /\ t(s).user = show[s].user
                       /\ t(s).cancelled = show[s].cancelled
  BY DEF Gates, GateTyped, ShowState
<1>3. \A s \in Shows : show[s].at = "ended" => show[s].handler # h
  BY NoneAssumption DEF Gates, ShowsAtGates, Ended
<1> HIDE DEF t
<1>4. \A s \in Shows : /\ show'[s].at = "ended" <=> show[s].at = "ended"
                       /\ show'[s].at = "ended" => show'[s] = show[s]
                       /\ show'[s].user = show[s].user
                       /\ show'[s].cancelled = show[s].cancelled
  BY <1>1, <1>2, <1>3
<1>5. GateTyped' /\ OpenGates'
  BY <1>1, <1>2 DEF Gates, GateTyped, OpenGates, IsOpen
<1>6. OwnerWaitsAtGate'
  BY <1>1, <1>4 DEF Gates, OpenGates, OwnerWaitsAtGate, IsOpen
<1>7. ShowsAtGates'
  BY <1>1, <1>4 DEF Gates, ShowsAtGates, IsOpen
<1> QED
  BY <1>5, <1>6, <1>7 DEF Gates

LEMMA OpenGateKeepsGates ==
    ASSUME Gates, NEW c \in Commands, NEW u \in Users, NEW n \in Amounts, NEW s \in Shows,
           OpenGate(c, u, n, s)
    PROVE  Gates'
<1> DEFINE g == [NoGate EXCEPT !.owner = c, !.amount = n, !.show = s]
<1>1. /\ command[c] = NoUser /\ Fresh(s) /\ ~IsOpen(u)
      /\ gate' = [gate EXCEPT ![u] = g]
      /\ show' = [show EXCEPT ![s] = NewShow(u)]
      /\ command' = [command EXCEPT ![c] = u]
  BY DEF OpenGate
<1>2. g \in Gate /\ g.owner = c /\ g.show = s
  BY NoGateTyped DEF Gate
<1> HIDE DEF g
<1>3. g # NoGate /\ c # NoCommand /\ NoUser \notin Users
  BY <1>2, NoGateTyped, NoneAtGateAssumption, NoneAssumption
<1>4. show[s] = Ended /\ \A v \in Users : gate[v].show # s
  BY <1>1 DEF Fresh
<1>5. /\ gate'[u] = g /\ \A v \in Users \ {u} : gate'[v] = gate[v]
      /\ show'[s] = NewShow(u) /\ \A r \in Shows \ {s} : show'[r] = show[r]
  BY <1>1 DEF Gates, GateTyped
<1>6. GateTyped'
  BY <1>1, <1>2, EndedTyped DEF Gates, GateTyped
<1>7. OpenGates'
  BY <1>2, <1>5 DEF Gates, OpenGates, IsOpen
<1>8. ShowsAtGates'
  <2> SUFFICES ASSUME NEW r \in Shows
               PROVE  /\ show'[r].at = "ended" => show'[r] = Ended
                      /\ show'[r].at # "ended" =>
                           /\ show'[r].user \in Users
                           /\ ~show'[r].cancelled =>
                                gate'[show'[r].user] # NoGate /\ gate'[show'[r].user].show = r
    BY DEF ShowsAtGates, IsOpen
  <2>1. CASE r = s
    BY <2>1, <1>2, <1>3, <1>5, EndedTyped
  <2>2. CASE r # s
    BY <2>2, <1>1, <1>5 DEF Gates, ShowsAtGates, IsOpen
  <2> QED
    BY <2>1, <2>2
<1>9. OwnerWaitsAtGate'
  <2> SUFFICES ASSUME NEW v \in Users
               PROVE  /\ {d \in Commands : command'[d] = v} = {gate'[v].owner} \ {NoCommand}
                      /\ gate'[v] # NoGate =>
                            /\ show'[gate'[v].show].at # "ended" /\ show'[gate'[v].show].user = v
                            /\ ~show'[gate'[v].show].cancelled
    BY DEF OwnerWaitsAtGate, IsOpen
  <2>1. CASE v = u
    <3>1. {d \in Commands : command[d] = u} = {}
      BY <1>1, OpenMeansOwned DEF Gates, OwnerWaitsAtGate
    <3>2. {d \in Commands : command'[d] = u} = {c}
      BY <1>1, <3>1 DEF Gates, GateTyped
    <3> QED
      BY <2>1, <3>2, <1>2, <1>3, <1>5, EndedTyped
  <2>2. CASE v # u
    <3>1. {d \in Commands : command'[d] = v} = {d \in Commands : command[d] = v}
      BY <1>1, <1>3, <2>2 DEF Gates, GateTyped
    <3> QED
      BY <2>2, <3>1, <1>4, <1>5 DEF Gates, OwnerWaitsAtGate, OpenGates, IsOpen
  <2> QED
    BY <2>1, <2>2
<1> QED
  BY <1>6, <1>7, <1>8, <1>9 DEF Gates

LEMMA AskAgainKeepsGates ==
    ASSUME Gates, NEW u \in Users, NEW n \in Amounts, NEW s \in Shows, AskAgain(u, n, s)
    PROVE  Gates'
<1> DEFINE o == gate[u].show
           w == [show[o] EXCEPT !.cancelled = TRUE]
           g == [gate[u] EXCEPT !.show = s, !.asked = @ + 1]
<1>1. /\ Fresh(s) /\ IsOpen(u) /\ gate[u].asked < MaxAsks
      /\ show' = [show EXCEPT ![o] = Withdrawn(show[o]), ![s] = NewShow(u)]
      /\ gate' = [gate EXCEPT ![u] = g] /\ command' = command
  BY DEF AskAgain, Gates, GateTyped
<1>2. /\ o \in Shows /\ show[o].at # "ended" /\ show[o].user = u /\ show[o] \in ShowState
  BY <1>1 DEF Gates, GateTyped, OpenGates, OwnerWaitsAtGate
<1>3. w \in ShowState /\ w.at = show[o].at /\ w.user = u /\ w.cancelled
  BY <1>2 DEF ShowState
<1>4. Withdrawn(show[o]) = w
  BY <1>2 DEF Withdrawn
<1> DEFINE a == gate[u].asked + 1
<1>5a. gate[u] \in Gate /\ a \in 0..MaxAsks
  BY <1>1, MaxAsksAssumption DEF Gates, GateTyped, Gate
<1>5b. g = [gate[u] EXCEPT !.show = s, !.asked = a]
  OBVIOUS
<1> HIDE DEF a, g
<1>5. gate[u] \in Gate /\ g \in Gate /\ g.owner = gate[u].owner /\ g.show = s
  BY <1>5a, <1>5b DEF Gate
<1>6. show[s] = Ended /\ gate[u].show = o /\ s # o /\ \A v \in Users : gate[v].show # s
  BY <1>1 DEF Fresh
<1>7. gate[u].owner \in Commands /\ g # NoGate
  BY <1>1, <1>5, NoGateTyped, NoneAtGateAssumption DEF Gates, OpenGates
<1> HIDE DEF o, w
<1>8. /\ gate'[u] = g /\ \A v \in Users \ {u} : gate'[v] = gate[v]
      /\ show'[s] = NewShow(u) /\ show'[o] = w
      /\ \A r \in Shows \ {s, o} : show'[r] = show[r]
      /\ show' \in [Shows -> ShowState]
  BY <1>1, <1>2, <1>3, <1>4, <1>6, EndedTyped DEF Gates, GateTyped
<1>9. GateTyped'
  BY <1>1, <1>5, <1>8 DEF Gates, GateTyped
<1>10. OpenGates'
  BY <1>5, <1>7, <1>8 DEF Gates, OpenGates, IsOpen
<1>11. \A v \in Users \ {u} : IsOpen(v) => gate[v].show \notin {s, o}
  BY <1>2, <1>6 DEF Gates, OwnerWaitsAtGate
<1>12. OwnerWaitsAtGate'
  <2> SUFFICES ASSUME NEW v \in Users
               PROVE  /\ {d \in Commands : command[d] = v} = {gate'[v].owner} \ {NoCommand}
                      /\ gate'[v] # NoGate =>
                            /\ show'[gate'[v].show].at # "ended" /\ show'[gate'[v].show].user = v
                            /\ ~show'[gate'[v].show].cancelled
    BY <1>1 DEF OwnerWaitsAtGate, IsOpen
  <2>1. {d \in Commands : command[d] = v} = {gate'[v].owner} \ {NoCommand}
    BY <1>5, <1>8 DEF Gates, OwnerWaitsAtGate
  <2>2. CASE v = u
    BY <2>1, <2>2, <1>5, <1>8, EndedTyped
  <2>3. CASE v # u
    BY <2>1, <2>3, <1>8, <1>11 DEF Gates, OwnerWaitsAtGate, OpenGates, IsOpen
  <2> QED
    BY <2>2, <2>3
<1>13. ShowsAtGates'
  <2> SUFFICES ASSUME NEW r \in Shows
               PROVE  /\ show'[r].at = "ended" => show'[r] = Ended
                      /\ show'[r].at # "ended" =>
                           /\ show'[r].user \in Users
                           /\ ~show'[r].cancelled =>
                                gate'[show'[r].user] # NoGate /\ gate'[show'[r].user].show = r
    BY DEF ShowsAtGates, IsOpen
  <2>1. CASE r = s
    BY <2>1, <1>5, <1>7, <1>8, EndedTyped
  <2>2. CASE r = o
    BY <2>2, <1>2, <1>3, <1>8
  <2>3. CASE r \notin {s, o}
    BY <2>3, <1>2, <1>6, <1>8 DEF Gates, ShowsAtGates, IsOpen
  <2> QED
    BY <2>1, <2>2, <2>3
<1> QED
  BY <1>9, <1>10, <1>12, <1>13 DEF Gates

\* Wherever no task, gate or command waits, nothing is promised to anybody.
LEMMA NothingWaits ==
    ASSUME gate = [u \in Users |-> NoGate], show = [s \in Shows |-> Ended],
           command = [c \in Commands |-> NoUser]
    PROVE  Gates
<1>1. GateTyped
  BY NoGateTyped, EndedTyped DEF GateTyped
<1>2. OpenGates
  BY DEF OpenGates, IsOpen
<1>3. OwnerWaitsAtGate
  BY NoGateTyped, NoneAssumption DEF OwnerWaitsAtGate, IsOpen
<1>4. ShowsAtGates
  BY EndedTyped DEF ShowsAtGates
<1> QED
  BY <1>1, <1>2, <1>3, <1>4 DEF Gates

LEMMA NothingWaitsAgain ==
    ASSUME gate' = [u \in Users |-> NoGate], show' = [s \in Shows |-> Ended],
           command' = [c \in Commands |-> NoUser]
    PROVE  Gates'
<1>1. GateTyped'
  BY NoGateTyped, EndedTyped DEF GateTyped
<1>2. OpenGates'
  BY DEF OpenGates, IsOpen
<1>3. OwnerWaitsAtGate'
  BY NoGateTyped, NoneAssumption DEF OwnerWaitsAtGate, IsOpen
<1>4. ShowsAtGates'
  BY EndedTyped DEF ShowsAtGates
<1> QED
  BY <1>1, <1>2, <1>3, <1>4 DEF Gates

-----------------------------------------------------------------------------
(* What the specification promises. *)

LEMMA InitGates == GateInit => GateInv
<1> SUFFICES ASSUME GateInit PROVE GateInv
  OBVIOUS
<1>1. DocsInv
  BY InitDocs DEF GateInit
<1>2. Gates
  BY NothingWaits DEF GateInit
<1> QED
  BY <1>1, <1>2 DEF GateInv

LEMMA NextGates == GateInv /\ [GateNext]_allVars => GateInv'
<1> SUFFICES ASSUME GateInv, [GateNext]_allVars PROVE GateInv'
  OBVIOUS
<1>1. DocsInv'
  BY StepRefines, NextDocs DEF GateInv
<1>2. Gates
  BY DEF GateInv
<1>3. ASSUME GateOnly
      PROVE  Gates'
  <2>1. ASSUME NEW u \in Users, NEW n \in Amounts, NEW s \in Shows, AskAgain(u, n, s)
        PROVE  Gates'
    BY <1>2, <2>1, AskAgainKeepsGates
  <2>2. ASSUME NEW c \in Commands, NEW u \in Users, NEW n \in Amounts, NEW s \in Shows,
               OpenGate(c, u, n, s)
        PROVE  Gates'
    BY <1>2, <2>2, OpenGateKeepsGates
  <2>3. ASSUME NEW s \in Shows, ShowStep(s) PROVE Gates'
    BY <1>2, <2>3, ShowStepKeepsGates
  <2>4. ASSUME NEW s \in Shows, Press(s) PROVE Gates'
    BY <1>2, <2>4, PressKeepsGates
  <2> QED
    BY <1>3, <2>1, <2>2, <2>3, <2>4 DEF GateOnly
<1>4. ASSUME \E s \in Shows, h \in Handlers : ConsentNoted(s, h)
      PROVE  Gates'
  BY <1>2, <1>4, ConsentNotedKeepsGates
<1>5. ASSUME WalletStep \/ UNCHANGED allVars
      PROVE  Gates'
  <2>1. UNCHANGED gateVars
    BY <1>5 DEF WalletStep, gateVars, allVars
  <2> QED
    BY <1>2, <2>1 DEF gateVars, Gates, GateTyped, OpenGates, OwnerWaitsAtGate, ShowsAtGates, IsOpen
<1>6. ASSUME Restarted
      PROVE  Gates'
  BY <1>6, NothingWaitsAgain DEF Restarted
<1>7. ASSUME \E h \in Handlers : Landed(h)
      PROVE  Gates'
  BY <1>2, <1>7, LandedKeepsGates
<1>8. Gates'
  BY <1>3, <1>4, <1>5, <1>6, <1>7, GateNextParts
<1> QED
  BY <1>1, <1>8 DEF GateInv

THEOREM GateInvariance == GateSpec => []GateInv
BY InitGates, NextGates, PTL DEF GateSpec

\* Gates, tasks and commands stay well formed, as the wallet does.
THEOREM GatesTyped == GateSpec => []GateTypeOK
<1>1. GateInv => GateTypeOK
  BY DEF GateInv, DocsInv, Gates, GateTyped, GateTypeOK
<1> QED
  BY GateInvariance, <1>1, PTL

\* A gate is open exactly while its first command waits, and then a task that was
\* not withdrawn is there to answer it: _show_negative_message_gate looks at the
\* generation wherever it resumes, and every exit of the current task answers.
THEOREM OwnersWaitForSomebody == GateSpec => []OwnerWaitsAtGate
<1>1. GateInv => OwnerWaitsAtGate
  BY DEF GateInv, Gates
<1> QED
  BY GateInvariance, <1>1, PTL

\* The gates change the wallet as the wallet allows: a consent is written only
\* where the cost of the gate still calls for it.
THEOREM GatesImplementWallet == GateSpec => ImplementsWallet
<1>1. GateInit => Init
  BY DEF GateInit
<1> QED
  BY GateInvariance, <1>1, StepRefines, PTL DEF GateSpec, ImplementsWallet, Spec

\* So nobody owes chips without consent with the gates at work either.
THEOREM GatedDebtNeedsConsent == GateSpec => []DebtWasAuthorized
BY GatesImplementWallet, DebtNeedsConsent, PTL DEF ImplementsWallet

-----------------------------------------------------------------------------
(* Where a consent comes from. *)

\* No change of a balance gives a consent: costs and bonuses keep it, credits may
\* end it.
LEMMA BalancesGiveNoConsent ==
    ASSUME NEW d \in Doc, NEW n \in Nat
    PROVE  /\ Spent(d, n).authorized = d.authorized
           /\ Gained(d, n).authorized => d.authorized
           /\ [GainedBonus(d, n) EXCEPT !.recharges = @ + 1].authorized = d.authorized
           /\ WithDaily(d).authorized => d.authorized
<1>1. /\ Spent(d, n).authorized = d.authorized
      /\ [GainedBonus(d, n) EXCEPT !.recharges = @ + 1].authorized = d.authorized
  BY DEF Spent, GainedBonus, Doc
<1>2. ASSUME NEW m \in Nat
      PROVE  Gained(d, m).authorized => d.authorized
  BY DEF Gained, Doc
<1>3. WithDaily(d).authorized = Gained(d, DailyChips).authorized
  BY DEF WithDaily, Gained, GainedBonus, Doc
<1> QED
  BY <1>1, <1>2, <1>3, GrantsAssumption

LEMMA WalletStepGivesNoConsent ==
    ASSUME DocsInv, WalletStep, NEW u \in Users, cache'[u].authorized
    PROVE  cache[u].authorized
<1>1. \A v \in Users : cache[v] \in Doc
  BY DEF DocsInv, TypeOK
<1>2. cache \in [Users -> Doc]
  BY DEF DocsInv, TypeOK
<1>3. ASSUME NEW h \in Handlers, NEW v \in Users, NEW n \in Amounts,
             TryConsume(h, v, n) \/ Prize(h, v, n)
      PROVE  cache[u].authorized
  <2>1. cache' = [cache EXCEPT ![v] = Spent(cache[v], n)]
           \/ cache' = [cache EXCEPT ![v] = Gained(cache[v], n)]
    BY <1>3 DEF TryConsume, Prize, SaveLocked
  <2> QED
    BY <1>1, <1>2, <2>1, AmountsAssumption, BalancesGiveNoConsent
<1>4. ASSUME NEW h \in Handlers, NEW v \in Users, AskRecharge(h, v)
      PROVE  cache[u].authorized
  BY <1>4 DEF AskRecharge
<1>5. ASSUME NEW h \in Handlers, NEW v \in Users, ClaimDaily(h, v)
      PROVE  cache[u].authorized
  <2>1. cache' = [cache EXCEPT ![v] = WithDaily(cache[v])]
    BY <1>5 DEF ClaimDaily, SaveUnlocked
  <2>2. WithDaily(cache[v]).authorized => cache[v].authorized
    BY <1>1, GrantsAssumption, BalancesGiveNoConsent
  <2> QED
    BY <1>2, <2>1, <2>2
<1>6. ASSUME NEW h \in Handlers, Recharge(h)
      PROVE  cache[u].authorized
  <2> DEFINE v == saving[h].user
  <2>1. v \in Users
    BY <1>6 DEF Recharge, DocsInv, SavesHaveUsers
  <2>2. cache' = [cache EXCEPT ![v] =
                    [GainedBonus(cache[v], RechargeBonus) EXCEPT !.recharges = @ + 1]]
    BY <1>6 DEF Recharge, SaveLocked
  <2> HIDE DEF v
  <2>3. [GainedBonus(cache[v], RechargeBonus) EXCEPT !.recharges = @ + 1].authorized
           = cache[v].authorized
    BY <1>1, <2>1, GrantsAssumption, BalancesGiveNoConsent
  <2> QED
    BY <1>2, <2>1, <2>2, <2>3
<1> QED
  BY <1>3, <1>4, <1>5, <1>6 DEF WalletStep

LEMMA LandedGivesNoConsent ==
    ASSUME DocsInv, NEW h \in Handlers, Landed(h), NEW u \in Users, cache'[u].authorized
    PROVE  cache[u].authorized
<1> DEFINE v == saving[h].user
<1>1. cache \in [Users -> Doc]
  BY DEF DocsInv, TypeOK
<1>2. v \in Users
  BY DEF Landed, SaveLands, LockedSaveLands, UnlockedSaveLands, DocsInv, SavesHaveUsers
<1>3. \/ cache' = cache
      \/ cache' = [cache EXCEPT ![v] = [cache[v] EXCEPT !.recharged = TRUE]]
  BY <1>1, <1>2 DEF Landed, SaveLands, LockedSaveLands, UnlockedSaveLands
<1> HIDE DEF v
<1>4. [cache[v] EXCEPT !.recharged = TRUE].authorized = cache[v].authorized
  BY <1>1, <1>2 DEF Doc
<1> QED
  BY <1>1, <1>2, <1>3, <1>4

\* A consent that was not there comes from the task of the open gate, whose view was
\* pressed, while the cost of the gate's command still calls for it.
LEMMA ConsentComesFromPress ==
    ASSUME GateInv, [GateNext]_allVars, NEW u \in Users,
           cache'[u].authorized, ~cache[u].authorized, ~Restarted
    PROVE  /\ IsOpen(u) /\ show[gate[u].show].confirmed
           /\ NeedsConfirmation(cache[u], gate[u].amount)
<1>1. DocsInv /\ Gates /\ cache \in [Users -> Doc]
  BY DEF GateInv, DocsInv, TypeOK
<1>2. ~GateOnly /\ ~UNCHANGED allVars
  BY GateOnlyKeepsWallet DEF vars, allVars
<1>3. ~WalletStep /\ \A h \in Handlers : ~Landed(h)
  BY <1>1, WalletStepGivesNoConsent, LandedGivesNoConsent
<1>4. PICK s \in Shows, h \in Handlers : ConsentNoted(s, h)
  BY <1>2, <1>3, GateNextParts
<1> DEFINE v == show[s].user
<1>5. /\ show[s].at = "shown" /\ ~show[s].cancelled /\ show[s].confirmed
      /\ NeedsConfirmation(cache[v], gate[v].amount)
      /\ cache' = [cache EXCEPT ![v] = [cache[v] EXCEPT !.authorized = TRUE]]
  BY <1>4 DEF ConsentNoted, Runs, StillNeeded, SaveUnlocked
<1>6. IsOpen(v) /\ gate[v].show = s
  BY <1>1, <1>5 DEF Gates, ShowsAtGates
<1>7. u = v
  BY <1>1, <1>5
<1> QED
  BY <1>5, <1>6, <1>7

\* A press on a message that was withdrawn, or for a cost that does not call for it
\* any more, gives no consent.
THEOREM ConsentsArePressed == GateSpec => ConsentIsPressed
<1>1. GateInv /\ [GateNext]_allVars =>
        [\A u \in Users :
           cache'[u].authorized /\ ~cache[u].authorized /\ ~Restarted =>
             /\ IsOpen(u) /\ show[gate[u].show].confirmed
             /\ NeedsConfirmation(cache[u], gate[u].amount)]_allVars
  BY ConsentComesFromPress
<1> QED
  BY GateInvariance, <1>1, PTL DEF GateSpec, ConsentIsPressed
=============================================================================
