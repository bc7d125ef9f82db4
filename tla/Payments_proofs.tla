--------------------------- MODULE Payments_proofs ---------------------------
(***************************************************************************)
(* The theorems of the pay command, for every set of users, offers,        *)
(* handlers and amounts.  An offer keeps its payer, its target and its     *)
(* amount (Offered), the index has offers under their payer (Kept), and a  *)
(* handler works for the payer of its offer (Handled).  Chips are counted  *)
(* by sums over the users and over the handlers.                           *)
(***************************************************************************)
EXTENDS Payments, FiniteLemmas

Offered ==
    \A o \in Offers : IF offer[o].payer = NoUser THEN ~offer[o].timer ELSE offer[o].target \in Users
Kept == \A u \in Users : current[u] # NoOffer => offer[current[u]].payer = u
Works(w) == w.key \in Users /\ w.offer \in Offers /\ offer[w.offer].payer = w.key
Handled == \A r \in Reactors : reactor[r].pc # "idle" => Works(reactor[r])

IInv == TypeOK /\ Offered /\ Kept /\ Handled

\* What a step may do to the offers, to the index and to the handlers.
SameTerms(o) ==
    /\ offer'[o].payer = offer[o].payer /\ offer'[o].target = offer[o].target
    /\ offer'[o].amount = offer[o].amount
OfferSteps(o) ==
    IF offer[o].payer = NoUser
      THEN \/ offer'[o].payer = NoUser /\ ~offer'[o].timer
           \/ offer'[o].payer \in Users /\ offer'[o].target \in Users
      ELSE SameTerms(o)
IndexSteps(u) ==
    \/ current'[u] \in {current[u], NoOffer}
    \/ current'[u] \in Offers /\ offer[current'[u]].payer = u

LEMMA StepKeeps ==
    ASSUME IInv, TypeOK', \A o \in Offers : OfferSteps(o), \A u \in Users : IndexSteps(u),
           \A r \in Reactors : \/ reactor'[r] = reactor[r]
                               \/ reactor'[r].pc # "idle" => /\ reactor'[r].key \in Users /\ reactor'[r].offer \in Offers
                                                             /\ offer[reactor'[r].offer].payer = reactor'[r].key
    PROVE  IInv'
<1>1. \A o \in Offers : offer[o].payer # NoUser => SameTerms(o)
  BY DEF OfferSteps
<1>2. Offered'
  <2> SUFFICES ASSUME NEW o \in Offers
               PROVE  IF offer'[o].payer = NoUser THEN ~offer'[o].timer ELSE offer'[o].target \in Users
    BY DEF Offered
  <2> QED
    BY UsersAssumption DEF IInv, Offered, OfferSteps, SameTerms
<1>3. Kept'
  <2> SUFFICES ASSUME NEW u \in Users, current'[u] # NoOffer
               PROVE  offer'[current'[u]].payer = u
    BY DEF Kept
  <2>1. current'[u] \in Offers /\ offer[current'[u]].payer = u
    BY DEF IndexSteps, IInv, Kept, TypeOK
  <2> QED
    BY <1>1, <2>1, UsersAssumption DEF SameTerms
<1>4. Handled'
  <2> SUFFICES ASSUME NEW r \in Reactors, reactor'[r].pc # "idle"
               PROVE  /\ reactor'[r].key \in Users /\ reactor'[r].offer \in Offers
                      /\ offer'[reactor'[r].offer].payer = reactor'[r].key
    BY DEF Handled, Works
  <2>1. /\ reactor'[r].key \in Users /\ reactor'[r].offer \in Offers
        /\ offer[reactor'[r].offer].payer = reactor'[r].key
    BY DEF IInv, Handled, Works
  <2> QED
    BY <1>1, <2>1, UsersAssumption DEF SameTerms
<1> QED
  BY <1>2, <1>3, <1>4 DEF IInv

-----------------------------------------------------------------------------
\* Balances and taxes.
LEMMA SpentBalance ==
    ASSUME NEW b \in Balance, NEW n \in Nat
    PROVE  Spent(b, n) \in Balance /\ Worth(Spent(b, n)) = Worth(b) - n /\ Worth(b) \in Int
<1>1. b.chips \in Int /\ b.bonus \in Nat
  BY DEF Balance
<1>2. CASE n <= b.bonus
  <2>1. Spent(b, n) = [b EXCEPT !.bonus = b.bonus - n, !.chips = b.chips]
    BY <1>2 DEF Spent
  <2>2. b.bonus - n \in Nat
    BY <1>1, <1>2
  <2>3. Spent(b, n) \in Balance /\ Spent(b, n).chips = b.chips /\ Spent(b, n).bonus = b.bonus - n
    BY <1>1, <2>1, <2>2 DEF Balance
  <2> QED
    BY <1>1, <2>3 DEF Worth
<1>3. CASE ~(n <= b.bonus)
  <2>1. PICK left \in Int : left = b.chips - (n - b.bonus)
    BY <1>1
  <2>2. Spent(b, n) = [b EXCEPT !.bonus = 0, !.chips = left]
    BY <1>3, <2>1 DEF Spent
  <2>3. Spent(b, n) = [chips |-> left, bonus |-> 0, authorized |-> b.authorized]
    BY <2>2 DEF Balance
  <2>4. Spent(b, n) \in Balance
    BY <2>3 DEF Balance
  <2>5. Spent(b, n).bonus = 0 /\ Spent(b, n).chips = left
    BY <2>3
  <2> QED
    BY <1>1, <2>1, <2>4, <2>5 DEF Worth
<1> QED
  BY <1>2, <1>3

LEMMA GainedBalance ==
    ASSUME NEW b \in Balance, NEW n \in Int
    PROVE  Gained(b, n) \in Balance /\ Worth(Gained(b, n)) = Worth(b) + n /\ Worth(b) \in Int
<1>1. b.chips \in Int /\ b.bonus \in Nat /\ b.authorized \in BOOLEAN /\ b.chips + n \in Int
  BY DEF Balance
<1>2. PICK kept \in BOOLEAN : Gained(b, n) = [b EXCEPT !.chips = b.chips + n, !.authorized = kept]
  BY <1>1 DEF Gained
<1>3. /\ Gained(b, n) \in Balance /\ Gained(b, n).bonus = b.bonus
      /\ Gained(b, n).chips = b.chips + n
  BY <1>1, <1>2 DEF Balance
<1> QED
  BY <1>1, <1>3 DEF Worth

LEMMA TaxTyped ==
    ASSUME NEW n \in Nat
    PROVE  Tax(n) \in Nat /\ Received(n) \in Int /\ Received(n) + Tax(n) = n
<1>1. n \div 50 \in Int
  OBVIOUS
<1>2. Rounded(n) \in Int
  BY <1>1 DEF Rounded
<1>3. Tax(n) \in Nat
  BY <1>2 DEF Tax
<1> QED
  BY <1>3 DEF Received, Net

LEMMA OfferOf ==
    ASSUME IInv, NEW o \in Offers
    PROVE  /\ offer[o] \in OfferRecord /\ offer[o].amount \in Nat
           /\ offer[o].payer # NoUser => offer[o].payer \in Users /\ offer[o].target \in Users
BY DEF IInv, TypeOK, Offered, OfferRecord

LEMMA ReactorOf ==
    ASSUME IInv, NEW r \in Reactors, reactor[r].pc # "idle"
    PROVE  /\ reactor[r].key \in Users /\ reactor[r].offer \in Offers
           /\ offer[reactor[r].offer].payer = reactor[r].key /\ offer[reactor[r].offer].payer \in Users
           /\ offer[reactor[r].offer].target \in Users /\ offer[reactor[r].offer].amount \in Nat
BY OfferOf, UsersAssumption DEF IInv, Handled, Works

LEMMA CurrentOf ==
    ASSUME IInv, NEW u \in Users, current[u] # NoOffer
    PROVE  current[u] \in Offers /\ offer[current[u]].payer = u /\ offer[current[u]].target \in Users
BY OfferOf, UsersAssumption DEF IInv, Kept, TypeOK

LEMMA NewOfferTyped ==
    /\ NewOffer \in OfferRecord /\ NewOffer.payer = NoUser /\ ~NewOffer.timer /\ ~NewOffer.unconfirmed
    /\ NewOffer.shown = "nothing"
BY DEF NewOffer, OfferRecord, Shown

-----------------------------------------------------------------------------
\* Offers that change what they show, or who confirmed, keep their terms.
LEMMA OffersStep ==
    ASSUME IInv, NEW o \in Offers, NEW f \in OfferRecord, offer' = [offer EXCEPT ![o] = f],
           f.payer = offer[o].payer, f.target = offer[o].target, f.amount = offer[o].amount,
           f.payer = NoUser => ~f.timer
    PROVE  offer' \in [Offers -> OfferRecord] /\ \A p \in Offers : OfferSteps(p)
<1>1. offer' \in [Offers -> OfferRecord] /\ offer'[o] = f /\ \A p \in Offers \ {o} : offer'[p] = offer[p]
  BY DEF IInv, TypeOK
<1> QED
  BY <1>1 DEF OfferSteps, SameTerms, IInv, Offered

LEMMA AskPaymentKeeps ==
    ASSUME IInv, NEW o \in Offers, NEW payer \in Users, NEW target \in Users, NEW amount \in Amounts,
           AskPayment(o, payer, target, amount)
    PROVE  IInv' /\ \A p \in Offers : OfferSteps(p)
<1> DEFINE asked == [NewOffer EXCEPT !.payer = payer, !.target = target, !.amount = amount]
           withdrawn(p) == [offer[p] EXCEPT !.shown = "withdrawn"]
<1>1. /\ asked \in OfferRecord /\ asked.payer = payer /\ asked.target = target
  BY NewOfferTyped, AmountsAssumption DEF OfferRecord
<1>2. \A p \in Offers : /\ withdrawn(p) \in OfferRecord /\ withdrawn(p).payer = offer[p].payer
                         /\ withdrawn(p).target = offer[p].target /\ withdrawn(p).amount = offer[p].amount
  BY OfferOf DEF OfferRecord, Shown
<1>3. /\ offer[o].payer = NoUser
      /\ offer' = [p \in Offers |-> IF p = o THEN asked
                                    ELSE IF p = current[payer] THEN withdrawn(p) ELSE offer[p]]
      /\ current' = [current EXCEPT ![payer] = NoOffer]
      /\ UNCHANGED <<wallet, holder, reactor, taxed, played>>
  BY DEF AskPayment
<1> HIDE DEF asked, withdrawn
<1>4. TypeOK'
  <2>1. offer' \in [Offers -> OfferRecord]
    BY <1>1, <1>2, <1>3, OfferOf
  <2> QED
    BY <1>3, <2>1 DEF IInv, TypeOK
<1>5. \A p \in Offers : OfferSteps(p)
  <2> SUFFICES ASSUME NEW p \in Offers PROVE OfferSteps(p)
    OBVIOUS
  <2>1. CASE p = o
    BY <1>1, <1>3, <2>1 DEF OfferSteps
  <2>2. CASE p # o /\ p = current[payer]
    BY <1>2, <1>3, <2>2, CurrentOf, OffersAssumption, UsersAssumption DEF OfferSteps, SameTerms
  <2>3. CASE p # o /\ p # current[payer]
    BY <1>3, <2>3 DEF OfferSteps, SameTerms, IInv, Offered
  <2> QED
    BY <2>1, <2>2, <2>3
<1>6. \A u \in Users : IndexSteps(u)
  BY <1>3 DEF IndexSteps, IInv, TypeOK
<1> QED
  BY <1>3, <1>4, <1>5, <1>6, StepKeeps

LEMMA AskTooMuchKeeps ==
    ASSUME IInv, NEW payer \in Users, NEW amount \in Amounts, AskTooMuch(payer, amount)
    PROVE  IInv' /\ \A p \in Offers : OfferSteps(p)
<1>1. /\ current' = [current EXCEPT ![payer] = NoOffer]
      /\ UNCHANGED <<wallet, holder, offer, reactor, taxed, played>>
  BY DEF AskTooMuch
<1>2. TypeOK'
  BY <1>1 DEF IInv, TypeOK
<1>3. \A p \in Offers : OfferSteps(p)
  BY <1>1 DEF OfferSteps, SameTerms, IInv, Offered
<1>4. \A u \in Users : IndexSteps(u)
  BY <1>1 DEF IndexSteps, IInv, TypeOK
<1> QED
  BY <1>1, <1>2, <1>3, <1>4, StepKeeps

LEMMA OfferShownKeeps ==
    ASSUME IInv, NEW o \in Offers, OfferShown(o)
    PROVE  IInv' /\ \A p \in Offers : OfferSteps(p)
<1>1. PICK f : f = [offer[o] EXCEPT !.shown = "asking", !.timer = TRUE]
  OBVIOUS
<1>2. /\ offer[o].payer \in Users /\ offer' = [offer EXCEPT ![o] = f]
      /\ current' = [current EXCEPT ![offer[o].payer] = o]
      /\ UNCHANGED <<wallet, holder, reactor, taxed, played>>
  <2>1. offer' = [offer EXCEPT ![o] = [offer[o] EXCEPT !.shown = "asking", !.timer = TRUE]]
    BY DEF OfferShown
  <2> QED
    BY <1>1, <2>1, OfferOf DEF OfferShown, Sending
<1>3. f \in OfferRecord /\ f.payer = offer[o].payer /\ f.target = offer[o].target /\ f.amount = offer[o].amount
  BY <1>1, OfferOf DEF OfferRecord, Shown
<1>4. offer' \in [Offers -> OfferRecord] /\ \A p \in Offers : OfferSteps(p)
  BY <1>2, <1>3, UsersAssumption, OffersStep
<1>5. TypeOK'
  BY <1>2, <1>4 DEF IInv, TypeOK
<1>6. \A u \in Users : IndexSteps(u)
  BY <1>2 DEF IndexSteps, IInv, TypeOK
<1> QED
  BY <1>2, <1>4, <1>5, <1>6, StepKeeps

LEMMA TimerFiresKeeps ==
    ASSUME IInv, NEW o \in Offers, TimerFires(o)
    PROVE  IInv' /\ \A p \in Offers : OfferSteps(p)
<1>1. PICK expired :
          offer' = [p \in Offers |-> [offer[p] EXCEPT !.timer = (@ /\ p # o),
                                                     !.shown = IF p = expired THEN "expired" ELSE @]]
  BY DEF TimerFires
<1>2. /\ offer[o].timer /\ UNCHANGED <<wallet, holder, reactor, taxed, played>>
      /\ current' = [current EXCEPT ![offer[o].payer] = NoOffer] \/ current' = current
  BY DEF TimerFires
<1>3. \A p \in Offers : offer'[p] \in OfferRecord /\ SameTerms(p) /\ (offer'[p].timer => offer[p].timer)
  <2> SUFFICES ASSUME NEW p \in Offers
               PROVE  offer'[p] \in OfferRecord /\ SameTerms(p) /\ (offer'[p].timer => offer[p].timer)
    OBVIOUS
  <2>1. PICK timer \in BOOLEAN, shown \in Shown :
            /\ offer'[p] = [offer[p] EXCEPT !.timer = timer, !.shown = shown]
            /\ timer => offer[p].timer
    BY <1>1, OfferOf DEF OfferRecord, Shown
  <2> QED
    BY <2>1, OfferOf DEF OfferRecord, SameTerms
<1>4. offer' \in [Offers -> OfferRecord]
  BY <1>1, <1>3
<1>5. TypeOK'
  BY <1>2, <1>4 DEF IInv, TypeOK
<1>6. \A p \in Offers : OfferSteps(p)
  BY <1>3 DEF OfferSteps, SameTerms, IInv, Offered
<1>7. \A u \in Users : IndexSteps(u)
  BY <1>2 DEF IndexSteps, IInv, TypeOK
<1> QED
  BY <1>2, <1>5, <1>6, <1>7, StepKeeps

\* A handler starts on an offer, goes on, or ends.
LEMMA ReactorEndsTyped ==
    ASSUME IInv, NEW r \in Reactors, ReactorEnds(r)
    PROVE  /\ reactor' \in [Reactors -> [pc: ReactorState, key: Users \cup {NoUser}, offer: Offers \cup {NoOffer}]]
           /\ reactor'[r].pc = "idle" /\ \A s \in Reactors \ {r} : reactor'[s] = reactor[s]
BY DEF ReactorEnds, NoReaction, ReactorState, IInv, TypeOK

LEMMA ReactorMoves ==
    ASSUME IInv, NEW r \in Reactors, reactor[r].pc # "idle", NEW pc \in ReactorState, NEW o \in Offers,
           offer[o].payer = reactor[r].key, reactor' = [reactor EXCEPT ![r].pc = pc, ![r].offer = o]
    PROVE  /\ reactor' \in [Reactors -> [pc: ReactorState, key: Users \cup {NoUser}, offer: Offers \cup {NoOffer}]]
           /\ reactor'[r].pc = pc /\ reactor'[r].offer = o /\ reactor'[r].key = reactor[r].key
           /\ \A s \in Reactors \ {r} : reactor'[s] = reactor[s]
           /\ reactor'[r].key \in Users /\ offer[reactor'[r].offer].payer = reactor'[r].key
<1>1. reactor[r] \in [pc: ReactorState, key: Users \cup {NoUser}, offer: Offers \cup {NoOffer}]
  BY DEF IInv, TypeOK
<1>2. PICK w : w = [reactor[r] EXCEPT !.pc = pc, !.offer = o]
  OBVIOUS
<1>3. reactor' = [reactor EXCEPT ![r] = w]
  BY <1>2
<1>4. /\ w \in [pc: ReactorState, key: Users \cup {NoUser}, offer: Offers \cup {NoOffer}]
      /\ w.pc = pc /\ w.offer = o /\ w.key = reactor[r].key
  BY <1>1, <1>2
<1> QED
  BY <1>3, <1>4, ReactorOf DEF IInv, TypeOK

LEMMA ReactKeeps ==
    ASSUME IInv, NEW r \in Reactors, NEW o \in Offers, NEW u \in Users, NEW added \in BOOLEAN,
           React(r, o, u, added)
    PROVE  IInv' /\ \A p \in Offers : OfferSteps(p)
<1>1. /\ reactor[r].pc = "idle" /\ offer[o].payer \in Users
      /\ reactor' = [reactor EXCEPT ![r] = [pc |-> "editing", key |-> offer[o].payer, offer |-> o]]
      /\ UNCHANGED <<wallet, holder, current, taxed, played>>
  BY OfferOf DEF React
<1>2. PICK f : /\ offer' = [offer EXCEPT ![o] = f]
               /\ f = [offer[o] EXCEPT !.payerOk = added] \/ f = [offer[o] EXCEPT !.targetOk = added]
  <2>1. \/ offer' = [offer EXCEPT ![o] = [offer[o] EXCEPT !.payerOk = added]]
        \/ offer' = [offer EXCEPT ![o] = [offer[o] EXCEPT !.targetOk = added]]
    BY DEF React
  <2> QED
    BY <2>1
<1>3. /\ f \in OfferRecord /\ f.payer = offer[o].payer /\ f.target = offer[o].target
      /\ f.amount = offer[o].amount
  BY <1>2, OfferOf DEF OfferRecord
<1>4. offer' \in [Offers -> OfferRecord] /\ \A p \in Offers : OfferSteps(p)
  BY <1>1, <1>2, <1>3, UsersAssumption, OffersStep
<1>5. /\ reactor' \in [Reactors -> [pc: ReactorState, key: Users \cup {NoUser}, offer: Offers \cup {NoOffer}]]
      /\ reactor'[r] = [pc |-> "editing", key |-> offer[o].payer, offer |-> o]
      /\ \A s \in Reactors \ {r} : reactor'[s] = reactor[s]
  BY <1>1 DEF IInv, TypeOK, ReactorState
<1>6. TypeOK'
  BY <1>1, <1>4, <1>5 DEF IInv, TypeOK
<1>7. \A v \in Users : IndexSteps(v)
  BY <1>1 DEF IndexSteps
<1> QED
  BY <1>1, <1>4, <1>5, <1>6, <1>7, StepKeeps

\* The handler ends where nothing moves.
LEMMA HandlerGivesUp ==
    ASSUME IInv, NEW r \in Reactors, EditedUnconfirmed(r) \/ FinalizeNothing(r)
    PROVE  IInv' /\ \A p \in Offers : OfferSteps(p)
<1>1. ReactorEnds(r) /\ UNCHANGED <<wallet, holder, current, offer, taxed, played>>
  BY DEF EditedUnconfirmed, FinalizeNothing
<1>2. TypeOK'
  BY <1>1, ReactorEndsTyped DEF IInv, TypeOK
<1>3. (\A p \in Offers : OfferSteps(p)) /\ \A u \in Users : IndexSteps(u)
  BY <1>1 DEF OfferSteps, SameTerms, IndexSteps, IInv, Offered
<1> QED
  BY <1>1, <1>2, <1>3, ReactorEndsTyped, StepKeeps

LEMMA FinalizeCancelsKeeps ==
    ASSUME IInv, NEW r \in Reactors, FinalizeCancels(r)
    PROVE  IInv' /\ \A p \in Offers : OfferSteps(p)
<1>1. PICK o : o = current[reactor[r].key]
  OBVIOUS
<1>2. /\ reactor[r].pc = "editing" /\ o # NoOffer /\ ReactorEnds(r)
      /\ current' = [current EXCEPT ![reactor[r].key] = NoOffer]
      /\ offer' = [offer EXCEPT ![o].shown = "cancelled"] /\ UNCHANGED <<wallet, holder, taxed, played>>
  BY <1>1 DEF FinalizeCancels, Drop
<1>3. reactor[r].key \in Users /\ o \in Offers /\ offer[o].payer = reactor[r].key
  BY <1>1, <1>2, ReactorOf, CurrentOf
<1>4. PICK f : f = [offer[o] EXCEPT !.shown = "cancelled"]
  OBVIOUS
<1>5. /\ offer' = [offer EXCEPT ![o] = f] /\ f \in OfferRecord /\ f.payer = offer[o].payer
      /\ f.target = offer[o].target /\ f.amount = offer[o].amount
  BY <1>2, <1>3, <1>4, OfferOf DEF OfferRecord, Shown
<1>6. offer' \in [Offers -> OfferRecord] /\ \A p \in Offers : OfferSteps(p)
  BY <1>3, <1>5, UsersAssumption, OffersStep
<1>7. TypeOK'
  BY <1>2, <1>6, ReactorEndsTyped DEF IInv, TypeOK
<1>8. \A u \in Users : IndexSteps(u)
  BY <1>2 DEF IndexSteps, IInv, TypeOK
<1> QED
  BY <1>2, <1>6, <1>7, <1>8, ReactorEndsTyped, StepKeeps

\* The payer's lock is taken and the amount leaves the wallet.
LEMMA DebitTyped ==
    ASSUME IInv, NEW r \in Reactors, NEW o \in Offers, offer[o].payer \in Users, DebitUnderLock(r, o)
    PROVE  /\ holder' \in [Users -> Reactors \cup {NoHolder, Game}]
           /\ wallet' \in [Users -> Balance]
BY SpentBalance, OfferOf DEF DebitUnderLock, IInv, TypeOK

LEMMA FinalizeTransfersKeeps ==
    ASSUME IInv, NEW r \in Reactors, FinalizeTransfers(r)
    PROVE  IInv' /\ \A p \in Offers : OfferSteps(p)
<1>1. PICK o : o = current[reactor[r].key]
  OBVIOUS
<1>2. /\ reactor[r].pc = "editing" /\ o # NoOffer /\ UNCHANGED <<current, taxed, played>>
      /\ \/ DebitUnderLock(r, o) /\ reactor' = [reactor EXCEPT ![r].pc = "debited", ![r].offer = o]
         \/ /\ reactor' = [reactor EXCEPT ![r].pc = "waiting", ![r].offer = o]
            /\ UNCHANGED <<wallet, holder>>
  BY <1>1 DEF FinalizeTransfers
<1>3. /\ reactor[r].key \in Users /\ o \in Offers /\ offer[o].payer = reactor[r].key
      /\ offer[o] \in OfferRecord
  BY <1>1, <1>2, ReactorOf, CurrentOf, OfferOf
<1>4. PICK n \in Nat, unconfirmed \in BOOLEAN :
          offer' = [offer EXCEPT ![o].paid = n, ![o].unconfirmed = unconfirmed]
  <2>1. offer[o].paid + 1 \in Nat
    BY <1>3 DEF OfferRecord
  <2>2. (offer[o].unconfirmed \/ ~(offer[o].payerOk /\ offer[o].targetOk)) \in BOOLEAN
    OBVIOUS
  <2> QED
    BY <1>1, <2>1, <2>2 DEF FinalizeTransfers
<1>5. PICK f : f = [offer[o] EXCEPT !.paid = n, !.unconfirmed = unconfirmed]
  OBVIOUS
<1>6. /\ offer' = [offer EXCEPT ![o] = f] /\ f \in OfferRecord /\ f.payer = offer[o].payer
      /\ f.target = offer[o].target /\ f.amount = offer[o].amount
  BY <1>3, <1>4, <1>5 DEF OfferRecord
<1>7. offer' \in [Offers -> OfferRecord] /\ \A p \in Offers : OfferSteps(p)
  BY <1>3, <1>6, UsersAssumption, OffersStep
<1>8. /\ holder' \in [Users -> Reactors \cup {NoHolder, Game}] /\ wallet' \in [Users -> Balance]
  BY <1>2, <1>3, DebitTyped DEF IInv, TypeOK
<1>9. PICK pc \in ReactorState : reactor' = [reactor EXCEPT ![r].pc = pc, ![r].offer = o]
  BY <1>2 DEF ReactorState
<1>10. /\ reactor' \in [Reactors -> [pc: ReactorState, key: Users \cup {NoUser}, offer: Offers \cup {NoOffer}]]
       /\ reactor'[r].key \in Users /\ reactor'[r].offer \in Offers
       /\ offer[reactor'[r].offer].payer = reactor'[r].key
       /\ \A s \in Reactors \ {r} : reactor'[s] = reactor[s]
  BY <1>2, <1>3, <1>9, ReactorMoves
<1>11. TypeOK'
  BY <1>2, <1>7, <1>8, <1>10 DEF IInv, TypeOK
<1>12. \A u \in Users : IndexSteps(u)
  BY <1>2 DEF IndexSteps
<1> QED
  BY <1>7, <1>10, <1>11, <1>12, StepKeeps

\* The steps of a transfer change wallets and locks, and where the handler is.
LEMMA ReactorGoesOn ==
    ASSUME IInv, NEW r \in Reactors, reactor[r].pc # "idle", NEW pc \in ReactorState, ReactorAt(r, pc)
    PROVE  /\ reactor' \in [Reactors -> [pc: ReactorState, key: Users \cup {NoUser}, offer: Offers \cup {NoOffer}]]
           /\ reactor'[r].pc = pc /\ reactor'[r].offer = reactor[r].offer /\ reactor'[r].key = reactor[r].key
           /\ \A s \in Reactors \ {r} : reactor'[s] = reactor[s]
<1>1. reactor[r] \in [pc: ReactorState, key: Users \cup {NoUser}, offer: Offers \cup {NoOffer}]
  BY DEF IInv, TypeOK
<1>2. PICK w : w = [reactor[r] EXCEPT !.pc = pc]
  OBVIOUS
<1>3. reactor' = [reactor EXCEPT ![r] = w]
  BY <1>2 DEF ReactorAt
<1>4. /\ w \in [pc: ReactorState, key: Users \cup {NoUser}, offer: Offers \cup {NoOffer}]
      /\ w.pc = pc /\ w.offer = reactor[r].offer /\ w.key = reactor[r].key
  BY <1>1, <1>2
<1> QED
  BY <1>3, <1>4 DEF IInv, TypeOK

LEMMA TransferStep ==
    ASSUME IInv, NEW r \in Reactors, reactor[r].pc # "idle", NEW pc \in ReactorState, ReactorAt(r, pc),
           UNCHANGED <<current, offer, played>>, wallet' \in [Users -> Balance], taxed' \in Nat,
           holder' \in [Users -> Reactors \cup {NoHolder, Game}]
    PROVE  IInv' /\ \A p \in Offers : OfferSteps(p)
<1>1. TypeOK'
  BY ReactorGoesOn DEF IInv, TypeOK
<1>2. (\A p \in Offers : OfferSteps(p)) /\ \A u \in Users : IndexSteps(u)
  BY DEF OfferSteps, SameTerms, IndexSteps, IInv, Offered
<1>3. /\ reactor'[r].key \in Users /\ reactor'[r].offer \in Offers
      /\ offer[reactor'[r].offer].payer = reactor'[r].key
      /\ \A s \in Reactors \ {r} : reactor'[s] = reactor[s]
  BY ReactorGoesOn, ReactorOf
<1> QED
  BY <1>1, <1>2, <1>3, StepKeeps

LEMMA DebitKeeps ==
    ASSUME IInv, NEW r \in Reactors, Debit(r)
    PROVE  IInv' /\ \A p \in Offers : OfferSteps(p)
<1>1. /\ reactor[r].pc = "waiting" /\ DebitUnderLock(r, reactor[r].offer) /\ ReactorAt(r, "debited")
      /\ UNCHANGED <<current, offer, taxed, played>> /\ "debited" \in ReactorState
  BY DEF Debit, ReactorState
<1>2. holder' \in [Users -> Reactors \cup {NoHolder, Game}] /\ wallet' \in [Users -> Balance]
  BY <1>1, ReactorOf, DebitTyped
<1> QED
  BY <1>1, <1>2, TransferStep DEF IInv, TypeOK

LEMMA DebitSavedKeeps ==
    ASSUME IInv, NEW r \in Reactors, DebitSaved(r)
    PROVE  IInv' /\ \A p \in Offers : OfferSteps(p)
<1>1. /\ reactor[r].pc = "debited" /\ ReactorAt(r, "crediting") /\ "crediting" \in ReactorState
      /\ holder' = [holder EXCEPT ![offer[reactor[r].offer].payer] = NoHolder]
      /\ UNCHANGED <<wallet, current, offer, taxed, played>>
  BY DEF DebitSaved, ReactorState
<1>2. /\ holder' \in [Users -> Reactors \cup {NoHolder, Game}] /\ wallet' \in [Users -> Balance]
      /\ taxed' \in Nat
  BY <1>1 DEF IInv, TypeOK
<1> QED
  BY <1>1, <1>2, TransferStep

LEMMA CreditKeeps ==
    ASSUME IInv, NEW r \in Reactors, Credit(r)
    PROVE  IInv' /\ \A p \in Offers : OfferSteps(p)
<1>1. PICK o : o = reactor[r].offer
  OBVIOUS
<1>2. /\ reactor[r].pc = "crediting" /\ ReactorAt(r, "credited") /\ "credited" \in ReactorState
      /\ holder' = [holder EXCEPT ![offer[o].target] = r]
      /\ wallet' = [wallet EXCEPT ![offer[o].target] = Gained(@, Received(offer[o].amount))]
      /\ taxed' = taxed + Tax(offer[o].amount)
      /\ UNCHANGED <<current, offer, played>>
  BY <1>1 DEF Credit, ReactorState
<1>3. offer[o].target \in Users /\ Tax(offer[o].amount) \in Nat /\ Received(offer[o].amount) \in Int
  BY <1>1, <1>2, ReactorOf, TaxTyped
<1>4. wallet' \in [Users -> Balance]
  BY <1>2, <1>3, GainedBalance DEF IInv, TypeOK
<1>5. holder' \in [Users -> Reactors \cup {NoHolder, Game}] /\ taxed' \in Nat
  BY <1>2, <1>3 DEF IInv, TypeOK
<1> QED
  BY <1>2, <1>4, <1>5, TransferStep

LEMMA TransferEndsKeeps ==
    ASSUME IInv, NEW r \in Reactors, TransferEnds(r)
    PROVE  IInv' /\ \A p \in Offers : OfferSteps(p)
<1>1. PICK o : o = reactor[r].offer
  OBVIOUS
<1>2. /\ reactor[r].pc = "credited" /\ ReactorEnds(r)
      /\ holder' = [holder EXCEPT ![offer[o].target] = NoHolder]
      /\ current' = [current EXCEPT ![reactor[r].key] = NoOffer]
      /\ offer' = [offer EXCEPT ![o].shown = "done"] /\ UNCHANGED <<wallet, taxed, played>>
  BY <1>1 DEF TransferEnds
<1>3. o \in Offers /\ offer[o].payer \in Users
  BY <1>1, <1>2, ReactorOf
<1>4. PICK f : f = [offer[o] EXCEPT !.shown = "done"]
  OBVIOUS
<1>5. /\ offer' = [offer EXCEPT ![o] = f] /\ f \in OfferRecord /\ f.payer = offer[o].payer
      /\ f.target = offer[o].target /\ f.amount = offer[o].amount
  BY <1>2, <1>3, <1>4, OfferOf DEF OfferRecord, Shown
<1>6. offer' \in [Offers -> OfferRecord] /\ \A p \in Offers : OfferSteps(p)
  BY <1>3, <1>5, UsersAssumption, OffersStep
<1>7. TypeOK'
  BY <1>2, <1>6, ReactorEndsTyped DEF IInv, TypeOK
<1>8. \A u \in Users : IndexSteps(u)
  BY <1>2 DEF IndexSteps, IInv, TypeOK
<1> QED
  BY <1>2, <1>6, <1>7, <1>8, ReactorEndsTyped, StepKeeps

LEMMA GameKeeps ==
    ASSUME IInv, NEW u \in Users, EnterGame(u) \/ EntrySaved(u)
    PROVE  IInv' /\ \A p \in Offers : OfferSteps(p)
<1>1. /\ UNCHANGED <<current, offer, reactor, taxed>>
      /\ \E h \in {NoHolder, Game} : holder' = [holder EXCEPT ![u] = h]
      /\ \/ UNCHANGED <<wallet, played>>
         \/ wallet' = [wallet EXCEPT ![u] = Spent(@, Entry)] /\ played' = played + Entry
  BY DEF EnterGame, EntrySaved
<1>2. wallet' \in [Users -> Balance] /\ played' \in Nat
  BY <1>1, SpentBalance, EntryAssumption DEF IInv, TypeOK
<1>3. TypeOK'
  BY <1>1, <1>2 DEF IInv, TypeOK
<1>4. (\A p \in Offers : OfferSteps(p)) /\ \A v \in Users : IndexSteps(v)
  BY <1>1 DEF OfferSteps, SameTerms, IndexSteps, IInv, Offered
<1> QED
  BY <1>1, <1>3, <1>4, StepKeeps

-----------------------------------------------------------------------------
\* The invariant, from the first state through every step.
LEMMA InitIInv == Init => IInv
<1> SUFFICES ASSUME Init PROVE IInv
  OBVIOUS
<1>1. TypeOK
  BY NewOfferTyped, StartAssumption DEF Init, TypeOK, NoReaction, ReactorState
<1>2. Offered /\ Kept /\ Handled
  BY NewOfferTyped DEF Init, Offered, Kept, Handled, NoReaction
<1> QED
  BY <1>1, <1>2 DEF IInv

LEMMA NextIInv == IInv /\ [Next]_vars => IInv' /\ \A p \in Offers : OfferSteps(p)
<1> SUFFICES ASSUME IInv, [Next]_vars PROVE IInv' /\ \A p \in Offers : OfferSteps(p)
  OBVIOUS
<1>1. CASE \E o \in Offers, payer, target \in Users, amount \in Amounts : AskPayment(o, payer, target, amount)
  BY <1>1, AskPaymentKeeps
<1>2. CASE \E payer \in Users, amount \in Amounts : AskTooMuch(payer, amount)
  BY <1>2, AskTooMuchKeeps
<1>3. CASE \E o \in Offers : OfferShown(o) \/ TimerFires(o)
  BY <1>3, OfferShownKeeps, TimerFiresKeeps
<1>4. CASE \E r \in Reactors, o \in Offers, u \in Users, added \in BOOLEAN : React(r, o, u, added)
  BY <1>4, ReactKeeps
<1>5. CASE \E r \in Reactors : ReactorStep(r)
  BY <1>5, HandlerGivesUp, FinalizeCancelsKeeps, FinalizeTransfersKeeps, DebitKeeps, DebitSavedKeeps,
     CreditKeeps, TransferEndsKeeps DEF ReactorStep
<1>6. CASE \E u \in Users : EnterGame(u) \/ EntrySaved(u)
  BY <1>6, GameKeeps
<1>7. CASE UNCHANGED vars
  BY <1>7 DEF vars, IInv, TypeOK, Offered, Kept, Handled, Works, OfferSteps, SameTerms
<1> QED
  BY <1>1, <1>2, <1>3, <1>4, <1>5, <1>6, <1>7 DEF Next

\* Payments!TypeOK, which ChipsAccounted includes: every wallet, lock, offer and handler of
\* payments.py keeps its form.
THEOREM PaymentsTyped == Spec => []TypeOK
<1>1. IInv => TypeOK
  BY DEF IInv
<1> QED
  BY InitIInv, NextIInv, <1>1, PTL DEF Spec

-----------------------------------------------------------------------------
\* What messages say.  Only _finalize_payment notes a transfer, and only a timer lets an
\* offer expire.
Gone(p) == offer[p].payer # NoUser /\ offer[p].shown # "nothing" /\ Superseded(p)
PaidInv ==
    \A o \in Offers : offer[o].unconfirmed =>
        offer[o].payer # NoUser /\ \E p \in Offers \ {o} : offer[p].payer = offer[o].payer /\ Gone(p)

\* An offer is kept, and reacted to, only once its message has been sent.
Seen ==
    /\ \A u \in Users : current[u] # NoOffer => offer[current[u]].shown # "nothing"
    /\ \A o \in Offers : offer[o].payerOk \/ offer[o].targetOk =>
          offer[o].payer # NoUser /\ offer[o].shown # "nothing"

Quiet(o) ==
    /\ offer'[o].unconfirmed => offer[o].unconfirmed
    /\ offer'[o].shown = "expired" /\ offer'[o].timer => offer[o].shown = "expired" /\ offer[o].timer

LEMMA OneOfferQuiet ==
    ASSUME IInv, NEW o \in Offers, NEW f, offer' = [offer EXCEPT ![o] = f],
           f.unconfirmed => offer[o].unconfirmed,
           f.shown = "expired" /\ f.timer => offer[o].shown = "expired" /\ offer[o].timer
    PROVE  \A p \in Offers : Quiet(p)
BY DEF Quiet, IInv, TypeOK

LEMMA AskPaymentQuiet ==
    ASSUME IInv, NEW o \in Offers, NEW payer \in Users, NEW target \in Users, NEW amount \in Amounts,
           AskPayment(o, payer, target, amount), NEW p \in Offers
    PROVE  Quiet(p)
<1>1. CASE p = o
  <2>1. offer'[p] = [NewOffer EXCEPT !.payer = payer, !.target = target, !.amount = amount]
    BY <1>1 DEF AskPayment
  <2>2. ~offer'[p].unconfirmed /\ offer'[p].shown = "nothing"
    BY <2>1, NewOfferTyped DEF OfferRecord
  <2> QED
    BY <2>2 DEF Quiet
<1>2. CASE p # o /\ p = current[payer]
  <2>1. offer'[p] = [offer[p] EXCEPT !.shown = "withdrawn"]
    BY <1>2 DEF AskPayment
  <2>2. offer'[p].unconfirmed = offer[p].unconfirmed /\ offer'[p].shown = "withdrawn"
    BY <2>1, OfferOf DEF OfferRecord
  <2> QED
    BY <2>2 DEF Quiet
<1>3. CASE p # o /\ p # current[payer]
  BY <1>3 DEF AskPayment, Quiet
<1> QED
  BY <1>1, <1>2, <1>3

LEMMA TimerFiresQuiet ==
    ASSUME IInv, NEW o \in Offers, TimerFires(o), NEW p \in Offers
    PROVE  Quiet(p)
<1>1. PICK expired : /\ expired \in {o, NoOffer}
                     /\ offer'[p] = [offer[p] EXCEPT !.timer = (@ /\ p # o),
                                                     !.shown = IF p = expired THEN "expired" ELSE @]
  BY DEF TimerFires, OwnOffer
<1>2. CASE p = o
  <2>1. PICK shown \in Shown : offer'[p] = [offer[p] EXCEPT !.timer = FALSE, !.shown = shown]
    BY <1>1, <1>2, OfferOf DEF OfferRecord, Shown
  <2>2. ~offer'[p].timer /\ offer'[p].unconfirmed = offer[p].unconfirmed
    BY <2>1, OfferOf DEF OfferRecord
  <2> QED
    BY <2>2 DEF Quiet
<1>3. CASE p # o
  <2>1. offer'[p] = [offer[p] EXCEPT !.timer = offer[p].timer, !.shown = offer[p].shown]
    BY <1>1, <1>3, OfferOf, OffersAssumption DEF OfferRecord
  <2>2. /\ offer'[p].timer = offer[p].timer /\ offer'[p].shown = offer[p].shown
        /\ offer'[p].unconfirmed = offer[p].unconfirmed
    BY <2>1, OfferOf DEF OfferRecord
  <2> QED
    BY <2>2 DEF Quiet
<1> QED
  BY <1>2, <1>3

LEMMA HandlerQuiet ==
    ASSUME IInv, NEW r \in Reactors, FinalizeCancels(r) \/ TransferEnds(r)
    PROVE  \A p \in Offers : Quiet(p)
<1>1. PICK o \in Offers, shown \in {"cancelled", "done"} : offer' = [offer EXCEPT ![o].shown = shown]
  <2>1. CASE FinalizeCancels(r)
    BY <2>1, ReactorOf, CurrentOf DEF FinalizeCancels, Drop
  <2>2. CASE TransferEnds(r)
    BY <2>2, ReactorOf DEF TransferEnds
  <2> QED
    BY <2>1, <2>2
<1>2. PICK f : f = [offer[o] EXCEPT !.shown = shown]
  OBVIOUS
<1>3. f.shown # "expired" /\ f.unconfirmed = offer[o].unconfirmed
  BY <1>2, OfferOf DEF OfferRecord
<1> QED
  BY <1>1, <1>2, <1>3, OneOfferQuiet

LEMMA ReactQuiet ==
    ASSUME IInv, NEW r \in Reactors, NEW o \in Offers, NEW u \in Users, NEW added \in BOOLEAN,
           React(r, o, u, added)
    PROVE  \A p \in Offers : Quiet(p)
<1>1. PICK f : /\ offer' = [offer EXCEPT ![o] = f]
               /\ f = [offer[o] EXCEPT !.payerOk = added] \/ f = [offer[o] EXCEPT !.targetOk = added]
  <2>1. \/ offer' = [offer EXCEPT ![o] = [offer[o] EXCEPT !.payerOk = added]]
        \/ offer' = [offer EXCEPT ![o] = [offer[o] EXCEPT !.targetOk = added]]
    BY DEF React
  <2> QED
    BY <2>1
<1>2. f.unconfirmed = offer[o].unconfirmed /\ f.shown = offer[o].shown /\ f.timer = offer[o].timer
  BY <1>1, OfferOf DEF OfferRecord
<1> QED
  BY <1>1, <1>2, OneOfferQuiet

LEMMA OfferShownQuiet ==
    ASSUME IInv, NEW o \in Offers, OfferShown(o)
    PROVE  \A p \in Offers : Quiet(p)
<1>1. PICK f : f = [offer[o] EXCEPT !.shown = "asking", !.timer = TRUE]
  OBVIOUS
<1>2. offer' = [offer EXCEPT ![o] = [offer[o] EXCEPT !.shown = "asking", !.timer = TRUE]]
  BY DEF OfferShown
<1>3. f.shown = "asking" /\ f.unconfirmed = offer[o].unconfirmed
  BY <1>1, OfferOf DEF OfferRecord
<1> QED
  BY <1>1, <1>2, <1>3, OneOfferQuiet

LEMMA FinalizeTransfersShows ==
    ASSUME IInv, NEW r \in Reactors, FinalizeTransfers(r), NEW o \in Offers
    PROVE  offer'[o].shown = offer[o].shown /\ offer'[o].timer = offer[o].timer
<1>1. PICK paid, noted : offer' = [offer EXCEPT ![paid].paid = offer[paid].paid + 1, ![paid].unconfirmed = noted]
  BY DEF FinalizeTransfers
<1>2. PICK f : /\ f = [offer[paid] EXCEPT !.paid = offer[paid].paid + 1, !.unconfirmed = noted]
               /\ offer' = [offer EXCEPT ![paid] = f]
  BY <1>1
<1>3. CASE o = paid
  <2>1. f.shown = offer[o].shown /\ f.timer = offer[o].timer
    BY <1>2, <1>3, OfferOf DEF OfferRecord
  <2>2. offer'[o] = f
    BY <1>2, <1>3 DEF IInv, TypeOK
  <2> QED
    BY <2>1, <2>2
<1>4. CASE o # paid
  BY <1>2, <1>4 DEF IInv, TypeOK
<1> QED
  BY <1>3, <1>4

LEMMA NextQuiet ==
    ASSUME IInv, [Next]_vars
    PROVE  (\A p \in Offers : Quiet(p)) \/ \E r \in Reactors : FinalizeTransfers(r)
<1>1. CASE \E o \in Offers, payer, target \in Users, amount \in Amounts : AskPayment(o, payer, target, amount)
  BY <1>1, AskPaymentQuiet
<1>2. CASE \E payer \in Users, amount \in Amounts : AskTooMuch(payer, amount)
  BY <1>2 DEF AskTooMuch, Quiet
<1>3. CASE \E o \in Offers : OfferShown(o) \/ TimerFires(o)
  BY <1>3, OfferShownQuiet, TimerFiresQuiet
<1>4. CASE \E r \in Reactors, o \in Offers, u \in Users, added \in BOOLEAN : React(r, o, u, added)
  BY <1>4, ReactQuiet
<1>5. CASE \E r \in Reactors : ReactorStep(r)
  <2> SUFFICES ASSUME NEW r \in Reactors, ReactorStep(r), ~FinalizeTransfers(r)
               PROVE  \A p \in Offers : Quiet(p)
    BY <1>5
  <2>1. CASE FinalizeCancels(r) \/ TransferEnds(r)
    BY <2>1, HandlerQuiet
  <2>2. CASE EditedUnconfirmed(r) \/ FinalizeNothing(r)
    BY <2>2 DEF EditedUnconfirmed, FinalizeNothing, Quiet
  <2>3. CASE Debit(r) \/ DebitSaved(r) \/ Credit(r)
    BY <2>3 DEF Debit, DebitSaved, Credit, Quiet
  <2> QED
    BY <2>1, <2>2, <2>3 DEF ReactorStep
<1>6. CASE \E u \in Users : EnterGame(u) \/ EntrySaved(u)
  BY <1>6 DEF EnterGame, EntrySaved, Quiet
<1>7. CASE UNCHANGED vars
  BY <1>7 DEF vars, Quiet
<1> QED
  BY <1>1, <1>2, <1>3, <1>4, <1>5, <1>6, <1>7 DEF Next

\* What a step may do to the confirmations of an offer, and to the index: a message that
\* was sent is never unsent, and only the offer that is kept is reacted to.
Marked(p) ==
    /\ offer[p].payer # NoUser /\ offer[p].shown # "nothing" => offer'[p].shown # "nothing"
    /\ \/ offer'[p].payerOk = offer[p].payerOk /\ offer'[p].targetOk = offer[p].targetOk
       \/ offer[p].payer = NoUser /\ ~offer'[p].payerOk /\ ~offer'[p].targetOk
       \/ offer[p].payer # NoUser /\ current[offer[p].payer] = p
Listed(u) ==
    \/ current'[u] \in {current[u], NoOffer}
    \/ /\ current'[u] \in Offers /\ offer[current'[u]].payer = u
       /\ offer[current'[u]].shown = "nothing" /\ offer'[current'[u]].shown # "nothing"
MarksKept == (\A p \in Offers : Marked(p)) /\ \A u \in Users : Listed(u)

LEMMA MarksStep ==
    ASSUME IInv, Seen, [Next]_vars, MarksKept
    PROVE  Seen' /\ \A p \in Offers : Gone(p) => Gone(p)' /\ offer'[p].payer = offer[p].payer
<1>1. \A p \in Offers : offer[p].payer # NoUser => SameTerms(p)
  BY NextIInv DEF OfferSteps
<1>2. \A u \in Users : current[u] # NoOffer =>
         current[u] \in Offers /\ offer[current[u]].payer = u /\ offer[current[u]].shown # "nothing"
  BY CurrentOf DEF Seen
<1>3. \A u \in Users : current'[u] # NoOffer => offer'[current'[u]].shown # "nothing"
  BY <1>2, UsersAssumption DEF MarksKept, Listed, Marked
<1>4. \A o \in Offers : offer'[o].payerOk \/ offer'[o].targetOk =>
         offer'[o].payer # NoUser /\ offer'[o].shown # "nothing"
  <2> SUFFICES ASSUME NEW o \in Offers, offer'[o].payerOk \/ offer'[o].targetOk
               PROVE  offer'[o].payer # NoUser /\ offer'[o].shown # "nothing"
    OBVIOUS
  <2>1. offer[o].payer # NoUser /\ offer[o].shown # "nothing"
    <3>1. CASE offer[o].payerOk \/ offer[o].targetOk
      BY <3>1 DEF Seen
    <3>2. CASE offer[o].payer # NoUser /\ current[offer[o].payer] = o
      BY <1>2, <3>2, OfferOf, OffersAssumption
    <3> QED
      BY <3>1, <3>2 DEF MarksKept, Marked
  <2> QED
    BY <1>1, <2>1 DEF MarksKept, Marked, SameTerms
<1>5. ASSUME NEW p \in Offers, Gone(p) PROVE Gone(p)' /\ offer'[p].payer = offer[p].payer
  <2>1. /\ offer[p].payer \in Users /\ offer[p].shown # "nothing" /\ current[offer[p].payer] # p
        /\ offer[p].payer # NoUser /\ offer[p].payerOk /\ offer[p].targetOk
    BY <1>5, OfferOf DEF Gone, Superseded
  <2>2. offer'[p].payer = offer[p].payer /\ offer'[p].shown # "nothing"
    BY <1>1, <2>1 DEF MarksKept, Marked, SameTerms
  <2>3. offer'[p].payerOk /\ offer'[p].targetOk
    BY <2>1 DEF MarksKept, Marked
  <2>4. current'[offer[p].payer] # p
    BY <2>1, OffersAssumption DEF MarksKept, Listed
  <2> QED
    BY <2>1, <2>2, <2>3, <2>4 DEF Gone, Superseded
<1> QED
  BY <1>3, <1>4, <1>5 DEF Seen

LEMMA OneOfferMarked ==
    ASSUME IInv, NEW o \in Offers, NEW f, offer' = [offer EXCEPT ![o] = f],
           f.shown = "nothing" => offer[o].shown = "nothing",
           \/ f.payerOk = offer[o].payerOk /\ f.targetOk = offer[o].targetOk
           \/ offer[o].payer # NoUser /\ current[offer[o].payer] = o
    PROVE  \A p \in Offers : Marked(p)
BY DEF Marked, IInv, TypeOK

LEMMA AskPaymentMarks ==
    ASSUME IInv, NEW o \in Offers, NEW payer \in Users, NEW target \in Users, NEW amount \in Amounts,
           AskPayment(o, payer, target, amount)
    PROVE  MarksKept
<1>1. ASSUME NEW p \in Offers PROVE Marked(p)
  <2>1. CASE p = o
    <3>1. offer[p].payer = NoUser /\ offer'[p] = [NewOffer EXCEPT !.payer = payer, !.target = target, !.amount = amount]
      BY <2>1 DEF AskPayment
    <3>2. ~offer'[p].payerOk /\ ~offer'[p].targetOk
      BY <3>1 DEF NewOffer
    <3> QED
      BY <3>1, <3>2 DEF Marked
  <2>2. CASE p # o /\ p = current[payer]
    <3>1. offer'[p] = [offer[p] EXCEPT !.shown = "withdrawn"]
      BY <2>2 DEF AskPayment
    <3>2. /\ offer'[p].payerOk = offer[p].payerOk /\ offer'[p].targetOk = offer[p].targetOk
          /\ offer'[p].shown = "withdrawn"
      BY <3>1, OfferOf DEF OfferRecord
    <3> QED
      BY <3>2 DEF Marked
  <2>3. CASE p # o /\ p # current[payer]
    BY <2>3 DEF AskPayment, Marked
  <2> QED
    BY <2>1, <2>2, <2>3
<1>2. \A u \in Users : Listed(u)
  BY DEF AskPayment, Listed, IInv, TypeOK
<1> QED
  BY <1>1, <1>2 DEF MarksKept

LEMMA TimerFiresMarks ==
    ASSUME IInv, NEW o \in Offers, TimerFires(o)
    PROVE  MarksKept
<1>1. ASSUME NEW p \in Offers PROVE Marked(p)
  <2>1. PICK expired : offer'[p] = [offer[p] EXCEPT !.timer = (@ /\ p # o),
                                                    !.shown = IF p = expired THEN "expired" ELSE @]
    BY DEF TimerFires
  <2>2. PICK timer, shown : /\ timer = (offer[p].timer /\ p # o)
                            /\ shown = IF p = expired THEN "expired" ELSE offer[p].shown
    OBVIOUS
  <2>3. offer'[p] = [offer[p] EXCEPT !.timer = timer, !.shown = shown]
    BY <2>1, <2>2
  <2>4. /\ offer'[p].payerOk = offer[p].payerOk /\ offer'[p].targetOk = offer[p].targetOk
        /\ offer'[p].shown = shown
    BY <2>3, OfferOf DEF OfferRecord
  <2> QED
    BY <2>2, <2>4 DEF Marked
<1>2. \A u \in Users : Listed(u)
  BY DEF TimerFires, Listed, IInv, TypeOK
<1> QED
  BY <1>1, <1>2 DEF MarksKept

LEMMA OfferShownMarks ==
    ASSUME IInv, NEW o \in Offers, OfferShown(o)
    PROVE  MarksKept
<1>1. PICK f : f = [offer[o] EXCEPT !.shown = "asking", !.timer = TRUE]
  OBVIOUS
<1>2. offer' = [offer EXCEPT ![o] = [offer[o] EXCEPT !.shown = "asking", !.timer = TRUE]]
  BY DEF OfferShown
<1>3. f.shown = "asking" /\ f.payerOk = offer[o].payerOk /\ f.targetOk = offer[o].targetOk
  BY <1>1, OfferOf DEF OfferRecord
<1>4. \A p \in Offers : Marked(p)
  BY <1>1, <1>2, <1>3, OneOfferMarked
<1>5. offer'[o].shown = "asking"
  BY <1>1, <1>2, <1>3 DEF IInv, TypeOK
<1>6. \A u \in Users : Listed(u)
  BY <1>5 DEF OfferShown, Sending, Listed, IInv, TypeOK
<1> QED
  BY <1>4, <1>6 DEF MarksKept

LEMMA ReactMarks ==
    ASSUME IInv, NEW r \in Reactors, NEW o \in Offers, NEW u \in Users, NEW added \in BOOLEAN,
           React(r, o, u, added)
    PROVE  MarksKept
<1>1. PICK f : /\ offer' = [offer EXCEPT ![o] = f]
               /\ f = [offer[o] EXCEPT !.payerOk = added] \/ f = [offer[o] EXCEPT !.targetOk = added]
  <2>1. \/ offer' = [offer EXCEPT ![o] = [offer[o] EXCEPT !.payerOk = added]]
        \/ offer' = [offer EXCEPT ![o] = [offer[o] EXCEPT !.targetOk = added]]
    BY DEF React
  <2> QED
    BY <2>1
<1>2. f.shown = offer[o].shown
  BY <1>1, OfferOf DEF OfferRecord
<1>3. offer[o].payer # NoUser /\ current[offer[o].payer] = o /\ current' = current
  BY DEF React
<1>4. \A p \in Offers : Marked(p)
  BY <1>1, <1>2, <1>3, OneOfferMarked
<1> QED
  BY <1>3, <1>4 DEF MarksKept, Listed

LEMMA HandlerMarks ==
    ASSUME IInv, NEW r \in Reactors, FinalizeCancels(r) \/ TransferEnds(r)
    PROVE  MarksKept
<1>1. PICK o \in Offers, shown \in {"cancelled", "done"} : offer' = [offer EXCEPT ![o].shown = shown]
  <2>1. CASE FinalizeCancels(r)
    BY <2>1, ReactorOf, CurrentOf DEF FinalizeCancels, Drop
  <2>2. CASE TransferEnds(r)
    BY <2>2, ReactorOf DEF TransferEnds
  <2> QED
    BY <2>1, <2>2
<1>2. PICK f : f = [offer[o] EXCEPT !.shown = shown]
  OBVIOUS
<1>3. f.shown # "nothing" /\ f.payerOk = offer[o].payerOk /\ f.targetOk = offer[o].targetOk
  BY <1>2, OfferOf DEF OfferRecord
<1>4. \A p \in Offers : Marked(p)
  BY <1>1, <1>2, <1>3, OneOfferMarked
<1>5. \A u \in Users : Listed(u)
  BY DEF FinalizeCancels, TransferEnds, Drop, Listed, IInv, TypeOK
<1> QED
  BY <1>4, <1>5 DEF MarksKept

\* The offer that is paid was confirmed by both, or the one reacted to was, which is not
\* the payer's offer any more.
LEMMA FinalizeTransfersMarks ==
    ASSUME IInv, Seen, NEW r \in Reactors, FinalizeTransfers(r)
    PROVE  /\ MarksKept
           /\ \A o \in Offers : offer'[o].unconfirmed =>
                 \/ offer[o].unconfirmed
                 \/ offer[o].payer # NoUser /\ \E p \in Offers \ {o} : offer[p].payer = offer[o].payer /\ Gone(p)
<1>1. PICK paid, p : paid = current[reactor[r].key] /\ p = reactor[r].offer
  OBVIOUS
<1>2. /\ reactor[r].pc = "editing" /\ paid # NoOffer /\ offer[p].payerOk /\ offer[p].targetOk
      /\ current' = current
  BY <1>1 DEF FinalizeTransfers, BothConfirmed
<1>3. /\ paid \in Offers /\ p \in Offers /\ reactor[r].key \in Users
      /\ offer[paid].payer = reactor[r].key /\ offer[p].payer = reactor[r].key
  BY <1>1, <1>2, ReactorOf, CurrentOf
<1>4. PICK noted : noted = (offer[paid].unconfirmed \/ ~(offer[paid].payerOk /\ offer[paid].targetOk))
  OBVIOUS
<1>5. PICK f : /\ f = [offer[paid] EXCEPT !.paid = offer[paid].paid + 1, !.unconfirmed = noted]
               /\ offer' = [offer EXCEPT ![paid] = f]
  <2>1. offer' = [offer EXCEPT ![paid].paid = offer[paid].paid + 1, ![paid].unconfirmed = noted]
    BY <1>1, <1>4 DEF FinalizeTransfers
  <2> QED
    BY <2>1
<1>6. /\ f.shown = offer[paid].shown /\ f.unconfirmed = noted
      /\ f.payerOk = offer[paid].payerOk /\ f.targetOk = offer[paid].targetOk
  BY <1>3, <1>5, OfferOf DEF OfferRecord
<1>7. \A q \in Offers : Marked(q)
  BY <1>3, <1>5, <1>6, OneOfferMarked
<1>8. MarksKept
  BY <1>2, <1>7 DEF MarksKept, Listed
<1>9. offer'[paid] = f /\ \A q \in Offers \ {paid} : offer'[q] = offer[q]
  BY <1>3, <1>5 DEF IInv, TypeOK
<1>10. CASE p = paid
  BY <1>2, <1>4, <1>6, <1>8, <1>9, <1>10
<1>11. CASE p # paid
  <2>1. Gone(p) /\ p \in Offers \ {paid} /\ offer[p].payer = offer[paid].payer /\ offer[paid].payer # NoUser
    BY <1>1, <1>2, <1>3, <1>11, UsersAssumption DEF Gone, Superseded, Seen
  <2> QED
    BY <1>8, <1>9, <2>1
<1> QED
  BY <1>10, <1>11

LEMMA NextMarks == IInv /\ Seen /\ [Next]_vars => MarksKept
<1> SUFFICES ASSUME IInv, Seen, [Next]_vars PROVE MarksKept
  OBVIOUS
<1>1. CASE \E o \in Offers, payer, target \in Users, amount \in Amounts : AskPayment(o, payer, target, amount)
  BY <1>1, AskPaymentMarks
<1>2. CASE \E payer \in Users, amount \in Amounts : AskTooMuch(payer, amount)
  BY <1>2 DEF AskTooMuch, MarksKept, Marked, Listed, IInv, TypeOK
<1>3. CASE \E o \in Offers : OfferShown(o) \/ TimerFires(o)
  BY <1>3, OfferShownMarks, TimerFiresMarks
<1>4. CASE \E r \in Reactors, o \in Offers, u \in Users, added \in BOOLEAN : React(r, o, u, added)
  BY <1>4, ReactMarks
<1>5. CASE \E r \in Reactors : ReactorStep(r)
  <2> SUFFICES ASSUME NEW r \in Reactors, ReactorStep(r) PROVE MarksKept
    BY <1>5
  <2>1. CASE FinalizeCancels(r) \/ TransferEnds(r)
    BY <2>1, HandlerMarks
  <2>2. CASE FinalizeTransfers(r)
    BY <2>2, FinalizeTransfersMarks
  <2>3. CASE EditedUnconfirmed(r) \/ FinalizeNothing(r)
    BY <2>3 DEF EditedUnconfirmed, FinalizeNothing, MarksKept, Marked, Listed
  <2>4. CASE Debit(r) \/ DebitSaved(r) \/ Credit(r)
    BY <2>4 DEF Debit, DebitSaved, Credit, MarksKept, Marked, Listed
  <2> QED
    BY <2>1, <2>2, <2>3, <2>4 DEF ReactorStep
<1>6. CASE \E u \in Users : EnterGame(u) \/ EntrySaved(u)
  BY <1>6 DEF EnterGame, EntrySaved, MarksKept, Marked, Listed
<1>7. CASE UNCHANGED vars
  BY <1>7 DEF vars, MarksKept, Marked, Listed
<1> QED
  BY <1>1, <1>2, <1>3, <1>4, <1>5, <1>6, <1>7 DEF Next

LEMMA NextSeen == IInv /\ Seen /\ [Next]_vars => Seen'
BY NextMarks, MarksStep

LEMMA NextPaid == IInv /\ Seen /\ PaidInv /\ [Next]_vars => PaidInv'
<1> SUFFICES ASSUME IInv, Seen, PaidInv, [Next]_vars, NEW o \in Offers, offer'[o].unconfirmed
             PROVE  /\ offer'[o].payer # NoUser
                    /\ \E p \in Offers \ {o} : offer'[p].payer = offer'[o].payer /\ Gone(p)'
  BY DEF PaidInv
<1>1. \/ offer[o].unconfirmed
      \/ offer[o].payer # NoUser /\ \E p \in Offers \ {o} : offer[p].payer = offer[o].payer /\ Gone(p)
  BY NextQuiet, FinalizeTransfersMarks DEF Quiet
<1>2. PICK p \in Offers \ {o} : offer[o].payer # NoUser /\ offer[p].payer = offer[o].payer /\ Gone(p)
  BY <1>1 DEF PaidInv
<1>3. offer'[o].payer = offer[o].payer
  BY <1>2, NextIInv DEF OfferSteps, SameTerms
<1>4. Gone(p)' /\ offer'[p].payer = offer[p].payer
  BY <1>2, NextMarks, MarksStep
<1> QED
  BY <1>2, <1>3, <1>4

\* Payments!PaidConfirmed: _finalize_payment looks up the payer's offer after the awaits of
\* the reaction handler; what it transfers was confirmed by both, or both had confirmed an
\* earlier offer of the same payer that is not kept any more.
THEOREM PaymentsConfirmed == Spec => []PaidConfirmed
<1>1. Init => PaidInv /\ Seen
  <2> SUFFICES ASSUME Init PROVE PaidInv /\ Seen
    OBVIOUS
  <2>1. \A o \in Offers : ~offer[o].unconfirmed /\ ~offer[o].payerOk /\ ~offer[o].targetOk
    BY DEF Init, NewOffer
  <2>2. \A u \in Users : current[u] = NoOffer
    BY DEF Init
  <2> QED
    BY <2>1, <2>2 DEF PaidInv, Seen
<1>2. PaidInv => PaidConfirmed
  BY DEF PaidInv, PaidConfirmed, Gone
<1> QED
  BY InitIInv, NextIInv, <1>1, NextSeen, NextPaid, <1>2, PTL DEF Spec

\* Payments!ExpiresInItsTime: _expire_later withdraws an offer only when that offer's own
\* timer has run out, however many offers the payer made meanwhile.
THEOREM OffersExpireInTime == Spec => []ExpiresInItsTime
<1>1. Init => ExpiresInItsTime
  BY NewOfferTyped DEF Init, ExpiresInItsTime
<1>2. IInv /\ ExpiresInItsTime /\ [Next]_vars => ExpiresInItsTime'
  <2> SUFFICES ASSUME IInv, ExpiresInItsTime, [Next]_vars, NEW o \in Offers, offer'[o].shown = "expired"
               PROVE  ~offer'[o].timer
    BY DEF ExpiresInItsTime
  <2> QED
    BY NextQuiet, FinalizeTransfersShows DEF Quiet, ExpiresInItsTime
<1> QED
  BY InitIInv, NextIInv, <1>1, <1>2, PTL DEF Spec

-----------------------------------------------------------------------------
\* The books.  A wallet changes, or what one handler carries.
Books == TotalWorth(wallet) + OnTheWay + taxed + played

LEMMA WealthMoves ==
    ASSUME IInv, NEW u \in Users, NEW b \in Balance, wallet' = [wallet EXCEPT ![u] = b]
    PROVE  /\ TotalWorth(wallet) \in Int /\ Worth(wallet[u]) \in Int /\ Worth(b) \in Int
           /\ TotalWorth(wallet)' = TotalWorth(wallet) + Worth(b) - Worth(wallet[u])
<1> DEFINE f == [v \in Users |-> Worth(wallet[v])]
           h == [v \in Users |-> Worth(wallet'[v])]
<1>1. /\ \A v \in Users : wallet[v] \in Balance /\ wallet'[v] \in Balance
      /\ wallet'[u] = b /\ \A v \in Users \ {u} : wallet'[v] = wallet[v]
  BY DEF IInv, TypeOK
<1>2. \A c \in Balance : Worth(c) \in Int
  BY DEF Balance, Worth
<1>3. f \in [Users -> Int] /\ h \in [Users -> Int] /\ h[u] = Worth(b) /\ f[u] = Worth(wallet[u])
  BY <1>1, <1>2
<1>4. \A v \in Users \ {u} : h[v] = f[v]
  BY <1>1
<1>5. TotalWorth(wallet) = SumFunctionOnSet(f, Users) /\ TotalWorth(wallet)' = SumFunctionOnSet(h, Users)
  BY DEF TotalWorth
<1> HIDE DEF f, h
<1>6. /\ SumFunctionOnSet(f, Users) \in Int
      /\ SumFunctionOnSet(h, Users) = SumFunctionOnSet(f, Users) + h[u] - f[u]
  BY <1>3, <1>4, UsersAssumption, SumChanged
<1> QED
  BY <1>1, <1>2, <1>3, <1>5, <1>6

LEMMA WealthTyped == IInv => TotalWorth(wallet) \in Int
<1> SUFFICES ASSUME IInv PROVE TotalWorth(wallet) \in Int
  OBVIOUS
<1> DEFINE f == [v \in Users |-> Worth(wallet[v])]
<1>1. f \in [Users -> Int]
  BY DEF IInv, TypeOK, Balance, Worth
<1> HIDE DEF f
<1>2. SumFunctionOnSet(f, Users) \in Int
  BY <1>1, UsersAssumption, SumTyped
<1> QED
  BY <1>2 DEF TotalWorth, f

LEMMA CarriedTyped == IInv => \A r \in Reactors : Carried(r) \in Int
BY ReactorOf DEF Carried

LEMMA IInvCarries ==
    ASSUME IInv', NEW s \in Reactors
    PROVE  Carried(s)' \in Int
<1> SUFFICES ASSUME reactor'[s].pc \in {"debited", "crediting"}
             PROVE  offer'[reactor'[s].offer].amount \in Int
  BY DEF Carried
<1>1. reactor'[s].offer \in Offers
  BY DEF IInv, Handled, Works
<1> QED
  BY <1>1 DEF IInv, TypeOK, OfferRecord

LEMMA CarriedMoves ==
    ASSUME IInv, IInv', NEW r \in Reactors, \A s \in Reactors \ {r} : Carried(s)' = Carried(s)
    PROVE  OnTheWay \in Int /\ OnTheWay' = OnTheWay + Carried(r)' - Carried(r)
<1> DEFINE f == [s \in Reactors |-> Carried(s)]
           h == [s \in Reactors |-> Carried(s)']
<1>1. \A s \in Reactors : Carried(s) \in Int
  BY CarriedTyped
<1>2. \A s \in Reactors : Carried(s)' \in Int
  BY IInvCarries
<1>3. f \in [Reactors -> Int] /\ h \in [Reactors -> Int] /\ h[r] = Carried(r)' /\ f[r] = Carried(r)
  BY <1>1, <1>2
<1>4. \A s \in Reactors \ {r} : h[s] = f[s]
  OBVIOUS
<1>5. OnTheWay = SumFunctionOnSet(f, Reactors) /\ OnTheWay' = SumFunctionOnSet(h, Reactors)
  BY DEF OnTheWay
<1> HIDE DEF f, h
<1>6. /\ SumFunctionOnSet(f, Reactors) \in Int
      /\ SumFunctionOnSet(h, Reactors) = SumFunctionOnSet(f, Reactors) + h[r] - f[r]
  BY <1>3, <1>4, ReactorsAssumption, SumChanged
<1> QED
  BY <1>3, <1>5, <1>6

\* A handler that rests carries what it carried: the terms of its offer stay.
LEMMA CarriedKept ==
    ASSUME IInv, \A o \in Offers : OfferSteps(o), NEW s \in Reactors, reactor'[s] = reactor[s]
    PROVE  Carried(s)' = Carried(s)
<1>1. CASE reactor[s].pc \in {"debited", "crediting"}
  <2>1. reactor[s].offer \in Offers /\ offer[reactor[s].offer].payer # NoUser
    BY <1>1, ReactorOf, UsersAssumption
  <2>2. offer'[reactor[s].offer].amount = offer[reactor[s].offer].amount
    BY <2>1 DEF OfferSteps, SameTerms
  <2> QED
    BY <1>1, <2>2 DEF Carried
<1>2. CASE reactor[s].pc \notin {"debited", "crediting"}
  BY <1>2 DEF Carried
<1> QED
  BY <1>1, <1>2

LEMMA AllCarriedKept ==
    ASSUME IInv, \A o \in Offers : OfferSteps(o), reactor' = reactor
    PROVE  OnTheWay' = OnTheWay /\ OnTheWay \in Int
<1> DEFINE f == [s \in Reactors |-> Carried(s)]
<1>1. \A s \in Reactors : Carried(s)' = Carried(s)
  BY CarriedKept
<1>2. f \in [Reactors -> Int] /\ [s \in Reactors |-> Carried(s)'] = f
  BY <1>1, CarriedTyped
<1>3. SumFunctionOnSet(f, Reactors) \in Int
  <2> HIDE DEF f
  <2> QED
    BY <1>2, ReactorsAssumption, SumTyped
<1> QED
  BY <1>2, <1>3 DEF OnTheWay

LEMMA WealthKept == wallet' = wallet => TotalWorth(wallet)' = TotalWorth(wallet)
BY DEF TotalWorth

\* What leaves the wallets is carried by the one handler that moves, taxed or played.
LEMMA HandlerBalances ==
    ASSUME IInv, IInv', \A o \in Offers : OfferSteps(o), NEW r \in Reactors,
           \A s \in Reactors \ {r} : reactor'[s] = reactor[s], TotalWorth(wallet)' \in Int,
           TotalWorth(wallet)' + Carried(r)' + taxed' + played' = TotalWorth(wallet) + Carried(r) + taxed + played
    PROVE  Books' = Books
<1>1. \A s \in Reactors \ {r} : Carried(s)' = Carried(s)
  BY CarriedKept
<1>2. OnTheWay \in Int /\ OnTheWay' = OnTheWay + Carried(r)' - Carried(r)
  BY <1>1, CarriedMoves
<1>3. Carried(r) \in Int /\ Carried(r)' \in Int
  BY CarriedTyped, IInvCarries
<1>4. TotalWorth(wallet) \in Int /\ taxed \in Int /\ taxed' \in Int /\ played \in Int /\ played' \in Int
  BY WealthTyped DEF IInv, TypeOK
<1> QED
  BY <1>2, <1>3, <1>4 DEF Books

LEMMA OffersOnlyBooks ==
    ASSUME IInv, \A o \in Offers : OfferSteps(o), UNCHANGED <<wallet, reactor, taxed, played>>
    PROVE  Books' = Books
BY AllCarriedKept, WealthKept DEF Books

\* Nothing is carried before the debit and after the credit.
LEMMA NothingMovesBooks ==
    ASSUME IInv, IInv', \A o \in Offers : OfferSteps(o), NEW r \in Reactors,
           UNCHANGED <<wallet, taxed, played>>, \A s \in Reactors \ {r} : reactor'[s] = reactor[s],
           Carried(r) = 0, Carried(r)' = 0
    PROVE  Books' = Books
<1>1. TotalWorth(wallet)' = TotalWorth(wallet) /\ TotalWorth(wallet) \in Int
  BY WealthKept, WealthTyped
<1> QED
  BY <1>1, HandlerBalances

LEMMA ReactBooks ==
    ASSUME IInv, IInv', \A p \in Offers : OfferSteps(p), NEW r \in Reactors, NEW o \in Offers, NEW u \in Users,
           NEW added \in BOOLEAN, React(r, o, u, added)
    PROVE  Books' = Books
<1>1. /\ reactor[r].pc = "idle" /\ UNCHANGED <<wallet, taxed, played>>
      /\ reactor' = [reactor EXCEPT ![r] = [pc |-> "editing", key |-> offer[o].payer, offer |-> o]]
  BY DEF React
<1>2. reactor'[r].pc = "editing" /\ \A s \in Reactors \ {r} : reactor'[s] = reactor[s]
  BY <1>1 DEF IInv, TypeOK
<1>3. Carried(r) = 0 /\ Carried(r)' = 0
  BY <1>1, <1>2 DEF Carried
<1> QED
  BY <1>1, <1>2, <1>3, NothingMovesBooks

LEMMA HandlerEndsBooks ==
    ASSUME IInv, IInv', \A p \in Offers : OfferSteps(p), NEW r \in Reactors,
           EditedUnconfirmed(r) \/ FinalizeNothing(r) \/ FinalizeCancels(r) \/ TransferEnds(r)
    PROVE  Books' = Books
<1>1. /\ reactor[r].pc \in {"editing", "credited"} /\ ReactorEnds(r) /\ UNCHANGED <<wallet, taxed, played>>
  BY DEF EditedUnconfirmed, FinalizeNothing, FinalizeCancels, TransferEnds
<1>2. reactor'[r].pc = "idle" /\ \A s \in Reactors \ {r} : reactor'[s] = reactor[s]
  BY <1>1, ReactorEndsTyped
<1>3. Carried(r) = 0 /\ Carried(r)' = 0
  BY <1>1, <1>2 DEF Carried
<1> QED
  BY <1>1, <1>2, <1>3, NothingMovesBooks

\* The debit: the payer has the amount less, the handler carries it.
LEMMA DebitBooks ==
    ASSUME IInv, IInv', \A p \in Offers : OfferSteps(p), NEW r \in Reactors, NEW o \in Offers,
           offer[o].payer \in Users, offer'[o].amount = offer[o].amount, DebitUnderLock(r, o),
           reactor[r].pc \in {"editing", "waiting"}, reactor'[r].pc = "debited", reactor'[r].offer = o,
           UNCHANGED <<taxed, played>>, \A s \in Reactors \ {r} : reactor'[s] = reactor[s]
    PROVE  Books' = Books
<1>1. PICK amount \in Nat : amount = offer[o].amount
  BY OfferOf
<1>2. PICK payer \in Users : payer = offer[o].payer
  OBVIOUS
<1>3. PICK b : b = Spent(wallet[payer], amount)
  OBVIOUS
<1>4. wallet' = [wallet EXCEPT ![payer] = b]
  BY <1>1, <1>2, <1>3 DEF DebitUnderLock
<1>5. b \in Balance /\ Worth(b) = Worth(wallet[payer]) - amount
  BY <1>3, SpentBalance DEF IInv, TypeOK
<1>6. /\ TotalWorth(wallet) \in Int /\ Worth(wallet[payer]) \in Int
      /\ TotalWorth(wallet)' = TotalWorth(wallet) + Worth(b) - Worth(wallet[payer])
  BY <1>4, <1>5, WealthMoves
<1>7. Carried(r) = 0 /\ Carried(r)' = amount
  BY <1>1 DEF Carried
<1>8. TotalWorth(wallet)' = TotalWorth(wallet) - amount
  BY <1>5, <1>6
<1>9. taxed \in Int /\ played \in Int
  BY DEF IInv, TypeOK
<1> QED
  BY <1>6, <1>7, <1>8, <1>9, HandlerBalances

LEMMA FinalizeTransfersBooks ==
    ASSUME IInv, IInv', \A p \in Offers : OfferSteps(p), NEW r \in Reactors, FinalizeTransfers(r)
    PROVE  Books' = Books
<1>1. PICK o : o = current[reactor[r].key]
  OBVIOUS
<1>2. /\ reactor[r].pc = "editing" /\ o # NoOffer /\ UNCHANGED <<taxed, played>>
      /\ \/ DebitUnderLock(r, o) /\ reactor' = [reactor EXCEPT ![r].pc = "debited", ![r].offer = o]
         \/ reactor' = [reactor EXCEPT ![r].pc = "waiting", ![r].offer = o] /\ UNCHANGED wallet
  BY <1>1 DEF FinalizeTransfers
<1>3. /\ o \in Offers /\ offer[o].payer = reactor[r].key /\ reactor[r].key \in Users
  BY <1>1, <1>2, ReactorOf, CurrentOf
<1>4. /\ offer'[o].amount = offer[o].amount
      /\ "debited" \in ReactorState /\ "waiting" \in ReactorState /\ reactor[r].pc # "idle"
  BY <1>2, <1>3, UsersAssumption DEF OfferSteps, SameTerms, ReactorState
<1>5. CASE DebitUnderLock(r, o) /\ reactor' = [reactor EXCEPT ![r].pc = "debited", ![r].offer = o]
  <2>1. /\ reactor'[r].pc = "debited" /\ reactor'[r].offer = o
        /\ \A s \in Reactors \ {r} : reactor'[s] = reactor[s]
    BY <1>3, <1>4, <1>5, ReactorMoves
  <2> QED
    BY <1>2, <1>3, <1>4, <1>5, <2>1, DebitBooks
<1>6. CASE reactor' = [reactor EXCEPT ![r].pc = "waiting", ![r].offer = o] /\ UNCHANGED wallet
  <2>1. reactor'[r].pc = "waiting" /\ \A s \in Reactors \ {r} : reactor'[s] = reactor[s]
    BY <1>3, <1>4, <1>6, ReactorMoves
  <2>2. Carried(r) = 0 /\ Carried(r)' = 0
    BY <1>2, <2>1 DEF Carried
  <2> QED
    BY <1>2, <1>6, <2>1, <2>2, NothingMovesBooks
<1> QED
  BY <1>2, <1>5, <1>6

LEMMA DebitStepBooks ==
    ASSUME IInv, IInv', \A p \in Offers : OfferSteps(p), NEW r \in Reactors, Debit(r)
    PROVE  Books' = Books
<1>1. /\ reactor[r].pc = "waiting" /\ DebitUnderLock(r, reactor[r].offer) /\ ReactorAt(r, "debited")
      /\ UNCHANGED <<offer, taxed, played>> /\ "debited" \in ReactorState
  BY DEF Debit, ReactorState
<1>2. /\ reactor'[r].pc = "debited" /\ reactor'[r].offer = reactor[r].offer
      /\ \A s \in Reactors \ {r} : reactor'[s] = reactor[s]
  BY <1>1, ReactorGoesOn
<1> QED
  BY <1>1, <1>2, ReactorOf, DebitBooks

LEMMA DebitSavedBooks ==
    ASSUME IInv, IInv', \A p \in Offers : OfferSteps(p), NEW r \in Reactors, DebitSaved(r)
    PROVE  Books' = Books
<1>1. /\ reactor[r].pc = "debited" /\ ReactorAt(r, "crediting")
      /\ UNCHANGED <<wallet, offer, taxed, played>> /\ "crediting" \in ReactorState
  BY DEF DebitSaved, ReactorState
<1>2. /\ reactor'[r].pc = "crediting" /\ reactor'[r].offer = reactor[r].offer
      /\ \A s \in Reactors \ {r} : reactor'[s] = reactor[s]
  BY <1>1, ReactorGoesOn
<1>3. Carried(r)' = Carried(r)
  BY <1>1, <1>2 DEF Carried
<1>4. TotalWorth(wallet)' = TotalWorth(wallet) /\ TotalWorth(wallet) \in Int
  BY <1>1, WealthKept, WealthTyped
<1> QED
  BY <1>1, <1>2, <1>3, <1>4, HandlerBalances

\* The credit: the target has the amount less the tax more, and the tax is noted.
LEMMA CreditBooks ==
    ASSUME IInv, IInv', \A p \in Offers : OfferSteps(p), NEW r \in Reactors, Credit(r)
    PROVE  Books' = Books
<1>1. PICK o : o = reactor[r].offer
  OBVIOUS
<1>2. /\ reactor[r].pc = "crediting" /\ ReactorAt(r, "credited") /\ "credited" \in ReactorState
      /\ wallet' = [wallet EXCEPT ![offer[o].target] = Gained(@, Received(offer[o].amount))]
      /\ taxed' = taxed + Tax(offer[o].amount) /\ UNCHANGED <<offer, played>>
  BY <1>1 DEF Credit, ReactorState
<1>3. reactor'[r].pc = "credited" /\ \A s \in Reactors \ {r} : reactor'[s] = reactor[s]
  BY <1>2, ReactorGoesOn
<1>4. PICK target \in Users, amount \in Nat : target = offer[o].target /\ amount = offer[o].amount
  BY <1>1, <1>2, ReactorOf
<1>5. PICK tax \in Nat, gets \in Int : tax = Tax(amount) /\ gets = Received(amount) /\ gets + tax = amount
  BY TaxTyped
<1>6. PICK b : b = Gained(wallet[target], gets)
  OBVIOUS
<1>7. wallet' = [wallet EXCEPT ![target] = b] /\ taxed' = taxed + tax
  BY <1>2, <1>4, <1>5, <1>6
<1>8. b \in Balance /\ Worth(b) = Worth(wallet[target]) + gets
  BY <1>6, GainedBalance DEF IInv, TypeOK
<1>9. /\ TotalWorth(wallet) \in Int /\ Worth(wallet[target]) \in Int
      /\ TotalWorth(wallet)' = TotalWorth(wallet) + Worth(b) - Worth(wallet[target])
  BY <1>7, <1>8, WealthMoves
<1>10. TotalWorth(wallet)' = TotalWorth(wallet) + gets
  BY <1>8, <1>9
<1>11. Carried(r) = amount /\ Carried(r)' = 0
  BY <1>1, <1>2, <1>3, <1>4 DEF Carried
<1>12. taxed \in Int /\ played \in Int
  BY DEF IInv, TypeOK
<1>13. TotalWorth(wallet)' + Carried(r)' + taxed' + played' = TotalWorth(wallet) + Carried(r) + taxed + played
  BY <1>2, <1>5, <1>7, <1>9, <1>10, <1>11, <1>12
<1> QED
  BY <1>3, <1>9, <1>10, <1>13, HandlerBalances

LEMMA EnterGameBooks ==
    ASSUME IInv, IInv', \A p \in Offers : OfferSteps(p), NEW u \in Users, EnterGame(u)
    PROVE  Books' = Books
<1>1. PICK b : b = Spent(wallet[u], Entry)
  OBVIOUS
<1>2. wallet' = [wallet EXCEPT ![u] = b] /\ played' = played + Entry /\ UNCHANGED <<reactor, taxed>>
  BY <1>1 DEF EnterGame
<1>3. b \in Balance /\ Worth(b) = Worth(wallet[u]) - Entry
  BY <1>1, SpentBalance, EntryAssumption DEF IInv, TypeOK
<1>4. /\ TotalWorth(wallet) \in Int /\ Worth(wallet[u]) \in Int
      /\ TotalWorth(wallet)' = TotalWorth(wallet) + Worth(b) - Worth(wallet[u])
  BY <1>2, <1>3, WealthMoves
<1>5. TotalWorth(wallet)' = TotalWorth(wallet) - Entry
  BY <1>3, <1>4, EntryAssumption
<1>6. OnTheWay' = OnTheWay /\ OnTheWay \in Int
  BY <1>2, AllCarriedKept
<1>7. taxed \in Int /\ played \in Int
  BY DEF IInv, TypeOK
<1> QED
  BY <1>2, <1>4, <1>5, <1>6, <1>7, EntryAssumption DEF Books

LEMMA NextBooks == IInv /\ [Next]_vars => Books' = Books
<1> SUFFICES ASSUME IInv, [Next]_vars PROVE Books' = Books
  OBVIOUS
<1>0. IInv' /\ \A p \in Offers : OfferSteps(p)
  BY NextIInv
<1>1. CASE \E o \in Offers, payer, target \in Users, amount \in Amounts : AskPayment(o, payer, target, amount)
  BY <1>0, <1>1, OffersOnlyBooks DEF AskPayment
<1>2. CASE \E payer \in Users, amount \in Amounts : AskTooMuch(payer, amount)
  BY <1>0, <1>2, OffersOnlyBooks DEF AskTooMuch
<1>3. CASE \E o \in Offers : OfferShown(o) \/ TimerFires(o)
  BY <1>0, <1>3, OffersOnlyBooks DEF OfferShown, TimerFires
<1>4. CASE \E r \in Reactors, o \in Offers, u \in Users, added \in BOOLEAN : React(r, o, u, added)
  BY <1>0, <1>4, ReactBooks
<1>5. CASE \E r \in Reactors : ReactorStep(r)
  BY <1>0, <1>5, HandlerEndsBooks, FinalizeTransfersBooks, DebitStepBooks, DebitSavedBooks, CreditBooks
     DEF ReactorStep
<1>6. CASE \E u \in Users : EnterGame(u)
  BY <1>0, <1>6, EnterGameBooks
<1>7. CASE \E u \in Users : EntrySaved(u)
  BY <1>0, <1>7, OffersOnlyBooks DEF EntrySaved
<1>8. CASE UNCHANGED vars
  BY <1>0, <1>8, OffersOnlyBooks DEF vars
<1> QED
  BY <1>1, <1>2, <1>3, <1>4, <1>5, <1>6, <1>7, <1>8 DEF Next

LEMMA InitBooks == Init => Books = TotalWorth(Start)
<1> SUFFICES ASSUME Init PROVE Books = TotalWorth(Start)
  OBVIOUS
<1> DEFINE f == [r \in Reactors |-> Carried(r)]
<1>1. f \in [Reactors -> Int] /\ \A r \in Reactors : f[r] = 0
  BY DEF Init, NoReaction, Carried
<1>2. OnTheWay = SumFunctionOnSet(f, Reactors)
  BY DEF OnTheWay
<1> HIDE DEF f
<1>3. OnTheWay = 0
  BY <1>1, <1>2, ReactorsAssumption, SumOfZeros
<1>4. TotalWorth(wallet) = TotalWorth(Start) /\ TotalWorth(wallet) \in Int /\ taxed = 0 /\ played = 0
  BY InitIInv, WealthTyped DEF Init
<1> QED
  BY <1>3, <1>4 DEF Books

BooksKept == Books = TotalWorth(Start)

\* Payments!ChipsAccounted: what chip_session takes from a payer, gives to a target and
\* keeps as tax adds up at every step, with any number of transfers, offers and games at
\* once.  Each step moves chips between one wallet and one handler, or into the books.
THEOREM ChipsKept == Spec => []ChipsAccounted
<1>1. Init => BooksKept
  BY InitBooks DEF BooksKept
<1>2. IInv /\ BooksKept /\ [Next]_vars => BooksKept'
  <2> SUFFICES ASSUME IInv, BooksKept, [Next]_vars PROVE BooksKept'
    OBVIOUS
  <2>1. TotalWorth(Start)' = TotalWorth(Start)
    BY DEF TotalWorth
  <2> QED
    BY <2>1, NextBooks DEF BooksKept
<1>3. IInv /\ BooksKept => ChipsAccounted
  BY DEF IInv, BooksKept, Books, ChipsAccounted
<1> QED
  BY InitIInv, NextIInv, <1>1, <1>2, <1>3, PTL DEF Spec

=============================================================================
