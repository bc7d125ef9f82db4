------------------------------ MODULE Payments ------------------------------
(***************************************************************************)
(* The "pay" command (cogs/games/services/payments.py): one user offers    *)
(* chips to another, both confirm by reacting to the bot's message, and    *)
(* the chips move less a tax.  An offer is kept per payer; the handler of  *)
(* a reaction awaits the edit of the message before it looks whether both  *)
(* have confirmed, and a transfer awaits the economy locks and saves of    *)
(* two wallets, so offers, reactions, expiries and games interleave.       *)
(***************************************************************************)
EXTENDS ChipBalance, FiniteSets, Functions

CONSTANTS Users,
          Offers,       \* confirmation messages, each with its session dict
          Reactors,     \* reaction handlers that may run at once
          Amounts,      \* what may be offered
          Start,        \* the balances at first
          Entry,        \* what a game takes from a user
          MayReplace,   \* whether a payer may make an offer while one is open
          MayLeave,     \* users who may have left the guild
          NoOffer, NoUser, NoHolder, Game

ASSUME UsersAssumption == IsFiniteSet(Users) /\ NoUser \notin Users
ASSUME OffersAssumption == NoOffer \notin Offers
ASSUME ReactorsAssumption == IsFiniteSet(Reactors)
ASSUME AmountsAssumption == Amounts \subseteq Nat \ {0}
ASSUME EntryAssumption == Entry \in Nat
ASSUME StartAssumption == Start \in [Users -> Balance]
ASSUME MayReplaceAssumption == MayReplace \in BOOLEAN

VARIABLES wallet,    \* user_cache: the balance of each user
          holder,    \* who holds a user's economy lock
          current,   \* _payment_sessions: the offer of each payer
          offer,     \* the session dict of each confirmation message
          reactor,   \* the reaction handlers
          taxed,     \* chips that left as tax
          played     \* chips that left through a game
vars == <<wallet, holder, current, offer, reactor, taxed, played>>

\* max(1, round(amount * 0.02)): halves are rounded to the even neighbour.
Rounded(amount) ==
    LET down == amount \div 50
        rest == amount % 50
    IN  IF rest > 25 \/ (rest = 25 /\ down % 2 = 1) THEN down + 1 ELSE down
Tax(amount) == IF Rounded(amount) < 1 THEN 1 ELSE Rounded(amount)
Net(amount) == amount - Tax(amount)

Shown == {"nothing", "asking", "withdrawn", "expired", "cancelled", "done"}
OfferRecord == [payer: Users \cup {NoUser}, target: Users \cup {NoUser}, amount: Nat,
                payerOk: BOOLEAN, targetOk: BOOLEAN, timer: BOOLEAN,
                shown: Shown, paid: Nat, unconfirmed: BOOLEAN]
ReactorState == {"idle", "editing", "waiting", "debited", "crediting", "credited"}

TypeOK ==
    /\ wallet \in [Users -> Balance]
    /\ holder \in [Users -> Reactors \cup {NoHolder, Game}]
    /\ current \in [Users -> Offers \cup {NoOffer}]
    /\ offer \in [Offers -> OfferRecord]
    /\ reactor \in [Reactors -> [pc: ReactorState, key: Users \cup {NoUser},
                                 offer: Offers \cup {NoOffer}]]
    /\ taxed \in Nat /\ played \in Nat

NewOffer == [payer |-> NoUser, target |-> NoUser, amount |-> 0, payerOk |-> FALSE,
             targetOk |-> FALSE, timer |-> FALSE, shown |-> "nothing", paid |-> 0,
             unconfirmed |-> FALSE]
NoReaction == [pc |-> "idle", key |-> NoUser, offer |-> NoOffer]

Init ==
    /\ wallet = Start
    /\ holder = [u \in Users |-> NoHolder]
    /\ current = [u \in Users |-> NoOffer]
    /\ offer = [o \in Offers |-> NewOffer]
    /\ reactor = [r \in Reactors |-> NoReaction]
    /\ taxed = 0 /\ played = 0

-----------------------------------------------------------------------------
(* _start_payment_confirmation *)

\* Offers that were asked for and whose message is being sent.
Sending(o) == offer[o].payer # NoUser /\ offer[o].shown = "nothing"

\* The payer can afford the amount: an earlier offer is dropped, its message
\* stays, and the new message is sent.
AskPayment(o, payer, target, amount) ==
    /\ offer[o].payer = NoUser
    /\ payer # target
    /\ Net(amount) > 0
    /\ wallet[payer].chips >= amount
    /\ MayReplace \/ \A p \in Offers : offer[p].payer # payer
    /\ offer' = [p \in Offers |->
                   IF p = o THEN [NewOffer EXCEPT !.payer = payer, !.target = target,
                                                  !.amount = amount]
                   ELSE IF p = current[payer] THEN [offer[p] EXCEPT !.shown = "withdrawn"]
                   ELSE offer[p]]
    /\ current' = [current EXCEPT ![payer] = NoOffer]
    /\ UNCHANGED <<wallet, holder, reactor, taxed, played>>

\* One who cannot afford it loses the open offer too.
AskTooMuch(payer, amount) ==
    /\ MayReplace
    /\ wallet[payer].chips < amount
    /\ current[payer] # NoOffer
    /\ current' = [current EXCEPT ![payer] = NoOffer]
    /\ UNCHANGED <<wallet, holder, offer, reactor, taxed, played>>

\* The message is sent: the offer is the payer's, and its timer runs.
OfferShown(o) ==
    /\ Sending(o)
    /\ offer' = [offer EXCEPT ![o].shown = "asking", ![o].timer = TRUE]
    /\ current' = [current EXCEPT ![offer[o].payer] = o]
    /\ UNCHANGED <<wallet, holder, reactor, taxed, played>>

-----------------------------------------------------------------------------
(* _expire_payment_session: the payer's offer, whichever it is, is dropped. *)

Drop(key, shown) ==
    /\ current' = [current EXCEPT ![key] = NoOffer]
    /\ offer' = IF current[key] = NoOffer THEN offer
                ELSE [offer EXCEPT ![current[key]].shown = shown]

\* Mutants: the timer drops the payer's offer, of whichever message; or only one
\* of another message.
AnyOffer(o) == current[offer[o].payer] # NoOffer
OtherOffer(o) == current[offer[o].payer] \notin {o, NoOffer}
OwnOffer(o) == current[offer[o].payer] = o

\* _expire_later, after five minutes.
TimerFires(o) ==
    /\ offer[o].timer
    /\ LET key == offer[o].payer
           expired == IF OwnOffer(o) THEN current[key] ELSE NoOffer
       IN  /\ current' = IF OwnOffer(o) THEN [current EXCEPT ![key] = NoOffer] ELSE current
           /\ offer' = [p \in Offers |->
                [offer[p] EXCEPT !.timer = (@ /\ p # o),
                                 !.shown = IF p = expired THEN "expired" ELSE @]]
    /\ UNCHANGED <<wallet, holder, reactor, taxed, played>>

-----------------------------------------------------------------------------
(* _handle_payment_reaction_event and _finalize_payment *)

ReactorAt(r, pc) == reactor' = [reactor EXCEPT ![r].pc = pc]
ReactorEnds(r) == reactor' = [reactor EXCEPT ![r] = NoReaction]

\* A reaction to the message of a kept offer, by its payer or its target, is
\* added or taken back; the message is edited.
React(r, o, u, added) ==
    /\ reactor[r].pc = "idle"
    /\ offer[o].payer # NoUser /\ current[offer[o].payer] = o
    /\ u \in {offer[o].payer, offer[o].target}
    /\ offer' = IF u = offer[o].payer THEN [offer EXCEPT ![o].payerOk = added]
                                      ELSE [offer EXCEPT ![o].targetOk = added]
    /\ reactor' = [reactor EXCEPT ![r] = [pc |-> "editing", key |-> offer[o].payer,
                                          offer |-> o]]
    /\ UNCHANGED <<wallet, holder, current, taxed, played>>

\* Mutant: one of the two is enough.
OneConfirmed(o) == offer[o].payerOk \/ offer[o].targetOk
BothConfirmed(o) == offer[o].payerOk /\ offer[o].targetOk

EditedUnconfirmed(r) ==
    /\ reactor[r].pc = "editing"
    /\ ~BothConfirmed(reactor[r].offer)
    /\ ReactorEnds(r)
    /\ UNCHANGED <<wallet, holder, current, offer, taxed, played>>

\* Both have confirmed the offer reacted to; the offer that is finalized is the
\* one kept for the payer now.  There may be none.
FinalizeNothing(r) ==
    /\ reactor[r].pc = "editing"
    /\ BothConfirmed(reactor[r].offer)
    /\ current[reactor[r].key] = NoOffer
    /\ ReactorEnds(r)
    /\ UNCHANGED <<wallet, holder, current, offer, taxed, played>>

Affordable(o) == wallet[offer[o].payer].chips >= offer[o].amount

\* A user who left, or chips that were spent meanwhile, cancel it.
FinalizeCancels(r) ==
    LET o == current[reactor[r].key]
    IN  /\ reactor[r].pc = "editing"
        /\ BothConfirmed(reactor[r].offer)
        /\ o # NoOffer
        /\ ~Affordable(o) \/ {offer[o].payer, offer[o].target} \cap MayLeave # {}
        /\ Drop(reactor[r].key, "cancelled")
        /\ ReactorEnds(r)
        /\ UNCHANGED <<wallet, holder, taxed, played>>

\* The payer's wallet is debited under its lock, then saved.
DebitUnderLock(r, o) ==
    /\ holder' = [holder EXCEPT ![offer[o].payer] = r]
    /\ wallet' = [wallet EXCEPT ![offer[o].payer] = Spent(@, offer[o].amount)]

WaitedFor(u) ==
    \E r \in Reactors : reactor[r].pc = "waiting" /\ offer[reactor[r].offer].payer = u

\* A lock that nobody holds or waits for is taken at once, without an await
\* between the look at the chips and the debit.
FinalizeTransfers(r) ==
    LET o == current[reactor[r].key]
    IN  /\ reactor[r].pc = "editing"
        /\ BothConfirmed(reactor[r].offer)
        /\ o # NoOffer
        /\ Affordable(o)
        /\ offer' = [offer EXCEPT ![o].paid = @ + 1,
                                  ![o].unconfirmed = @ \/ ~(offer[o].payerOk /\ offer[o].targetOk)]
        /\ IF holder[offer[o].payer] = NoHolder /\ ~WaitedFor(offer[o].payer)
             THEN /\ DebitUnderLock(r, o)
                  /\ reactor' = [reactor EXCEPT ![r].pc = "debited", ![r].offer = o]
             ELSE /\ reactor' = [reactor EXCEPT ![r].pc = "waiting", ![r].offer = o]
                  /\ UNCHANGED <<wallet, holder>>
        /\ UNCHANGED <<current, taxed, played>>

Debit(r) ==
    /\ reactor[r].pc = "waiting"
    /\ holder[offer[reactor[r].offer].payer] = NoHolder
    /\ DebitUnderLock(r, reactor[r].offer)
    /\ ReactorAt(r, "debited")
    /\ UNCHANGED <<current, offer, taxed, played>>

DebitSaved(r) ==
    /\ reactor[r].pc = "debited"
    /\ holder' = [holder EXCEPT ![offer[reactor[r].offer].payer] = NoHolder]
    /\ ReactorAt(r, "crediting")
    /\ UNCHANGED <<wallet, current, offer, taxed, played>>

\* Mutant: what the receiver gets is what the payer gives.
Untaxed(amount) == amount
Received(amount) == Net(amount)

Credit(r) ==
    LET o == reactor[r].offer
    IN  /\ reactor[r].pc = "crediting"
        /\ holder[offer[o].target] = NoHolder
        /\ holder' = [holder EXCEPT ![offer[o].target] = r]
        /\ wallet' = [wallet EXCEPT ![offer[o].target] = Gained(@, Received(offer[o].amount))]
        /\ taxed' = taxed + Tax(offer[o].amount)
        /\ ReactorAt(r, "credited")
        /\ UNCHANGED <<current, offer, played>>


\* The credit and the statistics are saved; whatever offer the payer has is
\* dropped and the message of the one that was paid says so.
TransferEnds(r) ==
    LET o == reactor[r].offer
    IN  /\ reactor[r].pc = "credited"
        /\ holder' = [holder EXCEPT ![offer[o].target] = NoHolder]
        /\ current' = [current EXCEPT ![reactor[r].key] = NoOffer]
        /\ offer' = [offer EXCEPT ![o].shown = "done"]
        /\ ReactorEnds(r)
        /\ UNCHANGED <<wallet, taxed, played>>

-----------------------------------------------------------------------------
(* Games use the same wallets: an entry is charged under the economy lock. *)

EnterGame(u) ==
    /\ holder[u] = NoHolder
    /\ Entry > 0 /\ Worth(wallet[u]) >= Entry
    /\ holder' = [holder EXCEPT ![u] = Game]
    /\ wallet' = [wallet EXCEPT ![u] = Spent(@, Entry)]
    /\ played' = played + Entry
    /\ UNCHANGED <<current, offer, reactor, taxed>>

EntrySaved(u) ==
    /\ holder[u] = Game
    /\ holder' = [holder EXCEPT ![u] = NoHolder]
    /\ UNCHANGED <<wallet, current, offer, reactor, taxed, played>>

ReactorStep(r) ==
    \/ EditedUnconfirmed(r) \/ FinalizeNothing(r) \/ FinalizeCancels(r)
    \/ FinalizeTransfers(r) \/ Debit(r) \/ DebitSaved(r) \/ Credit(r) \/ TransferEnds(r)

Next ==
    \/ \E o \in Offers, payer, target \in Users, amount \in Amounts :
          AskPayment(o, payer, target, amount)
    \/ \E payer \in Users, amount \in Amounts : AskTooMuch(payer, amount)
    \/ \E o \in Offers : OfferShown(o) \/ TimerFires(o)
    \/ \E r \in Reactors, o \in Offers, u \in Users, added \in BOOLEAN :
          React(r, o, u, added)
    \/ \E r \in Reactors : ReactorStep(r)
    \/ \E u \in Users : EnterGame(u) \/ EntrySaved(u)

Spec == Init /\ [][Next]_vars

\* Messages are delivered, a timer ends, a save lands, and a handler that can run
\* does: an asyncio.Lock is given to its waiters in the order they came.
Fairness ==
    /\ \A o \in Offers : WF_vars(OfferShown(o) \/ TimerFires(o))
    /\ \A r \in Reactors : SF_vars(ReactorStep(r))
    /\ \A u \in Users : WF_vars(EntrySaved(u))
FairSpec == Spec /\ Fairness
-----------------------------------------------------------------------------
\* Chips that were taken from a payer and are not with the target yet.
Carried(r) ==
    IF reactor[r].pc \in {"debited", "crediting"} THEN offer[reactor[r].offer].amount ELSE 0
OnTheWay == SumFunctionOnSet([r \in Reactors |-> Carried(r)], Reactors)

TotalWorth(wallets) == SumFunctionOnSet([u \in Users |-> Worth(wallets[u])], Users)

\* Chips are neither made nor lost, however offers, reactions and games meet: they
\* are in a wallet, on the way, taxed or played.
ChipsAccounted ==
    /\ TypeOK
    /\ TotalWorth(wallet) + OnTheWay + taxed + played = TotalWorth(Start)

\* An offer expires by its own timer, never by that of one it replaced.
ExpiresInItsTime == \A o \in Offers : offer[o].shown = "expired" => ~offer[o].timer

\* What the message offers is transferred once.
PaidOnce == \A o \in Offers : offer[o].paid <= 1

\* What the message asks for: payer and target have both confirmed what is
\* transferred, whoever takes a confirmation back while the message is edited.  The
\* one exception is what _finalize_payment does after that await: it transfers the
\* payer's offer of the moment, which nobody need have confirmed, if both had
\* confirmed an earlier offer of the payer that is not kept any more.  Without a
\* confirmed offer that is gone, nothing unconfirmed is transferred.
Superseded(p) ==
    offer[p].payerOk /\ offer[p].targetOk /\ current[offer[p].payer] # p
PaidConfirmed ==
    \A o \in Offers : offer[o].unconfirmed =>
        \E p \in Offers \ {o} : offer[p].payer = offer[o].payer /\ Superseded(p)

\* An offer does not stay open for ever, whoever reacts or not.
Open(o) == \E u \in Users : current[u] = o
OffersClose == \A o \in Offers : Open(o) ~> ~Open(o)

\* A transfer that began comes to its end: no wallet stays locked, and what the
\* payer gave arrives.
TransfersEnd == \A r \in Reactors : reactor[r].pc # "idle" ~> reactor[r].pc = "idle"

\* Both: whatever was offered or begun comes to its end.
PaymentsEnd == OffersClose /\ TransfersEnd
=============================================================================
