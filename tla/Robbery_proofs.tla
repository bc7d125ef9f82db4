--------------------------- MODULE Robbery_proofs ---------------------------
(***************************************************************************)
(* Robberies, for any users, amounts and number of commands.               *)
(*                                                                         *)
(* Commands never wait for each other's wallets in a circle: a command     *)
(* waits for two different wallets in the order of their ids, holding only *)
(* a smaller one, and nobody is recorded as robbed by oneself, so a skill  *)
(* locks whom the record names besides its own user (Inv).                 *)
(* A robbery is given back at most once: every document that is kept,      *)
(* saved or put back tells of known robberies only (BackInv).              *)
(* Chips only move: what users hold, with the most the commands under way  *)
(* may still add, stays within what they held and was minted (ChipsInv).   *)
(***************************************************************************)
EXTENDS Robbery, FiniteLemmas

OwnSave == {s \in SaveOf : FromOthers(s.user, s.doc)}
OwnNote == {n \in NoteOf : n.row # NoRobbery => n.row.thief # n.user}

\* A command that waits for locks.
WaitsInOrder(w) ==
    /\ w.kind \in {"rob", "0to1", "fate", "golden"} /\ w.user \in Users
    /\ w.kind # "golden" => w.other \in Users \ {w.user}
    /\ w.kind = "rob" => w.id \in Ids
    /\ Len(w.want) \in {1, 2}
    /\ Len(w.want) = 2 => w.want[1] < w.want[2]

SoundWork(w) ==
    /\ w \in Work
    /\ w.saves \in Seq(OwnSave) /\ w.undo \in Seq(OwnSave) /\ w.notes \in Seq(OwnNote)
    /\ w.at \in {"saving", "undoing", "noting"} => w.saves # <<>>
    /\ w.at = "locking" => WaitsInOrder(w)

SoundDoc(u, doc) == doc \in Doc /\ FromOthers(u, doc)
SoundDocs(docs) == docs \in [Users -> Doc] /\ \A u \in Users : FromOthers(u, docs[u])

\* Who holds a wallet saves, or waits for one greater wallet more.
HoldsInOrder ==
    \A u \in Users, h \in Handlers : economy[u] = h =>
        /\ work[h].at \in {"locking", "saving", "undoing"}
        /\ work[h].at = "locking" => Len(work[h].want) = 1 /\ u < work[h].want[1]

EconomyTyped == economy \in [Users -> Handlers \cup {NoHandler}]
Works == work \in [Handlers -> Work] /\ \A h \in Handlers : SoundWork(work[h])
Waiting == Works /\ EconomyTyped /\ HoldsInOrder

ProgressTyped == progress \in [Users -> Handlers \cup {NoHandler}]
CountersTyped ==
    /\ day \in 1..MaxDay /\ robberies \in 0..MaxRobberies /\ failures \in 0..MaxFaults
    /\ minted \in Int /\ crashed \in BOOLEAN

Inv ==
    /\ SoundDocs(cache) /\ SoundDocs(store)
    /\ Waiting
    /\ ProgressTyped /\ CountersTyped

-----------------------------------------------------------------------------
(* Numbers and positions. *)

LEMMA MinOfTwo ==
    ASSUME NEW a \in Nat, NEW b \in Nat
    PROVE  Min({a, b}) \in Nat /\ Min({a, b}) <= a /\ Min({a, b}) <= b
<1>1. \E x \in {a, b} : \A y \in {a, b} : x <= y
  OBVIOUS
<1>2. Min({a, b}) \in {a, b} /\ \A y \in {a, b} : Min({a, b}) <= y
  BY <1>1 DEF Min
<1> QED
  BY <1>2

LEMMA MaxOfTwo ==
    ASSUME NEW S, NEW a \in S, NEW b \in S, S \subseteq Nat
    PROVE  Max({a, b}) \in S
<1>1. \E x \in {a, b} : \A y \in {a, b} : x >= y
  OBVIOUS
<1>2. Max({a, b}) \in {a, b}
  BY <1>1 DEF Max
<1> QED
  BY <1>2

LEMMA MaxOfPositions ==
    ASSUME NEW n \in Nat, NEW L \in SUBSET (1..n), L # {}
    PROVE  Max(L) \in L
BY LastPosition DEF Max

-----------------------------------------------------------------------------
(* What documents record. *)

LEMMA EntryNamesAnother ==
    ASSUME NEW u, NEW doc, SoundDoc(u, doc), Entry(doc) # NoRobbery
    PROVE  Entry(doc) \in RobberyOf /\ Entry(doc).thief \in Users \ {u}
<1> DEFINE usable == {i \in DOMAIN doc.rows : /\ doc.rows[i].id > doc.cutoff
                                              /\ doc.rows[i].id \notin Resolved(doc)}
<1>1. doc.rows \in Seq(RobberyOf)
  BY DEF SoundDoc, Doc
<1>2. usable # {} /\ Entry(doc) = doc.rows[Max(usable)]
  BY DEF Entry
<1>3. Max(usable) \in DOMAIN doc.rows
  <2>1. usable \in SUBSET (1..Len(doc.rows)) /\ Len(doc.rows) \in Nat
    BY <1>1
  <2> QED
    BY <1>2, <2>1, MaxOfPositions
<1> HIDE DEF usable
<1>4. PICK i \in DOMAIN doc.rows : Entry(doc) = doc.rows[i]
  BY <1>2, <1>3
<1>5. Entry(doc) \in RobberyOf /\ Entry(doc) \in ToSet(doc.rows)
  BY <1>1, <1>4 DEF ToSet
<1>6. Entry(doc).thief # u
  BY <1>5 DEF SoundDoc, FromOthers
<1> QED
  BY <1>5, <1>6 DEF RobberyOf

LEMMA UnresolvedNamesAnother ==
    ASSUME NEW u, NEW doc, SoundDoc(u, doc),
           NEW r \in Unresolved(doc), r # NoRobbery
    PROVE  r \in RobberyOf /\ r.thief \in Users \ {u}
<1> DEFINE open == {i \in DOMAIN doc.robberies : ~doc.robberies[i].resolved}
<1>1. doc.robberies \in Seq(RobberyOf)
  BY DEF SoundDoc, Doc
<1>2. open # {} /\ r = doc.robberies[Max(open)]
  BY DEF Unresolved
<1>3. Max(open) \in DOMAIN doc.robberies
  <2>1. open \in SUBSET (1..Len(doc.robberies)) /\ Len(doc.robberies) \in Nat
    BY <1>1
  <2> QED
    BY <1>2, <2>1, MaxOfPositions
<1> HIDE DEF open
<1>4. r \in ToSet(doc.robberies) /\ r \in RobberyOf
  <2>1. PICK i \in DOMAIN doc.robberies : r = doc.robberies[i]
    BY <1>2, <1>3
  <2> QED
    BY <1>1, <2>1 DEF ToSet
<1>5. r.thief # u
  BY <1>4 DEF SoundDoc, FromOthers
<1> QED
  BY <1>4, <1>5 DEF RobberyOf

\* Changing other fields of a document leaves what it records.
LEMMA SameRecord ==
    ASSUME NEW u, NEW doc, SoundDoc(u, doc), NEW other \in Doc,
           other.robberies = doc.robberies, other.rows = doc.rows
    PROVE  SoundDoc(u, other)
BY DEF SoundDoc, FromOthers

LEMMA KeptRecord ==
    ASSUME NEW S, NEW s \in Seq(S)
    PROVE  Kept(s) \in Seq(S) /\ ToSet(Kept(s)) \subseteq ToSet(s)
<1>1. CASE Len(s) > Keep
  <2>1. Len(s) - Keep + 1 \in 1..Len(s) + 1 /\ Len(s) \in Len(s) - Keep .. Len(s)
    BY <1>1, BoundsAssumption
  <2>2. Kept(s) = SubSeq(s, Len(s) - Keep + 1, Len(s))
    BY <1>1 DEF Kept
  <2>3. /\ Kept(s) \in Seq(S) /\ Len(Kept(s)) = Keep
        /\ \A i \in 1..Len(Kept(s)) : Kept(s)[i] = s[Len(s) - Keep + i]
    BY <1>1, <2>1, <2>2, BoundsAssumption, SubSeqProperties
  <2>4. \A i \in 1..Keep : Len(s) - Keep + i \in 1..Len(s)
    BY <1>1, BoundsAssumption
  <2> QED
    BY <2>3, <2>4 DEF ToSet
<1>2. CASE ~(Len(s) > Keep)
  BY <1>2 DEF Kept
<1> QED
  BY <1>1, <1>2

LEMMA RobbedSound ==
    ASSUME NEW u \in Users, NEW doc, SoundDoc(u, doc),
           NEW r \in RobberyOf, r.thief # u, r.bonus <= doc.bonus
    PROVE  SoundDoc(u, Robbed(doc, r))
<1> DEFINE s == Append(doc.robberies, r)
           new == Robbed(doc, r)
<1>1. doc \in Doc /\ doc.robberies \in Seq(RobberyOf)
  BY DEF SoundDoc, Doc
<1>2. s \in Seq(RobberyOf) /\ ToSet(s) \subseteq ToSet(doc.robberies) \cup {r}
  <2>1. /\ s \in Seq(RobberyOf) /\ Len(s) = Len(doc.robberies) + 1
        /\ \A i \in 1..Len(doc.robberies) : s[i] = doc.robberies[i]
        /\ s[Len(s)] = r
    BY <1>1, AppendProperties
  <2> QED
    BY <1>1, <2>1 DEF ToSet
<1>3. Kept(s) \in Seq(RobberyOf) /\ ToSet(Kept(s)) \subseteq ToSet(doc.robberies) \cup {r}
  BY <1>2, KeptRecord
<1>4. new \in Doc /\ new.robberies = Kept(s) /\ new.rows = doc.rows
  <2>1. doc.bonus - r.bonus \in Nat /\ doc.chips - r.normal \in Int
    BY <1>1 DEF Doc, RobberyOf
  <2> DEFINE t == Kept(s)
  <2>2. new = [doc EXCEPT !.bonus = doc.bonus - r.bonus, !.chips = doc.chips - r.normal,
                          !.robberies = t]
    BY DEF Robbed
  <2> HIDE DEF t, new
  <2>3. t \in Seq(RobberyOf)
    BY <1>3 DEF t
  <2>4. new \in Doc /\ new.robberies = t /\ new.rows = doc.rows
    BY <1>1, <2>1, <2>2, <2>3 DEF Doc
  <2> QED
    BY <2>4 DEF t, new
<1>5. FromOthers(u, new)
  BY <1>3, <1>4 DEF FromOthers, SoundDoc
<1> QED
  BY <1>4, <1>5 DEF SoundDoc

LEMMA MarkedSound ==
    ASSUME NEW u \in Users, NEW doc, SoundDoc(u, doc), NEW id \in Ids
    PROVE  /\ SoundDoc(u, Marked(doc, id))
           /\ Marked(doc, id).chips = doc.chips /\ Marked(doc, id).bonus = doc.bonus
<1> DEFINE marks == [i \in DOMAIN doc.robberies |->
                       IF doc.robberies[i].id = id THEN [doc.robberies[i] EXCEPT !.resolved = TRUE]
                       ELSE doc.robberies[i]]
           new == Marked(doc, id)
<1>1. doc \in Doc /\ doc.robberies \in Seq(RobberyOf)
  BY DEF SoundDoc, Doc
<1>2. \A r \in RobberyOf : /\ [r EXCEPT !.resolved = TRUE] \in RobberyOf
                           /\ [r EXCEPT !.resolved = TRUE].thief = r.thief
  BY DEF RobberyOf
<1>3. marks \in Seq(RobberyOf)
  <2>1. DOMAIN doc.robberies = 1..Len(doc.robberies) /\ Len(doc.robberies) \in Nat
    BY <1>1
  <2>2. \A i \in 1..Len(doc.robberies) : marks[i] \in RobberyOf
    BY <1>1, <1>2, <2>1
  <2>3. DOMAIN marks = 1..Len(doc.robberies)
    BY <2>1
  <2>4. marks \in [1..Len(doc.robberies) -> RobberyOf]
    BY <2>2, <2>3
  <2> HIDE DEF marks
  <2> QED
    BY <2>1, <2>4, SeqDef
<1>4. \A r \in ToSet(marks) : r.thief # u
  <2> SUFFICES ASSUME NEW i \in DOMAIN doc.robberies PROVE marks[i].thief # u
    BY DEF ToSet
  <2>1. doc.robberies[i] \in RobberyOf /\ doc.robberies[i].thief # u
    BY <1>1 DEF SoundDoc, FromOthers, ToSet
  <2> QED
    BY <1>2, <2>1
<1>5. /\ new \in Doc /\ new.robberies = marks /\ new.rows = doc.rows
      /\ new.chips = doc.chips /\ new.bonus = doc.bonus
  <2>1. new = [doc EXCEPT !.robberies = marks, !.back[id] = doc.back[id] + 1]
    BY DEF Marked
  <2>2. [doc.back EXCEPT ![id] = doc.back[id] + 1] \in [Ids -> Nat]
    BY <1>1 DEF Doc
  <2> HIDE DEF marks
  <2> QED
    BY <1>1, <1>3, <2>1, <2>2 DEF Doc
<1>6. FromOthers(u, new)
  BY <1>4, <1>5 DEF FromOthers, SoundDoc
<1> QED
  BY <1>5, <1>6 DEF SoundDoc

LEMMA NotedSound ==
    ASSUME NEW n \in OwnNote, NEW doc, SoundDoc(n.user, doc)
    PROVE  SoundDoc(n.user, Noted(doc, n.row))
<1>1. CASE n.row = NoRobbery
  BY <1>1 DEF Noted
<1>2. CASE n.row # NoRobbery
  <2> DEFINE s == Append(doc.rows, n.row)
             new == Noted(doc, n.row)
  <2>1. n.row \in RobberyOf /\ n.row.thief # n.user
    BY <1>2 DEF OwnNote, NoteOf
  <2>2. doc \in Doc /\ doc.rows \in Seq(RobberyOf)
    BY DEF SoundDoc, Doc
  <2>3. /\ s \in Seq(RobberyOf) /\ Len(s) = Len(doc.rows) + 1
        /\ \A i \in 1..Len(doc.rows) : s[i] = doc.rows[i]
        /\ s[Len(s)] = n.row
    BY <2>1, <2>2, AppendProperties
  <2>4. ToSet(s) \subseteq ToSet(doc.rows) \cup {n.row}
    BY <2>2, <2>3 DEF ToSet
  <2> HIDE DEF s
  <2>5. new = [doc EXCEPT !.rows = s]
    BY <1>2 DEF Noted, s
  <2>6. new \in Doc /\ new.rows = s /\ new.robberies = doc.robberies
    BY <2>2, <2>3, <2>5 DEF Doc
  <2>7. FromOthers(n.user, new)
    BY <2>1, <2>4, <2>6 DEF FromOthers, SoundDoc
  <2> QED
    BY <2>6, <2>7 DEF SoundDoc
<1> QED
  BY <1>1, <1>2

-----------------------------------------------------------------------------
(* What commands carry. *)

LEMMA OrderedPair ==
    ASSUME NEW a \in Users, NEW b \in Users \ {a}
    PROVE  Ordered(a, b) \in Seq(Users) /\ Len(Ordered(a, b)) = 2
           /\ Ordered(a, b)[1] < Ordered(a, b)[2]
BY UsersAssumption DEF Ordered

LEMMA PairSound ==
    ASSUME NEW a \in Users, NEW b \in Users, NEW docA, NEW docB,
           SoundDoc(a, docA), SoundDoc(b, docB)
    PROVE  Pair(a, docA, b, docB) \in Seq(OwnSave) /\ Pair(a, docA, b, docB) # <<>>
<1>1. [user |-> a, doc |-> docA] \in OwnSave /\ [user |-> b, doc |-> docB] \in OwnSave
  BY DEF OwnSave, SaveOf, SoundDoc
<1> QED
  BY <1>1 DEF Pair

LEMMA OneSave ==
    ASSUME NEW a \in Users, NEW doc, SoundDoc(a, doc)
    PROVE  /\ <<[user |-> a, doc |-> doc]>> \in Seq(OwnSave)
           /\ <<[user |-> a, doc |-> doc]>> # <<>>
<1>1. [user |-> a, doc |-> doc] \in OwnSave
  BY DEF OwnSave, SaveOf, SoundDoc
<1> QED
  BY <1>1

LEMMA NoWorkSound == SoundWork(NoWork) /\ NoWork.at = "idle"
BY DEF SoundWork, NoWork, Work

LEMMA AskingSound ==
    ASSUME NEW kind \in {"rob", "0to1", "fate", "golden"}, NEW user \in Users,
           NEW other \in Users \cup {NoUser}, NEW id \in Ids \cup {0}, NEW n \in Nat,
           NEW want \in Seq(Users), Len(want) \in {1, 2},
           Len(want) = 2 => want[1] < want[2],
           kind # "golden" => other \in Users \ {user},
           kind = "rob" => id \in Ids
    PROVE  SoundWork(Asking(kind, user, other, id, n, want))
<1> DEFINE w == Asking(kind, user, other, id, n, want)
<1>1. w \in Work
  BY DEF Asking, Work
<1>2. WaitsInOrder(w)
  BY DEF Asking, WaitsInOrder
<1> QED
  BY <1>1, <1>2 DEF Asking, SoundWork

LEMMA NotingSound ==
    ASSUME NEW kind \in {"none", "rob", "0to1", "fate", "golden", "claim"},
           NEW u \in Users, NEW doc, SoundDoc(u, doc), NEW notes \in Seq(OwnNote)
    PROVE  SoundWork(Noting(kind, u, doc, notes)) /\ Noting(kind, u, doc, notes).at = "noting"
<1> DEFINE saves == <<[user |-> u, doc |-> doc]>>
<1>1. saves \in Seq(OwnSave) /\ saves # <<>>
  BY OneSave
<1>2. saves \in Seq(SaveOf) /\ notes \in Seq(NoteOf)
  BY <1>1 DEF OwnSave, OwnNote
<1> HIDE DEF saves
<1>3. Noting(kind, u, doc, notes) =
        [at |-> "noting", kind |-> kind, user |-> NoUser, other |-> NoUser, id |-> 0,
         amount |-> 0, want |-> <<>>, saves |-> saves, undo |-> <<>>, notes |-> notes,
         minted |-> 0]
  <2>1. Noting(kind, u, doc, notes) =
          [NoWork EXCEPT !.at = "noting", !.kind = kind, !.saves = saves, !.notes = notes]
    BY DEF Noting, saves
  <2> QED
    BY <2>1 DEF NoWork
<1> DEFINE w == Noting(kind, u, doc, notes)
<1>4. /\ w.at = "noting" /\ w.saves = saves /\ w.undo = <<>> /\ w.notes = notes
  BY <1>3
<1>5. w \in Work
  BY <1>2, <1>3 DEF Work
<1> HIDE DEF w
<1>6. SoundWork(w)
  BY <1>1, <1>4, <1>5 DEF SoundWork
<1> QED
  BY <1>4, <1>6 DEF w

-----------------------------------------------------------------------------
(* What a step changes: one command, and perhaps the locks. *)

LEMMA OneWork ==
    ASSUME Works, NEW h \in Handlers, NEW w, SoundWork(w),
           work' = [work EXCEPT ![h] = w]
    PROVE  Works' /\ work'[h] = w /\ \A g \in Handlers \ {h} : work'[g] = work[g]
BY DEF Works, SoundWork

\* A command without wallets may become any other that holds none.
LEMMA HoldsNone ==
    ASSUME HoldsInOrder, EconomyTyped, NEW h \in Handlers,
           work[h].at \in {"idle", "noting"}, UNCHANGED economy,
           \A g \in Handlers \ {h} : work'[g] = work[g]
    PROVE  HoldsInOrder' /\ EconomyTyped'
BY DEF HoldsInOrder, EconomyTyped

LEMMA FreesAll ==
    ASSUME HoldsInOrder, EconomyTyped, NEW h \in Handlers,
           economy' = Freed(economy, h), \A g \in Handlers \ {h} : work'[g] = work[g]
    PROVE  HoldsInOrder' /\ EconomyTyped'
<1>1. \A u \in Users : economy'[u] # h /\ (economy'[u] = economy[u] \/ economy'[u] = NoHandler)
  BY HandlersAssumption DEF Freed, EconomyTyped
<1>2. EconomyTyped'
  BY DEF Freed, EconomyTyped
<1>3. HoldsInOrder'
  BY <1>1, HandlersAssumption DEF HoldsInOrder
<1> QED
  BY <1>2, <1>3

LEMMA HoldsAndSaves ==
    ASSUME HoldsInOrder, EconomyTyped, NEW h \in Handlers,
           work'[h].at \in {"saving", "undoing"},
           \/ UNCHANGED economy
           \/ \E u \in Users : economy' = [economy EXCEPT ![u] = h],
           \A g \in Handlers \ {h} : work'[g] = work[g]
    PROVE  HoldsInOrder' /\ EconomyTyped'
<1>1. EconomyTyped'
  BY DEF EconomyTyped
<1>2. \A u \in Users : economy'[u] = economy[u] \/ economy'[u] = h
  BY DEF EconomyTyped
<1>3. HoldsInOrder'
  BY <1>2 DEF HoldsInOrder
<1> QED
  BY <1>1, <1>3

LEMMA ProgressFreed ==
    ASSUME ProgressTyped, NEW h \in Handlers
    PROVE  Freed(progress, h) \in [Users -> Handlers \cup {NoHandler}]
BY DEF Freed, ProgressTyped

LEMMA EndsWaiting ==
    ASSUME Waiting, ProgressTyped, NEW h \in Handlers, Ends(h)
    PROVE  Waiting' /\ ProgressTyped'
<1>1. work' = [work EXCEPT ![h] = NoWork] /\ economy' = Freed(economy, h)
  BY DEF Ends, Releases
<1>2. Works' /\ \A g \in Handlers \ {h} : work'[g] = work[g]
  BY <1>1, NoWorkSound, OneWork DEF Waiting
<1>3. HoldsInOrder' /\ EconomyTyped'
  BY <1>1, <1>2, FreesAll DEF Waiting
<1>4. ProgressTyped'
  BY ProgressFreed DEF Ends, Releases, ProgressTyped
<1> QED
  BY <1>2, <1>3, <1>4 DEF Waiting

-----------------------------------------------------------------------------
(* Commands begin. *)

LEMMA RobKeeps ==
    ASSUME Inv, NEW h \in Handlers, NEW u \in Users, NEW v \in Users, NEW n \in Amounts,
           Rob(h, u, v, n)
    PROVE  Inv'
<1> DEFINE w == Asking("rob", u, v, robberies + 1, n, Ordered(u, v))
<1>1. /\ work[h].at = "idle" /\ u # v /\ robberies < MaxRobberies
      /\ robberies' = robberies + 1 /\ work' = [work EXCEPT ![h] = w]
      /\ UNCHANGED <<cache, store, economy, progress, day, failures, minted, crashed>>
  BY DEF Rob, Asks
<1>2. robberies + 1 \in Ids
  BY <1>1, BoundsAssumption DEF Ids, Inv, CountersTyped
<1>3. Ordered(u, v) \in Seq(Users) /\ Len(Ordered(u, v)) = 2
      /\ Ordered(u, v)[1] < Ordered(u, v)[2]
  BY <1>1, OrderedPair
<1>4. SoundWork(w)
  BY <1>1, <1>2, <1>3, AskingSound, ChipsAssumption
<1> HIDE DEF w
<1>5. Works' /\ \A g \in Handlers \ {h} : work'[g] = work[g]
  BY <1>1, <1>4, OneWork DEF Inv, Waiting
<1>6. HoldsInOrder' /\ EconomyTyped'
  BY <1>1, <1>5, HoldsNone DEF Inv, Waiting
<1>7. CountersTyped' /\ ProgressTyped'
  BY <1>1, <1>2 DEF Inv, CountersTyped, ProgressTyped, Ids
<1> QED
  BY <1>1, <1>5, <1>6, <1>7 DEF Inv, Waiting, SoundDocs

LEMMA SkillKeeps ==
    ASSUME Inv, NEW h \in Handlers, NEW u \in Users, NEW w,
           Skill(h, u, w), SoundWork(w)
    PROVE  Inv'
<1>1. /\ work[h].at = "idle" /\ progress' = [progress EXCEPT ![u] = h]
      /\ work' = [work EXCEPT ![h] = w]
      /\ UNCHANGED <<cache, store, economy, day, robberies, failures, minted, crashed>>
  BY DEF Skill, Asks
<1>2. Works' /\ \A g \in Handlers \ {h} : work'[g] = work[g]
  BY <1>1, OneWork DEF Inv, Waiting
<1>3. HoldsInOrder' /\ EconomyTyped'
  BY <1>1, <1>2, HoldsNone DEF Inv, Waiting
<1>4. CountersTyped' /\ ProgressTyped'
  BY <1>1 DEF Inv, CountersTyped, ProgressTyped
<1> QED
  BY <1>1, <1>2, <1>3, <1>4 DEF Inv, Waiting, SoundDocs

LEMMA AskZeroToOneKeeps ==
    ASSUME Inv, NEW h \in Handlers, NEW u \in Users, AskZeroToOne(h, u)
    PROVE  Inv'
<1> DEFINE thief == Entry(cache[u]).thief
<1>1. /\ Entry(cache[u]) # NoRobbery
      /\ Skill(h, u, Asking("0to1", u, thief, 0, 0, Ordered(u, thief)))
  BY DEF AskZeroToOne
<1>2. SoundDoc(u, cache[u])
  BY DEF Inv, SoundDocs, SoundDoc
<1>3. thief \in Users \ {u}
  BY <1>1, <1>2, EntryNamesAnother
<1> HIDE DEF thief
<1>4. Ordered(u, thief) \in Seq(Users) /\ Len(Ordered(u, thief)) = 2
      /\ Ordered(u, thief)[1] < Ordered(u, thief)[2]
  BY <1>3, OrderedPair
<1>5. SoundWork(Asking("0to1", u, thief, 0, 0, Ordered(u, thief)))
  BY <1>3, <1>4, AskingSound
<1> QED
  BY <1>1, <1>5, SkillKeeps

LEMMA AskChangeFateKeeps ==
    ASSUME Inv, NEW h \in Handlers, NEW u \in Users, AskChangeFate(h, u)
    PROVE  Inv'
<1>1. SoundDoc(u, cache[u])
  BY DEF Inv, SoundDocs, SoundDoc
<1>2. PICK r \in Unresolved(cache[u]) :
          IF r = NoRobbery
            THEN Skill(h, u, Asking("golden", u, NoUser, 0, 0, <<u>>))
            ELSE Skill(h, u, Asking("fate", u, r.thief, r.id, 0, Ordered(u, r.thief)))
  BY DEF AskChangeFate
<1>3. CASE r = NoRobbery
  <2> DEFINE want == <<u>>
  <2>1. want \in Seq(Users) /\ Len(want) = 1
    OBVIOUS
  <2>2. Skill(h, u, Asking("golden", u, NoUser, 0, 0, want))
    BY <1>2, <1>3
  <2> HIDE DEF want
  <2>3. SoundWork(Asking("golden", u, NoUser, 0, 0, want))
    <3>1. Len(want) \in {1, 2} /\ ~(Len(want) = 2) /\ 0 \in Nat
      BY <2>1
    <3> QED
      BY <2>1, <3>1, AskingSound, Zenon
  <2> QED
    BY <2>2, <2>3, SkillKeeps
<1>4. CASE r # NoRobbery
  <2> DEFINE thief == r.thief
  <2>1. r \in RobberyOf /\ thief \in Users \ {u}
    BY <1>1, <1>4, UnresolvedNamesAnother
  <2>2. r.id \in Ids
    BY <2>1 DEF RobberyOf
  <2>3. Skill(h, u, Asking("fate", u, thief, r.id, 0, Ordered(u, thief)))
    BY <1>2, <1>4
  <2> HIDE DEF thief
  <2>4. Ordered(u, thief) \in Seq(Users) /\ Len(Ordered(u, thief)) = 2
        /\ Ordered(u, thief)[1] < Ordered(u, thief)[2]
    BY <2>1, OrderedPair
  <2>5. SoundWork(Asking("fate", u, thief, r.id, 0, Ordered(u, thief)))
    BY <2>1, <2>2, <2>4, AskingSound
  <2> QED
    BY <2>3, <2>5, SkillKeeps
<1> QED
  BY <1>3, <1>4

\* The daily bonus is claimed by a command that holds no lock.
LEMMA ClaimKeeps ==
    ASSUME Inv, NEW h \in Handlers, NEW u \in Users, Claim(h, u)
    PROVE  Inv'
<1> DEFINE doc == [cache[u] EXCEPT !.chips = @ + DailyChips, !.claimed = TRUE]
           w == Noting("claim", u, doc, <<>>)
<1>1. /\ work[h].at = "idle" /\ cache' = [cache EXCEPT ![u] = doc]
      /\ work' = [work EXCEPT ![h] = w] /\ minted' = minted + DailyChips
      /\ UNCHANGED <<store, economy, progress, day, robberies, failures, crashed>>
  BY DEF Claim
<1>2. SoundDoc(u, cache[u]) /\ cache[u] \in Doc
  BY DEF Inv, SoundDocs, SoundDoc
<1>3. SoundDoc(u, doc)
  <2>1. DailyChips \in Nat
    BY ChipsAssumption
  <2>2. cache[u].chips + DailyChips \in Int
    BY <1>2, <2>1 DEF Doc
  <2>3. doc \in Doc /\ doc.robberies = cache[u].robberies /\ doc.rows = cache[u].rows
    BY <1>2, <2>2 DEF Doc
  <2> QED
    BY <1>2, <2>3, SameRecord
<1> HIDE DEF doc
<1>4. SoundDocs(cache')
  BY <1>1, <1>3 DEF Inv, SoundDocs, SoundDoc
<1>5. SoundWork(w)
  <2>1. <<>> \in Seq(OwnNote)
    OBVIOUS
  <2> QED
    BY <1>3, <2>1, NotingSound
<1> HIDE DEF w
<1>6. Works' /\ \A g \in Handlers \ {h} : work'[g] = work[g]
  BY <1>1, <1>5, OneWork DEF Inv, Waiting
<1>7. HoldsInOrder' /\ EconomyTyped'
  BY <1>1, <1>6, HoldsNone DEF Inv, Waiting
<1>8. CountersTyped' /\ ProgressTyped'
  BY <1>1, ChipsAssumption DEF Inv, CountersTyped, ProgressTyped
<1> QED
  BY <1>1, <1>4, <1>6, <1>7, <1>8 DEF Inv, Waiting, SoundDocs

-----------------------------------------------------------------------------
(* Commands take their locks, and act when they have the last. *)

\* The first of two wallets is taken: the other one has the greater id.
LEMMA TakesLockKeeps ==
    ASSUME Inv, NEW h \in Handlers, TakesLock(h)
    PROVE  Inv'
<1> DEFINE want == work[h].want
           w == [work[h] EXCEPT !.want = Tail(@)]
<1>1. /\ work[h].at = "locking" /\ Len(want) > 1
      /\ economy' = [economy EXCEPT ![Head(want)] = h] /\ work' = [work EXCEPT ![h] = w]
      /\ UNCHANGED <<cache, store, progress, day, robberies, failures, minted, crashed>>
  BY DEF TakesLock
<1>2. work[h] \in Work /\ SoundWork(work[h]) /\ WaitsInOrder(work[h])
  BY <1>1 DEF Inv, Waiting, Works, SoundWork
<1>3. /\ want \in Seq(Users) /\ Len(want) = 2 /\ want[1] < want[2]
      /\ Head(want) = want[1] /\ want[1] \in Users
      /\ Tail(want) \in Seq(Users) /\ Len(Tail(want)) = 1 /\ Tail(want)[1] = want[2]
  <2>1. want \in Seq(Users)
    BY <1>2 DEF Work
  <2>2. Len(want) \in {1, 2} /\ (Len(want) = 2 => want[1] < want[2]) /\ Len(want) > 1
    BY <1>1, <1>2 DEF WaitsInOrder
  <2> HIDE DEF want
  <2>3. Len(want) = 2 /\ want[1] < want[2]
    BY <2>1, <2>2
  <2> QED
    BY <2>1, <2>3
<1>4. /\ w \in Work /\ w.want = Tail(want) /\ w.at = "locking" /\ w.kind = work[h].kind
      /\ w.user = work[h].user /\ w.other = work[h].other /\ w.id = work[h].id
      /\ w.saves = work[h].saves /\ w.undo = work[h].undo /\ w.notes = work[h].notes
  BY <1>1, <1>2, <1>3 DEF Work
<1> HIDE DEF w
<1>5. SoundWork(w)
  <2>1. WaitsInOrder(w)
    BY <1>2, <1>3, <1>4 DEF WaitsInOrder
  <2> QED
    BY <1>2, <1>4, <2>1 DEF SoundWork
<1>6. Works' /\ work'[h] = w /\ \A g \in Handlers \ {h} : work'[g] = work[g]
  BY <1>1, <1>5, OneWork DEF Inv, Waiting
<1>7. EconomyTyped'
  BY <1>1 DEF Inv, Waiting, EconomyTyped
<1>8. HoldsInOrder'
  <2> SUFFICES ASSUME NEW u \in Users, NEW g \in Handlers, economy'[u] = g
               PROVE  /\ work'[g].at \in {"locking", "saving", "undoing"}
                      /\ work'[g].at = "locking" =>
                           Len(work'[g].want) = 1 /\ u < work'[g].want[1]
    BY DEF HoldsInOrder
  <2>1. CASE g # h
    <3>1. work'[g] = work[g] /\ economy[u] = g
      BY <1>1, <1>6, <2>1 DEF Inv, Waiting, EconomyTyped
    <3> QED
      BY <3>1 DEF Inv, Waiting, HoldsInOrder
  <2>2. CASE g = h
    <3>1. economy[u] # h
      BY <1>1, <1>3 DEF Inv, Waiting, HoldsInOrder
    <3>2. u = want[1]
      BY <1>1, <1>3, <2>2, <3>1 DEF Inv, Waiting, EconomyTyped
    <3> QED
      BY <1>3, <1>4, <1>6, <2>2, <3>2
  <2> QED
    BY <2>1, <2>2
<1>9. CountersTyped' /\ ProgressTyped'
  BY <1>1 DEF Inv, CountersTyped, ProgressTyped
<1> QED
  BY <1>1, <1>6, <1>7, <1>8, <1>9 DEF Inv, Waiting, SoundDocs

LEMMA EndsKeeps ==
    ASSUME Inv, NEW h \in Handlers, Ends(h),
           UNCHANGED <<cache, store, day, robberies, failures, minted, crashed>>
    PROVE  Inv'
<1>1. Waiting' /\ ProgressTyped'
  BY EndsWaiting DEF Inv
<1>2. CountersTyped'
  BY DEF Inv, CountersTyped
<1> QED
  BY <1>1, <1>2 DEF Inv, SoundDocs

LEMMA SavesKeeps ==
    ASSUME Inv, NEW h \in Handlers, LastLock(h),
           NEW saves \in Seq(OwnSave), saves # <<>>, NEW undo \in Seq(OwnSave),
           NEW notes \in Seq(OwnNote), NEW mints \in Int,
           Saves(h, saves, undo, notes, mints)
    PROVE  Inv'
<1> DEFINE want == work[h].want
           w == [work[h] EXCEPT !.at = "saving", !.want = <<>>, !.saves = saves,
                                !.undo = undo, !.notes = notes, !.minted = mints]
<1>1. /\ cache' = [cache EXCEPT ![saves[1].user] = saves[1].doc]
      /\ economy' = [economy EXCEPT ![want[1]] = h]
      /\ work' = [work EXCEPT ![h] = w]
      /\ UNCHANGED <<store, progress, day, robberies, failures, minted, crashed>>
  BY DEF Saves
<1>2. work[h] \in Work /\ want[1] \in Users
  BY DEF Inv, Waiting, Works, LastLock, Work
<1>3. saves[1] \in OwnSave
  OBVIOUS
<1>4. SoundDocs(cache')
  <2>1. saves[1].doc \in Doc /\ FromOthers(saves[1].user, saves[1].doc)
    BY <1>3 DEF OwnSave, SaveOf
  <2> QED
    BY <1>1, <2>1 DEF Inv, SoundDocs
<1>5. saves \in Seq(SaveOf) /\ undo \in Seq(SaveOf) /\ notes \in Seq(NoteOf)
  BY DEF OwnSave, OwnNote
<1>6. /\ w \in Work /\ w.at = "saving" /\ w.saves = saves /\ w.undo = undo
      /\ w.notes = notes
  <2>1. <<>> \in Seq(Users)
    OBVIOUS
  <2>2. w \in Work
    BY <1>2, <1>5, <2>1 DEF Work
  <2>3. w.at = "saving" /\ w.saves = saves /\ w.undo = undo /\ w.notes = notes
    BY <1>2 DEF Work
  <2> QED
    BY <2>2, <2>3
<1> HIDE DEF w
<1>7. SoundWork(w)
  BY <1>6 DEF SoundWork
<1>8. Works' /\ work'[h] = w /\ \A g \in Handlers \ {h} : work'[g] = work[g]
  BY <1>1, <1>7, OneWork DEF Inv, Waiting
<1>9. HoldsInOrder' /\ EconomyTyped'
  BY <1>1, <1>2, <1>6, <1>8, HoldsAndSaves DEF Inv, Waiting
<1>10. CountersTyped' /\ ProgressTyped'
  BY <1>1 DEF Inv, CountersTyped, ProgressTyped
<1> QED
  BY <1>1, <1>4, <1>8, <1>9, <1>10 DEF Inv, Waiting, SoundDocs

-----------------------------------------------------------------------------
(* The documents a command saves. *)

LEMMA WaitingCommand ==
    ASSUME Inv, NEW h \in Handlers, work[h].at = "locking"
    PROVE  /\ work[h] \in Work /\ work[h].user \in Users
           /\ work[h].kind # "golden" =>
                work[h].other \in Users /\ work[h].user # work[h].other
           /\ work[h].kind = "rob" => work[h].id \in Ids
BY DEF Inv, Waiting, Works, SoundWork, WaitsInOrder

LEMMA CachedSound ==
    ASSUME Inv, NEW u \in Users
    PROVE  SoundDoc(u, cache[u]) /\ cache[u] \in Doc
BY DEF Inv, SoundDocs, SoundDoc

\* What the commands do to the chips, the day of the last Change Fate and the time
\* 0to1 has used leaves what the document records.
LEMMA CreditedSound ==
    ASSUME NEW u, NEW doc, SoundDoc(u, doc), NEW n \in Int
    PROVE  SoundDoc(u, [doc EXCEPT !.chips = @ + n]) /\ SoundDoc(u, Charged(doc, n))
<1>1. doc \in Doc /\ doc.chips \in Int
  BY DEF SoundDoc, Doc
<1>2. \A c \in Int : SoundDoc(u, [doc EXCEPT !.chips = c])
  <2> TAKE c \in Int
  <2> DEFINE other == [doc EXCEPT !.chips = c]
  <2>1. other \in Doc /\ other.robberies = doc.robberies /\ other.rows = doc.rows
    BY <1>1 DEF Doc
  <2> HIDE DEF other
  <2>2. SoundDoc(u, other)
    BY <2>1, SameRecord
  <2> QED
    BY <2>2 DEF other
<1>3. doc.chips + n \in Int /\ doc.chips - n \in Int
  BY <1>1
<1> QED
  BY <1>2, <1>3 DEF Charged

LEMMA FatedSound ==
    ASSUME NEW u, NEW doc, SoundDoc(u, doc), NEW fate \in 0..MaxDay
    PROVE  SoundDoc(u, [doc EXCEPT !.fate = fate])
<1> DEFINE other == [doc EXCEPT !.fate = fate]
<1>1. other \in Doc /\ other.robberies = doc.robberies /\ other.rows = doc.rows
  BY DEF Doc, SoundDoc
<1> HIDE DEF other
<1>2. SoundDoc(u, other)
  BY <1>1, SameRecord
<1> QED
  BY <1>2 DEF other

LEMMA ZeroToOneSound ==
    ASSUME NEW u \in Users, NEW doc, SoundDoc(u, doc), NEW id \in Ids, NEW n \in Nat
    PROVE  SoundDoc(u, [Marked(doc, id) EXCEPT !.chips = @ + n, !.cutoff = id])
<1> DEFINE marked == Marked(doc, id)
<1>1. SoundDoc(u, marked)
  BY MarkedSound
<1> HIDE DEF marked
<1>2. marked \in Doc /\ marked.chips \in Int
  BY <1>1 DEF SoundDoc, Doc
<1> DEFINE c == marked.chips + n
<1>3. c \in Int
  BY <1>2
<1> HIDE DEF c
<1> DEFINE other == [marked EXCEPT !.chips = c, !.cutoff = id]
<1>4. other \in Doc /\ other.robberies = marked.robberies /\ other.rows = marked.rows
  BY <1>2, <1>3 DEF Doc
<1> HIDE DEF other
<1>5. SoundDoc(u, other)
  BY <1>1, <1>4, SameRecord
<1> QED
  BY <1>5 DEF other, c, marked

LEMMA ChangeFateSound ==
    ASSUME NEW u \in Users, NEW doc, SoundDoc(u, doc), NEW id \in Ids,
           NEW n \in Nat, NEW b \in Nat, NEW fate \in 0..MaxDay
    PROVE  SoundDoc(u, [Marked(doc, id) EXCEPT !.chips = @ + n, !.bonus = @ + b,
                                !.cutoff = CutoffAfter(doc, id), !.fate = fate])
<1> DEFINE marked == Marked(doc, id)
           cutoff == CutoffAfter(doc, id)
<1>1. SoundDoc(u, marked)
  BY MarkedSound
<1>2. cutoff \in Ids \cup {0}
  <2>1. doc.cutoff \in Ids \cup {0} /\ Ids \cup {0} \subseteq Nat /\ id \in Ids \cup {0}
    BY DEF SoundDoc, Doc, Ids
  <2> QED
    BY <2>1, MaxOfTwo DEF CutoffAfter
<1> HIDE DEF marked, cutoff
<1>3. marked \in Doc /\ marked.chips \in Int /\ marked.bonus \in Nat
  BY <1>1 DEF SoundDoc, Doc
<1> DEFINE c == marked.chips + n
           d == marked.bonus + b
<1>4. c \in Int /\ d \in Nat
  BY <1>3
<1> HIDE DEF c, d
<1> DEFINE other == [marked EXCEPT !.chips = c, !.bonus = d, !.cutoff = cutoff, !.fate = fate]
<1>5. other \in Doc /\ other.robberies = marked.robberies /\ other.rows = marked.rows
  BY <1>2, <1>3, <1>4 DEF Doc
<1> HIDE DEF other
<1>6. SoundDoc(u, other)
  BY <1>1, <1>5, SameRecord
<1> QED
  BY <1>6 DEF other, c, d, marked, cutoff

LEMMA NotesSound ==
    ASSUME NEW a \in Users, NEW b \in Users, NEW r \in RobberyOf, r.thief # a
    PROVE  <<[user |-> a, row |-> r], [user |-> b, row |-> NoRobbery]>> \in Seq(OwnNote)
<1>1. [user |-> a, row |-> r] \in OwnNote /\ [user |-> b, row |-> NoRobbery] \in OwnNote
  BY DEF OwnNote, NoteOf
<1> QED
  BY <1>1

LEMMA RowsSound ==
    ASSUME NEW a \in Users, NEW b \in Users
    PROVE  SkillRows(a, b) \in Seq(OwnNote) /\ <<[user |-> a, row |-> NoRobbery]>> \in Seq(OwnNote)
<1>1. [user |-> a, row |-> NoRobbery] \in OwnNote /\ [user |-> b, row |-> NoRobbery] \in OwnNote
  BY DEF OwnNote, NoteOf
<1> QED
  BY <1>1 DEF SkillRows

LEMMA RobsKeeps ==
    ASSUME Inv, NEW h \in Handlers, Robs(h)
    PROVE  Inv'
<1> DEFINE w == work[h]
           old == cache[w.other]
           bonus == BonusTaken(old, w.amount)
           r == [id |-> w.id, thief |-> w.user, normal |-> w.amount - bonus,
                 bonus |-> bonus, resolved |-> FALSE]
           thief == cache[w.user]
           doc == Robbed(old, r)
           richer == [thief EXCEPT !.chips = @ + w.amount]
           saves == Pair(w.other, doc, w.user, richer)
           undo == Pair(w.other, old, w.user, thief)
           notes == <<[user |-> w.other, row |-> r], [user |-> w.user, row |-> NoRobbery]>>
<1>1. LastLock(h) /\ w.at = "locking" /\ w.kind = "rob"
  BY DEF Robs, LastLock
<1>2. /\ w \in Work /\ w.user \in Users /\ w.other \in Users /\ w.user # w.other
      /\ w.id \in Ids
  BY <1>1, WaitingCommand
<1>3. w.amount \in Nat
  BY <1>2 DEF Work
<1>4. CASE r.normal > Max({0, old.chips})
  <2>1. Ends(h) /\ UNCHANGED <<cache, store, day, robberies, failures, minted, crashed>>
    BY <1>4 DEF Robs
  <2> QED
    BY <2>1, EndsKeeps
<1>5. CASE ~(r.normal > Max({0, old.chips}))
  <2>1. Saves(h, saves, undo, notes, 0)
    BY <1>5 DEF Robs
  <2>2. SoundDoc(w.other, old) /\ SoundDoc(w.user, thief) /\ old \in Doc /\ thief \in Doc
    BY <1>2, CachedSound
  <2>3. bonus \in Nat /\ bonus <= old.bonus /\ bonus <= w.amount
    <3>1. old.bonus \in Nat
      BY <2>2 DEF Doc
    <3> QED
      BY <1>3, <3>1, MinOfTwo DEF BonusTaken
  <2> HIDE DEF bonus
  <2>4. r \in RobberyOf /\ r.thief # w.other /\ r.bonus <= old.bonus
    <3>1. w.amount - bonus \in Nat
      BY <1>3, <2>3
    <3> QED
      BY <1>2, <2>3, <3>1 DEF RobberyOf
  <2> HIDE DEF r
  <2>5. SoundDoc(w.other, doc)
    BY <1>2, <2>2, <2>4, RobbedSound
  <2>6. SoundDoc(w.user, richer)
    BY <1>3, <2>2, CreditedSound
  <2> HIDE DEF doc, richer, old, thief
  <2>7. saves \in Seq(OwnSave) /\ saves # <<>> /\ undo \in Seq(OwnSave)
    BY <1>2, <2>2, <2>5, <2>6, PairSound
  <2>8. notes \in Seq(OwnNote)
    BY <1>2, <2>4, NotesSound
  <2> HIDE DEF saves, undo, notes
  <2> QED
    BY <1>1, <2>1, <2>7, <2>8, SavesKeeps
<1> QED
  BY <1>4, <1>5

LEMMA ZeroToOneKeeps ==
    ASSUME Inv, NEW h \in Handlers, ZeroToOne(h)
    PROVE  Inv'
<1> DEFINE w == work[h]
           old == cache[w.user]
           r == Entry(old)
           n == Min({Limit, r.normal + r.bonus})
           doc == [Marked(old, r.id) EXCEPT !.chips = @ + n, !.cutoff = r.id]
           thief == cache[w.other]
           poorer == Charged(thief, n)
           both == Pair(w.user, doc, w.other, poorer)
           bothUndo == Pair(w.user, old, w.other, thief)
           own == <<[user |-> w.user, doc |-> doc]>>
           ownUndo == <<[user |-> w.user, doc |-> old]>>
           ownNotes == <<[user |-> w.user, row |-> NoRobbery]>>
           rows == SkillRows(w.user, w.other)
<1>1. LastLock(h) /\ w.at = "locking" /\ w.kind = "0to1"
  BY DEF ZeroToOne, LastLock
<1>2. w.user \in Users /\ w.other \in Users
  BY <1>1, WaitingCommand
<1>3. CASE r = NoRobbery
  <2>1. Ends(h) /\ UNCHANGED <<cache, store, day, robberies, failures, minted, crashed>>
    BY <1>3 DEF ZeroToOne
  <2> QED
    BY <2>1, EndsKeeps
<1>4. CASE r # NoRobbery
  <2>1. \/ Saves(h, both, bothUndo, rows, 0)
        \/ Saves(h, own, ownUndo, ownNotes, n)
    BY <1>4 DEF ZeroToOne
  <2>2. SoundDoc(w.user, old) /\ SoundDoc(w.other, thief)
    BY <1>2, CachedSound
  <2> HIDE DEF old, thief
  <2>3. r \in RobberyOf
    BY <1>4, <2>2, EntryNamesAnother
  <2> HIDE DEF r
  <2>4. r.id \in Ids /\ n \in Nat /\ n \in Int
    <3>1. r.normal + r.bonus \in Nat /\ Limit \in Nat /\ r.id \in Ids
      BY <2>3, ChipsAssumption DEF RobberyOf
    <3> QED
      BY <3>1, MinOfTwo
  <2> HIDE DEF n
  <2>5. SoundDoc(w.user, doc)
    BY <1>2, <2>2, <2>4, ZeroToOneSound
  <2>6. SoundDoc(w.other, poorer)
    BY <2>2, <2>4, CreditedSound
  <2> HIDE DEF doc, poorer
  <2>7. /\ both \in Seq(OwnSave) /\ both # <<>> /\ bothUndo \in Seq(OwnSave)
    BY <1>2, <2>2, <2>5, <2>6, PairSound
  <2>8. /\ own \in Seq(OwnSave) /\ own # <<>> /\ ownUndo \in Seq(OwnSave)
    BY <1>2, <2>2, <2>5, OneSave
  <2>9. rows \in Seq(OwnNote) /\ ownNotes \in Seq(OwnNote)
    BY <1>2, RowsSound
  <2> HIDE DEF both, bothUndo, own, ownUndo, ownNotes, rows
  <2>10. 0 \in Int
    OBVIOUS
  <2> QED
    BY <1>1, <2>1, <2>4, <2>7, <2>8, <2>9, <2>10, SavesKeeps
<1> QED
  BY <1>3, <1>4

LEMMA ChangeFateKeeps ==
    ASSUME Inv, NEW h \in Handlers, ChangeFate(h)
    PROVE  Inv'
<1> DEFINE w == work[h]
           old == cache[w.user]
           thief == cache[w.other]
           open == {r \in ToSet(old.robberies) : r.id = w.id /\ ~r.resolved}
           doc(r) == [Marked(old, r.id) EXCEPT !.chips = @ + r.normal,
                            !.bonus = @ + r.bonus, !.cutoff = CutoffAfter(old, r.id),
                            !.fate = day]
           poorer(r) == Charged(thief, r.normal + r.bonus + Fine)
           undo == Pair(w.user, old, w.other, thief)
           rows == SkillRows(w.user, w.other)
<1>1. LastLock(h) /\ w.at = "locking" /\ w.kind = "fate"
  BY DEF ChangeFate, LastLock
<1>2. w.user \in Users /\ w.other \in Users
  BY <1>1, WaitingCommand
<1>3. CASE Ends(h) /\ UNCHANGED <<cache, store, day, robberies, failures, minted, crashed>>
  BY <1>3, EndsKeeps
<1>4. CASE \E r \in open : Saves(h, Pair(w.user, doc(r), w.other, poorer(r)), undo, rows, -Fine)
  <2>1. PICK r \in open :
           Saves(h, Pair(w.user, doc(r), w.other, poorer(r)), undo, rows, -Fine)
    BY <1>4
  <2> DEFINE richer == doc(r)
             charged == poorer(r)
             saves == Pair(w.user, richer, w.other, charged)
  <2>2. Saves(h, saves, undo, rows, -Fine)
    BY <2>1
  <2>3. /\ SoundDoc(w.user, old) /\ old \in Doc /\ SoundDoc(w.other, thief)
        /\ day \in 0..MaxDay /\ -Fine \in Int /\ Fine \in Nat
    BY <1>2, CachedSound, ChipsAssumption DEF Inv, CountersTyped
  <2>4. r \in RobberyOf
    <3>1. old.robberies \in Seq(RobberyOf) /\ r \in ToSet(old.robberies)
      BY <2>3 DEF Doc
    <3> QED
      BY <3>1 DEF ToSet
  <2> HIDE DEF old, thief
  <2>5. r.id \in Ids /\ r.normal \in Nat /\ r.bonus \in Nat
    BY <2>4 DEF RobberyOf
  <2>6. SoundDoc(w.user, richer)
    BY <1>2, <2>3, <2>5, ChangeFateSound
  <2>7. SoundDoc(w.other, charged)
    <3>1. r.normal + r.bonus + Fine \in Int
      BY <2>3, <2>5
    <3> QED
      BY <2>3, <3>1, CreditedSound
  <2> HIDE DEF richer, charged
  <2>8. saves \in Seq(OwnSave) /\ saves # <<>> /\ undo \in Seq(OwnSave)
    BY <1>2, <2>3, <2>6, <2>7, PairSound
  <2>9. rows \in Seq(OwnNote)
    BY <1>2, RowsSound
  <2> HIDE DEF saves, undo, rows
  <2> QED
    BY <1>1, <2>2, <2>3, <2>8, <2>9, SavesKeeps
<1> QED
  BY <1>3, <1>4 DEF ChangeFate

LEMMA GoldenKeeps ==
    ASSUME Inv, NEW h \in Handlers, Golden(h)
    PROVE  Inv'
<1> DEFINE u == work[h].user
           doc == [cache[u] EXCEPT !.fate = day]
           saves == <<[user |-> u, doc |-> doc]>>
<1>1. LastLock(h) /\ work[h].at = "locking"
  BY DEF Golden, LastLock
<1>2. u \in Users
  BY <1>1, WaitingCommand
<1>3. CASE cache[u].fate = day
  BY <1>3, EndsKeeps DEF Golden
<1>4. CASE cache[u].fate # day
  <2> DEFINE none == <<>>
  <2>1. Saves(h, saves, none, none, 0)
    BY <1>4 DEF Golden
  <2>2. SoundDoc(u, cache[u]) /\ day \in 0..MaxDay
    BY <1>2, CachedSound DEF Inv, CountersTyped
  <2>3. SoundDoc(u, doc)
    BY <2>2, FatedSound
  <2> HIDE DEF doc
  <2>4. saves \in Seq(OwnSave) /\ saves # <<>>
    BY <1>2, <2>3, OneSave
  <2>5. none \in Seq(OwnSave) /\ none \in Seq(OwnNote) /\ 0 \in Int
    OBVIOUS
  <2> HIDE DEF saves, none
  <2> QED
    BY <1>1, <2>1, <2>4, <2>5, SavesKeeps
<1> QED
  BY <1>3, <1>4

-----------------------------------------------------------------------------
(* Saves land or raise, and the rows are noted. *)

LEMMA FirstSave ==
    ASSUME Inv, NEW h \in Handlers, work[h].at \in {"saving", "undoing", "noting"}
    PROVE  /\ work[h] \in Work /\ work[h].saves \in Seq(OwnSave) /\ work[h].saves # <<>>
           /\ work[h].undo \in Seq(OwnSave) /\ work[h].notes \in Seq(OwnNote)
           /\ SoundDocs(Stored(h))
<1> DEFINE saves == work[h].saves
<1>1. /\ work[h] \in Work /\ saves \in Seq(OwnSave) /\ saves # <<>>
      /\ work[h].undo \in Seq(OwnSave) /\ work[h].notes \in Seq(OwnNote)
  BY DEF Inv, Waiting, Works, SoundWork
<1> HIDE DEF saves
<1>2. saves[1] \in OwnSave
  BY <1>1
<1>3. saves[1].doc \in Doc /\ FromOthers(saves[1].user, saves[1].doc)
  BY <1>2 DEF OwnSave, SaveOf
<1>4. Stored(h) = [store EXCEPT ![saves[1].user] = saves[1].doc]
  BY DEF Stored, saves
<1>5. SoundDocs(Stored(h))
  BY <1>3, <1>4 DEF Inv, SoundDocs
<1> QED
  BY <1>1, <1>5 DEF saves

\* The next document is put into the cache as its save begins.
LEMMA SavingKeeps ==
    ASSUME Inv, NEW h \in Handlers, work[h].at \in {"saving", "undoing", "noting"},
           NEW w \in Work, w.saves \in Seq(OwnSave), w.saves # <<>>,
           w.undo = work[h].undo, w.notes = work[h].notes,
           w.at = work[h].at \/ (w.at = "undoing" /\ work[h].at = "saving"),
           UNCHANGED economy,
           cache' = [cache EXCEPT ![w.saves[1].user] = w.saves[1].doc],
           work' = [work EXCEPT ![h] = w]
    PROVE  SoundDocs(cache') /\ Waiting'
<1>1. w.saves[1] \in OwnSave
  OBVIOUS
<1>2. w.saves[1].doc \in Doc /\ FromOthers(w.saves[1].user, w.saves[1].doc)
  BY <1>1 DEF OwnSave, SaveOf
<1>3. SoundDocs(cache')
  BY <1>2 DEF Inv, SoundDocs
<1>4. SoundWork(work[h])
  BY DEF Inv, Waiting, Works
<1>5. SoundWork(w)
  BY <1>4 DEF SoundWork
<1>6. Works' /\ work'[h] = w /\ \A g \in Handlers \ {h} : work'[g] = work[g]
  BY <1>5, OneWork DEF Inv, Waiting
<1>7. CASE work[h].at = "noting"
  BY <1>3, <1>6, <1>7, HoldsNone DEF Inv, Waiting
<1>8. CASE work[h].at # "noting"
  BY <1>3, <1>6, <1>8, HoldsAndSaves DEF Inv, Waiting
<1> QED
  BY <1>7, <1>8

LEMMA NotesNextKeeps ==
    ASSUME Inv, NEW h \in Handlers, NEW notes \in Seq(OwnNote), NotesNext(h, notes)
    PROVE  SoundDocs(cache') /\ Works' /\ \A g \in Handlers \ {h} : work'[g] = work[g]
<1>1. CASE notes = <<>>
  <2>1. work' = [work EXCEPT ![h] = NoWork] /\ UNCHANGED cache
    BY <1>1 DEF NotesNext
  <2>2. Works' /\ \A g \in Handlers \ {h} : work'[g] = work[g]
    BY <2>1, NoWorkSound, OneWork DEF Inv, Waiting
  <2> QED
    BY <2>1, <2>2 DEF Inv, SoundDocs
<1>2. CASE notes # <<>>
  <2> DEFINE n == notes[1]
             doc == Noted(cache[n.user], n.row)
             later == Tail(notes)
             w == Noting(work[h].kind, n.user, doc, later)
  <2>1. cache' = [cache EXCEPT ![n.user] = doc] /\ work' = [work EXCEPT ![h] = w]
    BY <1>2 DEF NotesNext
  <2>2. n \in OwnNote /\ later \in Seq(OwnNote)
    BY <1>2
  <2> HIDE DEF n, later
  <2>3. n.user \in Users
    BY <2>2 DEF OwnNote, NoteOf
  <2>4. SoundDoc(n.user, cache[n.user])
    BY <2>3, CachedSound
  <2>5. SoundDoc(n.user, doc)
    BY <2>2, <2>4, NotedSound
  <2> HIDE DEF doc
  <2>6. SoundDocs(cache')
    BY <2>1, <2>5 DEF Inv, SoundDocs, SoundDoc
  <2>7. work[h].kind \in {"none", "rob", "0to1", "fate", "golden", "claim"}
    BY DEF Inv, Waiting, Works, SoundWork, Work
  <2>8. SoundWork(w)
    BY <2>2, <2>3, <2>5, <2>7, NotingSound
  <2> HIDE DEF w
  <2> QED
    BY <2>1, <2>6, <2>8, OneWork DEF Inv, Waiting
<1> QED
  BY <1>1, <1>2

LEMMA SaveLandsKeeps ==
    ASSUME Inv, NEW h \in Handlers, SaveLands(h)
    PROVE  Inv'
<1> DEFINE w == work[h]
           saves == w.saves
<1>1. /\ w.at \in {"saving", "undoing", "noting"} /\ store' = Stored(h)
      /\ UNCHANGED <<day, robberies, failures, crashed>>
      /\ \/ Len(saves) > 1 /\ Goes(h, Tail(saves))
         \/ /\ Len(saves) = 1 /\ w.at # "undoing"
            /\ Releases(h) /\ minted' = minted + w.minted
            /\ NotesNext(h, w.notes)
         \/ /\ Len(saves) = 1 /\ w.at = "undoing"
            /\ Ends(h) /\ UNCHANGED <<cache, minted>>
  BY DEF SaveLands
<1>2. /\ w \in Work /\ saves \in Seq(OwnSave) /\ w.notes \in Seq(OwnNote)
      /\ SoundDocs(store')
  BY <1>1, FirstSave
<1>3. CASE Len(saves) > 1 /\ Goes(h, Tail(saves))
  <2> DEFINE rest == Tail(saves)
  <2>1. /\ cache' = [cache EXCEPT ![rest[1].user] = rest[1].doc]
        /\ work' = [work EXCEPT ![h].saves = rest]
        /\ UNCHANGED <<economy, progress, minted>>
    BY <1>3 DEF Goes
  <2>2. rest \in Seq(OwnSave) /\ rest # <<>>
    <3>1. ASSUME NEW s \in Seq(OwnSave), Len(s) > 1
          PROVE  Tail(s) \in Seq(OwnSave) /\ Tail(s) # <<>>
      <4>1. s # <<>> /\ Len(s) \in Nat
        BY <3>1
      <4> DEFINE t == Tail(s)
      <4>2. t \in Seq(OwnSave) /\ Len(t) = Len(s) - 1
        BY <4>1, HeadTailProperties
      <4> HIDE DEF t
      <4>3. t # <<>>
        BY <3>1, <4>1, <4>2
      <4> QED
        BY <4>2, <4>3, Zenon DEF t
    <3> QED
      BY <1>2, <1>3, <3>1, Zenon
  <2> HIDE DEF rest
  <2> DEFINE next == [work[h] EXCEPT !.saves = rest]
  <2>3. rest \in Seq(SaveOf)
    BY <2>2 DEF OwnSave
  <2>4. /\ next \in Work /\ next.saves = rest /\ next.at = work[h].at
        /\ next.undo = work[h].undo /\ next.notes = work[h].notes
        /\ work' = [work EXCEPT ![h] = next]
    BY <1>2, <2>1, <2>3 DEF Work
  <2>5. work[h].at \in {"saving", "undoing", "noting"} /\ UNCHANGED economy
    BY <1>1, <2>1
  <2> HIDE DEF next
  <2>6. SoundDocs(cache') /\ Waiting'
    BY <2>1, <2>2, <2>4, <2>5, SavingKeeps
  <2>7. ProgressTyped' /\ CountersTyped'
    BY <1>1, <2>1 DEF Inv, ProgressTyped, CountersTyped
  <2> QED
    BY <1>2, <2>6, <2>7 DEF Inv
<1>4. CASE /\ Len(saves) = 1 /\ w.at # "undoing"
           /\ Releases(h) /\ minted' = minted + w.minted
           /\ NotesNext(h, w.notes)
  <2>1. SoundDocs(cache') /\ Works' /\ \A g \in Handlers \ {h} : work'[g] = work[g]
    BY <1>2, <1>4, NotesNextKeeps
  <2>2. HoldsInOrder' /\ EconomyTyped'
    BY <1>4, <2>1, FreesAll DEF Inv, Waiting, Releases
  <2>3. ProgressTyped'
    BY <1>4, ProgressFreed DEF Inv, Releases, ProgressTyped
  <2>4. minted' \in Int
    <3>1. w.minted \in Int /\ minted \in Int
      BY <1>2 DEF Work, Inv, CountersTyped
    <3> QED
      BY <1>4, <3>1
  <2>5. CountersTyped'
    BY <1>1, <2>4 DEF Inv, CountersTyped
  <2> QED
    BY <1>2, <2>1, <2>2, <2>3, <2>5 DEF Inv, Waiting
<1>5. CASE /\ Len(saves) = 1 /\ w.at = "undoing"
           /\ Ends(h) /\ UNCHANGED <<cache, minted>>
  <2>1. Waiting' /\ ProgressTyped'
    BY <1>5, EndsWaiting DEF Inv
  <2>2. CountersTyped' /\ SoundDocs(cache')
    BY <1>1, <1>5 DEF Inv, CountersTyped, SoundDocs
  <2> QED
    BY <1>2, <2>1, <2>2 DEF Inv
<1> QED
  BY <1>1, <1>3, <1>4, <1>5

LEMMA SaveFailsKeeps ==
    ASSUME Inv, NEW h \in Handlers, SaveFails(h)
    PROVE  Inv'
<1> DEFINE w == work[h]
           undo == w.undo
<1>1. /\ w.at \in {"saving", "undoing", "noting"} /\ Faults < MaxFaults
      /\ failures' = failures + 1 /\ store' \in {store, Stored(h)}
      /\ UNCHANGED <<day, robberies, minted, crashed>>
      /\ \/ /\ w.at = "saving" /\ undo # <<>>
            /\ cache' = [cache EXCEPT ![undo[1].user] = undo[1].doc]
            /\ work' = [work EXCEPT ![h].at = "undoing", ![h].saves = undo]
            /\ UNCHANGED <<economy, progress>>
         \/ Ends(h) /\ UNCHANGED cache
         \/ /\ w.at = "noting"
            /\ NotesNext(h, w.notes) /\ UNCHANGED <<economy, progress>>
  BY DEF SaveFails, Undone
<1>2. /\ w \in Work /\ undo \in Seq(OwnSave) /\ w.notes \in Seq(OwnNote)
      /\ SoundDocs(Stored(h))
  BY <1>1, FirstSave
<1>3. SoundDocs(store')
  BY <1>1, <1>2 DEF Inv, SoundDocs
<1>4. CountersTyped'
  <2>1. failures \in Nat /\ MaxFaults \in Nat /\ failures <= Faults /\ Faults \in Nat
    BY BoundsAssumption DEF Inv, CountersTyped, Faults
  <2>2. failures' \in 0..MaxFaults
    BY <1>1, <2>1
  <2> QED
    BY <1>1, <2>2 DEF Inv, CountersTyped
<1>5. CASE /\ w.at = "saving" /\ undo # <<>>
           /\ cache' = [cache EXCEPT ![undo[1].user] = undo[1].doc]
           /\ work' = [work EXCEPT ![h].at = "undoing", ![h].saves = undo]
           /\ UNCHANGED <<economy, progress>>
  <2> HIDE DEF undo
  <2> DEFINE next == [work[h] EXCEPT !.at = "undoing", !.saves = undo]
  <2>1. undo \in Seq(SaveOf)
    BY <1>2 DEF OwnSave
  <2>2. work' = [work EXCEPT ![h] = next]
    BY <1>5 DEF Inv, Waiting, Works
  <2>3. /\ next \in Work /\ next.saves = undo /\ next.at = "undoing"
        /\ next.undo = work[h].undo /\ next.notes = work[h].notes
    BY <1>2, <2>1 DEF Work
  <2> HIDE DEF next
  <2>4. SoundDocs(cache') /\ Waiting'
    BY <1>1, <1>2, <1>5, <2>2, <2>3, SavingKeeps
  <2>5. ProgressTyped'
    BY <1>5 DEF Inv, ProgressTyped
  <2> QED
    BY <1>3, <1>4, <2>4, <2>5 DEF Inv
<1>6. CASE Ends(h) /\ UNCHANGED cache
  <2>1. Waiting' /\ ProgressTyped'
    BY <1>6, EndsWaiting DEF Inv
  <2>2. SoundDocs(cache')
    BY <1>6 DEF Inv, SoundDocs
  <2> QED
    BY <1>3, <1>4, <2>1, <2>2 DEF Inv
<1>7. CASE /\ w.at = "noting"
           /\ NotesNext(h, w.notes) /\ UNCHANGED <<economy, progress>>
  <2>1. SoundDocs(cache') /\ Works' /\ \A g \in Handlers \ {h} : work'[g] = work[g]
    BY <1>2, <1>7, NotesNextKeeps
  <2>2. HoldsInOrder' /\ EconomyTyped'
    BY <1>7, <2>1, HoldsNone DEF Inv, Waiting
  <2>3. ProgressTyped'
    BY <1>7 DEF Inv, ProgressTyped
  <2> QED
    BY <1>3, <1>4, <2>1, <2>2, <2>3 DEF Inv, Waiting
<1> QED
  BY <1>1, <1>5, <1>6, <1>7

LEMMA NewDayKeeps == Inv /\ NewDay => Inv'
<1> SUFFICES ASSUME Inv, NewDay PROVE Inv'
  OBVIOUS
<1>1. CountersTyped' /\ ProgressTyped'
  BY BoundsAssumption DEF NewDay, Inv, CountersTyped, ProgressTyped
<1>2. SoundDocs(cache') /\ SoundDocs(store')
  BY DEF NewDay, Inv, SoundDocs
<1>3. Waiting'
  BY DEF NewDay, Inv, Waiting, Works, EconomyTyped, HoldsInOrder
<1> QED
  BY <1>1, <1>2, <1>3 DEF Inv

LEMMA NothingRunning ==
    ASSUME work = [h \in Handlers |-> NoWork], economy = [u \in Users |-> NoHandler]
    PROVE  Waiting
<1>1. Works
  BY NoWorkSound DEF Works, SoundWork
<1>2. EconomyTyped
  BY DEF EconomyTyped
<1>3. HoldsInOrder
  BY HandlersAssumption DEF HoldsInOrder
<1> QED
  BY <1>1, <1>2, <1>3 DEF Waiting

LEMMA RestartKeeps == Inv /\ Restart => Inv'
<1> SUFFICES ASSUME Inv, Restart PROVE Inv'
  OBVIOUS
<1>1. CountersTyped' /\ ProgressTyped'
  BY DEF Restart, Inv, CountersTyped, ProgressTyped
<1>2. SoundDocs(cache') /\ SoundDocs(store')
  BY DEF Restart, Inv, SoundDocs
<1>3. Works'
  BY NoWorkSound DEF Restart, Works, SoundWork
<1>4. EconomyTyped' /\ HoldsInOrder'
  BY HandlersAssumption DEF Restart, EconomyTyped, HoldsInOrder
<1> QED
  BY <1>1, <1>2, <1>3, <1>4 DEF Inv, Waiting

LEMMA InvInit == Init => Inv
<1> SUFFICES ASSUME Init PROVE Inv
  OBVIOUS
<1>1. Waiting
  BY NothingRunning DEF Init
<1>2. SoundDocs(cache) /\ SoundDocs(store)
  BY StartAssumption DEF Init, SoundDocs
<1>3. ProgressTyped
  BY DEF Init, ProgressTyped
<1>4. CountersTyped
  <2>1. day \in 1..MaxDay /\ robberies \in 0..MaxRobberies /\ failures \in 0..MaxFaults
        /\ minted \in Int
    BY BoundsAssumption DEF Init
  <2>2. crashed \in BOOLEAN
    BY Zenon DEF Init
  <2> QED
    BY <2>1, <2>2, Zenon DEF CountersTyped
<1> QED
  BY <1>1, <1>2, <1>3, <1>4 DEF Inv

LEMMA InvNext == Inv /\ [Next]_vars => Inv'
<1> SUFFICES ASSUME Inv, [Next]_vars PROVE Inv'
  OBVIOUS
<1>1. CASE UNCHANGED vars
  BY <1>1 DEF vars, Inv, SoundDocs, Waiting, Works, EconomyTyped, HoldsInOrder, ProgressTyped,
              CountersTyped
<1>2. ASSUME NEW h \in Handlers, NEW u \in Users,
             \/ \E v \in Users, n \in Amounts : Rob(h, u, v, n)
             \/ AskZeroToOne(h, u) \/ AskChangeFate(h, u) \/ Claim(h, u)
      PROVE  Inv'
  BY <1>2, RobKeeps, AskZeroToOneKeeps, AskChangeFateKeeps, ClaimKeeps
<1>3. ASSUME NEW h \in Handlers, TakesLock(h) \/ Acts(h) PROVE Inv'
  BY <1>3, TakesLockKeeps, RobsKeeps, ZeroToOneKeeps, ChangeFateKeeps, GoldenKeeps DEF Acts
<1>4. ASSUME NEW h \in Handlers, SaveLands(h) \/ SaveFails(h) PROVE Inv'
  BY <1>4, SaveLandsKeeps, SaveFailsKeeps
<1>5. CASE NewDay \/ Restart
  BY <1>5, NewDayKeeps, RestartKeeps
<1> QED
  BY <1>1, <1>2, <1>3, <1>4, <1>5 DEF Next

THEOREM InvAlways == Spec => []Inv
BY InvInit, InvNext, PTL DEF Spec

\* Every variable of the robberies keeps its type.
THEOREM RobberyTyped == Spec => []TypeOK
<1>1. Inv => TypeOK
  BY DEF Inv, SoundDocs, Waiting, Works, EconomyTyped, ProgressTyped, CountersTyped, TypeOK
<1> QED
  BY <1>1, InvAlways, PTL

\* Robberies and the skills that give one back never wait for each other's wallets in
\* a circle, nor one of them for a wallet of its own: of the commands of a circle the
\* one that waits for the wallet with the greatest id waits for a command that holds
\* it, and that one waits for a wallet with a greater id still.
THEOREM NobodyWaitsInACircle == Spec => []NoCircularWait
<1>1. Inv => NoCircularWait
  <2> SUFFICES ASSUME Inv, NEW S \in (SUBSET Handlers) \ {{}},
                      \A h \in S : /\ work[h].at = "locking"
                                    /\ economy[Head(work[h].want)] \in S
               PROVE  FALSE
    BY DEF NoCircularWait
  <2> DEFINE weight == [h \in S |-> Head(work[h].want)]
  <2>1. \A h \in S : /\ Head(work[h].want) = work[h].want[1]
                      /\ work[h].want[1] \in Users
    <3> TAKE h \in S
    <3>1. work[h] \in Work /\ Len(work[h].want) \in {1, 2}
      BY DEF Inv, Waiting, Works, SoundWork, WaitsInOrder
    <3>2. work[h].want \in Seq(Users)
      BY <3>1 DEF Work
    <3> QED
      BY <3>1, <3>2
  <2>2. weight \in [S -> Nat]
    BY <2>1, UsersAssumption
  <2>3. IsFiniteSet(S) /\ S # {}
    BY HandlersAssumption, FS_Subset
  <2> HIDE DEF weight
  <2>4. PICK h \in S : \A g \in S : weight[h] >= weight[g]
    BY <2>2, <2>3, Heaviest
  <2>5. PICK g \in S : economy[Head(work[h].want)] = g
    OBVIOUS
  <2>6. Head(work[h].want) < work[g].want[1]
    BY <2>1, <2>5 DEF Inv, Waiting, HoldsInOrder
  <2>7. weight[h] < weight[g]
    BY <2>1, <2>6 DEF weight
  <2> QED
    BY <2>2, <2>4, <2>7
<1> QED
  BY <1>1, InvAlways, PTL
-----------------------------------------------------------------------------
(* Given back once.  A robbery is known from when its two documents are built, *)
(* and every document that is kept, saved or put back tells of known ones.     *)

Robbing(w) == w.at = "locking" /\ w.kind = "rob"
Known == {id \in 1..robberies : \A h \in Handlers : Robbing(work[h]) => work[h].id # id}

Fair(doc, known) == GivenBack(doc) /\ UsedUp(doc) /\ Recorded(doc) \subseteq known
FairSave(known) == {s \in SaveOf : Fair(s.doc, known)}
FairNote(known) == {n \in NoteOf : n.row # NoRobbery => n.row.id \in known}
FairWork(w, known) ==
    w.saves \in Seq(FairSave(known)) /\ w.undo \in Seq(FairSave(known)) /\ w.notes \in Seq(FairNote(known))

IdsApart ==
    /\ \A h \in Handlers : Robbing(work[h]) => work[h].id \in 1..robberies
    /\ \A g, h \in Handlers : Robbing(work[g]) /\ Robbing(work[h]) /\ g # h => work[g].id # work[h].id

BackInv ==
    /\ \A u \in Users : Fair(cache[u], Known) /\ Fair(store[u], Known)
    /\ \A h \in Handlers : FairWork(work[h], Known)
    /\ IdsApart

\* More robberies are known with time.
LEMMA FairLater ==
    ASSUME NEW known, NEW later, known \subseteq later
    PROVE  /\ \A doc : Fair(doc, known) => Fair(doc, later)
           /\ \A w : FairWork(w, known) => FairWork(w, later)
<1>1. \A doc : Fair(doc, known) => Fair(doc, later)
  BY DEF Fair
<1>2. FairSave(known) \subseteq FairSave(later) /\ FairNote(known) \subseteq FairNote(later)
  BY <1>1 DEF FairSave, FairNote
<1>3. \A w : FairWork(w, known) => FairWork(w, later)
  BY <1>2 DEF FairWork
<1> QED
  BY <1>1, <1>3

LEMMA KnownLater ==
    ASSUME robberies' \in Nat, robberies \in Nat, robberies <= robberies',
           \A h \in Handlers : Robbing(work'[h]) => \/ Robbing(work[h]) /\ work'[h].id = work[h].id
                                                   \/ work'[h].id > robberies
    PROVE  Known \subseteq Known'
BY DEF Known

LEMMA BackStep ==
    ASSUME BackInv, Known \subseteq Known',
           \A u \in Users : cache'[u] = cache[u] \/ Fair(cache'[u], Known'),
           \A u \in Users : store'[u] = store[u] \/ Fair(store'[u], Known'),
           \A h \in Handlers : work'[h] = work[h] \/ FairWork(work'[h], Known'),
           IdsApart'
    PROVE  BackInv'
BY FairLater DEF BackInv

\* A command that is not about to rob changes: the others keep their robberies.
LEMMA IdsStayApart ==
    ASSUME IdsApart, NEW h \in Handlers, NEW w, ~Robbing(w) \/ (Robbing(work[h]) /\ w.id = work[h].id),
           work'[h] = w, \A g \in Handlers \ {h} : work'[g] = work[g], UNCHANGED robberies, robberies \in Nat
    PROVE  IdsApart' /\ Known \subseteq Known'
<1>1. \A g \in Handlers : Robbing(work'[g]) => Robbing(work[g]) /\ work'[g].id = work[g].id
  OBVIOUS
<1>2. IdsApart'
  BY <1>1 DEF IdsApart
<1>3. Known \subseteq Known'
  BY <1>1 DEF Known
<1> QED
  BY <1>2, <1>3

LEMMA NoWorkFair == \A known : FairWork(NoWork, known) /\ ~Robbing(NoWork)
BY DEF FairWork, NoWork, Robbing

\* Another document with the same record.
LEMMA SameFair ==
    ASSUME NEW doc, NEW other, NEW known, Fair(doc, known), other.robberies = doc.robberies,
           other.rows = doc.rows, other.back = doc.back, other.cutoff = doc.cutoff
    PROVE  Fair(other, known)
BY DEF Fair, GivenBack, UsedUp, Recorded

LEMMA CreditedFair ==
    ASSUME NEW doc \in Doc, NEW known, Fair(doc, known), NEW n \in Int
    PROVE  Fair([doc EXCEPT !.chips = @ + n], known) /\ Fair(Charged(doc, n), known)
<1>1. PICK c, d : c = doc.chips + n /\ d = doc.chips - n
  OBVIOUS
<1>2. [doc EXCEPT !.chips = @ + n] = [doc EXCEPT !.chips = c] /\ Charged(doc, n) = [doc EXCEPT !.chips = d]
  BY <1>1 DEF Charged
<1>3. ASSUME NEW e PROVE Fair([doc EXCEPT !.chips = e], known)
  <2>1. PICK other : other = [doc EXCEPT !.chips = e]
    OBVIOUS
  <2>2. other.robberies = doc.robberies /\ other.rows = doc.rows
        /\ other.back = doc.back /\ other.cutoff = doc.cutoff
    BY <2>1 DEF Doc
  <2> QED
    BY <2>1, <2>2, SameFair
<1> QED
  BY <1>2, <1>3

LEMMA FatedFair ==
    ASSUME NEW doc \in Doc, NEW known, Fair(doc, known), NEW fate
    PROVE  Fair([doc EXCEPT !.fate = fate], known)
<1>1. PICK other : other = [doc EXCEPT !.fate = fate]
  OBVIOUS
<1>2. other.robberies = doc.robberies /\ other.rows = doc.rows
      /\ other.back = doc.back /\ other.cutoff = doc.cutoff
  BY <1>1 DEF Doc
<1> QED
  BY <1>1, <1>2, SameFair

LEMMA PairFair ==
    ASSUME NEW a \in Users, NEW b \in Users, NEW docA \in Doc, NEW docB \in Doc, NEW known,
           Fair(docA, known), Fair(docB, known)
    PROVE  Pair(a, docA, b, docB) \in Seq(FairSave(known))
<1>1. [user |-> a, doc |-> docA] \in FairSave(known) /\ [user |-> b, doc |-> docB] \in FairSave(known)
  BY DEF FairSave, SaveOf
<1> QED
  BY <1>1 DEF Pair

LEMMA OneFair ==
    ASSUME NEW a \in Users, NEW doc \in Doc, NEW known, Fair(doc, known)
    PROVE  <<[user |-> a, doc |-> doc]>> \in Seq(FairSave(known))
<1>1. [user |-> a, doc |-> doc] \in FairSave(known)
  BY DEF FairSave, SaveOf
<1> QED
  BY <1>1

LEMMA RowsFair ==
    ASSUME NEW a \in Users, NEW b \in Users, NEW known
    PROVE  SkillRows(a, b) \in Seq(FairNote(known)) /\ <<[user |-> a, row |-> NoRobbery]>> \in Seq(FairNote(known))
<1>1. [user |-> a, row |-> NoRobbery] \in FairNote(known) /\ [user |-> b, row |-> NoRobbery] \in FairNote(known)
  BY DEF FairNote, NoteOf
<1> QED
  BY <1>1 DEF SkillRows

-----------------------------------------------------------------------------
(* What robbing, giving back and noting do to a document. *)

LEMMA RobbedFair ==
    ASSUME NEW u \in Users, NEW doc, SoundDoc(u, doc), NEW known, NEW later, known \subseteq later,
           NEW r \in RobberyOf, r.id \notin known, r.id \in later, ~r.resolved, Fair(doc, known)
    PROVE  Fair(Robbed(doc, r), later)
<1> DEFINE s == Append(doc.robberies, r)
           t == Kept(s)
<1>1. doc \in Doc /\ doc.robberies \in Seq(RobberyOf)
  BY DEF SoundDoc, Doc
<1>2. s \in Seq(RobberyOf) /\ ToSet(s) \subseteq ToSet(doc.robberies) \cup {r}
  <2>1. /\ s \in Seq(RobberyOf) /\ Len(s) = Len(doc.robberies) + 1
        /\ \A i \in 1..Len(doc.robberies) : s[i] = doc.robberies[i]
        /\ s[Len(s)] = r
    BY <1>1, AppendProperties
  <2> QED
    BY <1>1, <2>1 DEF ToSet
<1> HIDE DEF s
<1>3. ToSet(t) \subseteq ToSet(doc.robberies) \cup {r}
  BY <1>2, KeptRecord
<1>4. PICK b, c : b = doc.bonus - r.bonus /\ c = doc.chips - r.normal
  OBVIOUS
<1>5. Robbed(doc, r) = [doc EXCEPT !.bonus = b, !.chips = c, !.robberies = t]
  BY <1>4 DEF Robbed, s
<1> HIDE DEF t
<1>6. PICK new : new = Robbed(doc, r)
  OBVIOUS
<1>7. new.robberies = t /\ new.rows = doc.rows /\ new.back = doc.back /\ new.cutoff = doc.cutoff
  BY <1>1, <1>5, <1>6 DEF Doc
<1>8. doc.back[r.id] = 0
  BY DEF Fair, Recorded, RobberyOf
<1>9. GivenBack(new)
  BY <1>3, <1>7, <1>8 DEF Fair, GivenBack
<1>10. UsedUp(new)
  BY <1>7 DEF Fair, UsedUp
<1>11. Recorded(new) \subseteq later
  BY <1>3, <1>7 DEF Fair, Recorded
<1> QED
  BY <1>6, <1>9, <1>10, <1>11 DEF Fair

LEMMA MarkedRows ==
    ASSUME NEW doc \in Doc, NEW id \in Ids
    PROVE  Marked(doc, id).rows = doc.rows
<1>1. PICK marks, back : Marked(doc, id) = [doc EXCEPT !.robberies = marks, !.back = back]
  <2>1. Marked(doc, id) = [doc EXCEPT !.robberies = [i \in DOMAIN doc.robberies |->
                                          IF doc.robberies[i].id = id THEN [doc.robberies[i] EXCEPT !.resolved = TRUE]
                                          ELSE doc.robberies[i]],
                                     !.back = [doc.back EXCEPT ![id] = doc.back[id] + 1]]
    BY DEF Marked, Doc
  <2> QED
    BY <2>1
<1> QED
  BY <1>1 DEF Doc

\* A document that gets a robbery back, and whose cutoff passes it.
LEMMA MarkedFair ==
    ASSUME NEW u \in Users, NEW doc, SoundDoc(u, doc), NEW known, Fair(doc, known),
           NEW id \in Ids, id \in known, doc.back[id] = 0, NEW other,
           other.robberies = Marked(doc, id).robberies, other.rows = doc.rows,
           other.back = Marked(doc, id).back, other.cutoff \in Nat, other.cutoff >= id,
           other.cutoff >= doc.cutoff
    PROVE  Fair(other, known)
<1> DEFINE marks == [i \in DOMAIN doc.robberies |->
                       IF doc.robberies[i].id = id THEN [doc.robberies[i] EXCEPT !.resolved = TRUE]
                       ELSE doc.robberies[i]]
<1>1. /\ doc \in Doc /\ doc.robberies \in Seq(RobberyOf) /\ doc.back \in [Ids -> Nat]
      /\ doc.cutoff \in Nat /\ Ids \subseteq Nat
  BY DEF SoundDoc, Doc, Ids
<1>2. PICK back : back = [doc.back EXCEPT ![id] = doc.back[id] + 1]
  OBVIOUS
<1>3. Marked(doc, id) = [doc EXCEPT !.robberies = marks, !.back = back]
  BY <1>1, <1>2 DEF Marked, Doc
<1>4. other.robberies = marks /\ other.back = back
  <2> HIDE DEF marks
  <2> QED
    BY <1>1, <1>3 DEF Doc
<1>5. \A i \in DOMAIN doc.robberies :
          /\ doc.robberies[i] \in RobberyOf /\ doc.robberies[i] \in ToSet(doc.robberies)
          /\ marks[i].id = doc.robberies[i].id
          /\ marks[i].resolved = (doc.robberies[i].resolved \/ doc.robberies[i].id = id)
  <2> SUFFICES ASSUME NEW i \in DOMAIN doc.robberies
               PROVE  /\ doc.robberies[i] \in RobberyOf /\ doc.robberies[i] \in ToSet(doc.robberies)
                      /\ marks[i].id = doc.robberies[i].id
                      /\ marks[i].resolved = (doc.robberies[i].resolved \/ doc.robberies[i].id = id)
    OBVIOUS
  <2>1. doc.robberies[i] \in RobberyOf /\ doc.robberies[i] \in ToSet(doc.robberies)
    BY <1>1 DEF ToSet
  <2>2. PICK r : r = doc.robberies[i]
    OBVIOUS
  <2>3. marks[i] = IF r.id = id THEN [r EXCEPT !.resolved = TRUE] ELSE r
    BY <2>2
  <2> HIDE DEF marks
  <2>4. r.resolved \in BOOLEAN /\ r \in RobberyOf
    BY <2>1, <2>2 DEF RobberyOf
  <2>5. marks[i].id = r.id /\ marks[i].resolved = (r.resolved \/ r.id = id)
    BY <2>3, <2>4 DEF RobberyOf
  <2> QED
    BY <2>1, <2>2, <2>5
<1>6. \A j \in Ids : back[j] = IF j = id THEN 1 ELSE doc.back[j]
  BY <1>1, <1>2
<1>7. \A r \in ToSet(marks) : r.id \in Ids /\ (r.resolved <=> back[r.id] = 1) /\ r.id \in Recorded(doc)
  <2> SUFFICES ASSUME NEW i \in DOMAIN doc.robberies
               PROVE  /\ marks[i].id \in Ids /\ (marks[i].resolved <=> back[marks[i].id] = 1)
                      /\ marks[i].id \in Recorded(doc)
    BY DEF ToSet
  <2>1. marks[i].id \in Ids /\ marks[i].id \in Recorded(doc)
    BY <1>5 DEF RobberyOf, Recorded
  <2>2. doc.robberies[i].resolved <=> doc.back[doc.robberies[i].id] = 1
    BY <1>5 DEF Fair, GivenBack
  <2> HIDE DEF marks
  <2> QED
    BY <1>5, <1>6, <2>1, <2>2
<1> HIDE DEF marks
<1>8. GivenBack(other)
  BY <1>1, <1>4, <1>6, <1>7 DEF Fair, GivenBack
<1>9. UsedUp(other)
  <2> SUFFICES ASSUME NEW j \in Ids, back[j] # 0 PROVE j <= other.cutoff
    BY <1>4 DEF UsedUp
  <2>1. j \in Nat /\ id \in Nat
    BY <1>1
  <2>2. j = id \/ doc.back[j] # 0
    BY <1>6
  <2>3. j <= id \/ j <= doc.cutoff
    BY <2>1, <2>2 DEF Fair, UsedUp
  <2> QED
    BY <1>1, <2>1, <2>3
<1>10. Recorded(other) \subseteq known
  BY <1>4, <1>6, <1>7 DEF Fair, Recorded
<1> QED
  BY <1>8, <1>9, <1>10 DEF Fair

LEMMA ZeroToOneFair ==
    ASSUME NEW u \in Users, NEW doc, SoundDoc(u, doc), NEW known, Fair(doc, known), NEW n \in Nat,
           NEW r, r = Entry(doc), r # NoRobbery
    PROVE  /\ r \in RobberyOf /\ Fair([Marked(doc, r.id) EXCEPT !.chips = @ + n, !.cutoff = r.id], known)
<1> DEFINE usable == {i \in DOMAIN doc.rows : /\ doc.rows[i].id > doc.cutoff
                                              /\ doc.rows[i].id \notin Resolved(doc)}
<1>1. doc.rows \in Seq(RobberyOf) /\ doc.cutoff \in Nat /\ Ids \subseteq Nat
  BY DEF SoundDoc, Doc, Ids
<1>2. usable # {} /\ r = doc.rows[Max(usable)]
  BY DEF Entry
<1>3. Max(usable) \in usable
  <2>1. usable \in SUBSET (1..Len(doc.rows)) /\ Len(doc.rows) \in Nat
    BY <1>1
  <2> QED
    BY <1>2, <2>1, MaxOfPositions
<1>4. PICK i \in DOMAIN doc.rows : r = doc.rows[i] /\ r.id > doc.cutoff
  BY <1>2, <1>3
<1> HIDE DEF usable
<1>5. r \in RobberyOf /\ r.id \in Ids /\ r \in ToSet(doc.rows) /\ r.id \in Nat
  <2>1. r \in RobberyOf /\ r \in ToSet(doc.rows)
    BY <1>1, <1>4 DEF ToSet
  <2>2. r.id \in Ids
    BY <2>1 DEF RobberyOf
  <2> QED
    BY <1>1, <2>1, <2>2
<1>6. r.id \in known /\ doc.back[r.id] = 0
  <2>1. r.id \in known
    BY <1>5 DEF Fair, Recorded
  <2>2. ~(r.id <= doc.cutoff)
    BY <1>1, <1>4, <1>5
  <2> QED
    BY <1>5, <2>1, <2>2 DEF Fair, UsedUp
<1>7. PICK id \in Ids : id = r.id
  BY <1>5
<1>8. PICK marked : marked = Marked(doc, id)
  OBVIOUS
<1>9. marked \in Doc /\ marked.rows = doc.rows
  BY <1>8, MarkedSound, MarkedRows DEF SoundDoc
<1>10. PICK c : c = marked.chips + n
  OBVIOUS
<1>11. PICK other : other = [marked EXCEPT !.chips = c, !.cutoff = id]
  OBVIOUS
<1>12. /\ other.robberies = marked.robberies /\ other.rows = marked.rows /\ other.back = marked.back
       /\ other.cutoff = id
  BY <1>9, <1>11 DEF Doc
<1>13. id \in Nat /\ id >= id /\ id >= doc.cutoff
  BY <1>1, <1>4, <1>7
<1>14. Fair(other, known)
  BY <1>6, <1>7, <1>8, <1>9, <1>12, <1>13, MarkedFair
<1> QED
  BY <1>5, <1>7, <1>8, <1>10, <1>11, <1>14

LEMMA ChangeFateFair ==
    ASSUME NEW u \in Users, NEW doc, SoundDoc(u, doc), NEW known, Fair(doc, known),
           NEW r \in ToSet(doc.robberies), ~r.resolved, NEW fate
    PROVE  Fair([Marked(doc, r.id) EXCEPT !.chips = @ + r.normal, !.bonus = @ + r.bonus,
                                          !.cutoff = CutoffAfter(doc, r.id), !.fate = fate], known)
<1>1. doc \in Doc /\ doc.robberies \in Seq(RobberyOf) /\ doc.cutoff \in Nat /\ Ids \subseteq Nat
      /\ doc.back \in [Ids -> Nat]
  BY DEF SoundDoc, Doc, Ids
<1>2. r \in RobberyOf /\ r.id \in Ids
  <2>1. r \in RobberyOf
    BY <1>1 DEF ToSet
  <2> QED
    BY <2>1 DEF RobberyOf
<1>3. r.id \in known /\ doc.back[r.id] = 0
  <2>1. doc.back[r.id] # 1 /\ doc.back[r.id] <= 1 /\ doc.back[r.id] \in Nat
    BY <1>1, <1>2 DEF Fair, GivenBack
  <2>2. r.id \in known
    BY DEF Fair, Recorded
  <2> QED
    BY <2>1, <2>2
<1>4. PICK id \in Ids : id = r.id
  BY <1>2
<1>5. PICK marked : marked = Marked(doc, id)
  OBVIOUS
<1>6. marked \in Doc /\ marked.rows = doc.rows
  BY <1>1, <1>5, MarkedSound, MarkedRows DEF SoundDoc
<1>7. PICK c, d, cutoff : c = marked.chips + r.normal /\ d = marked.bonus + r.bonus /\ cutoff = CutoffAfter(doc, id)
  OBVIOUS
<1>8. PICK other : other = [marked EXCEPT !.chips = c, !.bonus = d, !.cutoff = cutoff, !.fate = fate]
  OBVIOUS
<1>9. /\ other.robberies = marked.robberies /\ other.rows = marked.rows /\ other.back = marked.back
      /\ other.cutoff = cutoff
  BY <1>6, <1>8 DEF Doc
<1>10. cutoff \in Nat /\ cutoff >= id /\ cutoff >= doc.cutoff
  <2>1. id \in Nat
    BY <1>1
  <2>2. cutoff \in {doc.cutoff, id} /\ \A y \in {doc.cutoff, id} : cutoff >= y
    <3>1. \E x \in {doc.cutoff, id} : \A y \in {doc.cutoff, id} : x >= y
      BY <1>1, <2>1
    <3> QED
      BY <1>7, <3>1 DEF CutoffAfter, Max
  <2> QED
    BY <1>1, <2>1, <2>2
<1>11. Fair(other, known)
  BY <1>3, <1>4, <1>5, <1>6, <1>9, <1>10, MarkedFair
<1> QED
  BY <1>4, <1>5, <1>7, <1>8, <1>11

LEMMA NotedFair ==
    ASSUME NEW known, NEW n \in FairNote(known), NEW doc \in Doc, Fair(doc, known)
    PROVE  Fair(Noted(doc, n.row), known)
<1>1. CASE n.row = NoRobbery
  BY <1>1 DEF Noted
<1>2. CASE n.row # NoRobbery
  <2> DEFINE s == Append(doc.rows, n.row)
  <2>1. n.row \in RobberyOf /\ n.row.id \in known /\ doc.rows \in Seq(RobberyOf)
    BY <1>2 DEF FairNote, NoteOf, Doc
  <2>2. /\ s \in Seq(RobberyOf) /\ Len(s) = Len(doc.rows) + 1
        /\ \A i \in 1..Len(doc.rows) : s[i] = doc.rows[i]
        /\ s[Len(s)] = n.row
    BY <2>1, AppendProperties
  <2>3. ToSet(s) \subseteq ToSet(doc.rows) \cup {n.row}
    BY <2>1, <2>2 DEF ToSet
  <2>4. Noted(doc, n.row) = [doc EXCEPT !.rows = s]
    BY <1>2 DEF Noted
  <2> HIDE DEF s
  <2>5. PICK new : new = [doc EXCEPT !.rows = s]
    OBVIOUS
  <2>6. new.rows = s /\ new.robberies = doc.robberies /\ new.back = doc.back /\ new.cutoff = doc.cutoff
    BY <2>5 DEF Doc
  <2>7. GivenBack(new) /\ UsedUp(new)
    BY <2>6 DEF Fair, GivenBack, UsedUp
  <2>8. Recorded(new) \subseteq known
    BY <2>1, <2>3, <2>6 DEF Fair, Recorded
  <2> QED
    BY <2>4, <2>5, <2>7, <2>8 DEF Fair
<1> QED
  BY <1>1, <1>2

-----------------------------------------------------------------------------
(* The steps. *)

LEMMA CountedRobberies == Inv => robberies \in Nat
BY BoundsAssumption DEF Inv, CountersTyped

\* One command changes, and is not about to rob, or no more than it was: what it then
\* carries has to be fair.
LEMMA OneCommandBack ==
    ASSUME Inv, BackInv, NEW h \in Handlers, NEW w, work'[h] = w,
           \A g \in Handlers \ {h} : work'[g] = work[g],
           ~Robbing(w) \/ (Robbing(work[h]) /\ w.id = work[h].id), UNCHANGED robberies,
           FairWork(w, Known'),
           \A u \in Users : cache'[u] = cache[u] \/ Fair(cache'[u], Known'),
           \A u \in Users : store'[u] = store[u] \/ Fair(store'[u], Known')
    PROVE  BackInv'
<1>1. IdsApart' /\ Known \subseteq Known'
  BY CountedRobberies, IdsStayApart DEF BackInv
<1> QED
  BY <1>1, BackStep

\* A robbery is known once the command that commits it goes on.
LEMMA CommandGoesOn ==
    ASSUME Inv, BackInv, NEW h \in Handlers, ~Robbing(work'[h]),
           \A g \in Handlers \ {h} : work'[g] = work[g], UNCHANGED robberies
    PROVE  Known \subseteq Known' /\ (Robbing(work[h]) => work[h].id \in Known')
<1>1. Known \subseteq Known'
  BY CountedRobberies, IdsStayApart DEF BackInv
<1>2. Robbing(work[h]) => work[h].id \in Known'
  BY DEF BackInv, IdsApart, Known
<1> QED
  BY <1>1, <1>2

LEMMA OthersRest ==
    ASSUME Inv, NEW h \in Handlers, NEW w, work' = [work EXCEPT ![h] = w]
    PROVE  work'[h] = w /\ \A g \in Handlers \ {h} : work'[g] = work[g]
BY DEF Inv, Waiting, Works

LEMMA AskingFair ==
    ASSUME NEW kind, NEW user, NEW other, NEW id, NEW n, NEW want, NEW known
    PROVE  /\ FairWork(Asking(kind, user, other, id, n, want), known)
           /\ Robbing(Asking(kind, user, other, id, n, want)) <=> kind = "rob"
           /\ Asking(kind, user, other, id, n, want).id = id
BY DEF FairWork, Asking, Robbing

LEMMA RobBack ==
    ASSUME Inv, BackInv, NEW h \in Handlers, NEW u \in Users, NEW v \in Users, NEW n \in Amounts,
           Rob(h, u, v, n)
    PROVE  BackInv'
<1>1. PICK w : w = Asking("rob", u, v, robberies + 1, n, Ordered(u, v))
  OBVIOUS
<1>2. /\ work[h].at = "idle" /\ robberies' = robberies + 1 /\ work' = [work EXCEPT ![h] = w]
      /\ UNCHANGED <<cache, store>>
  BY <1>1 DEF Rob, Asks
<1>3. work'[h] = w /\ \A g \in Handlers \ {h} : work'[g] = work[g]
  BY <1>2, OthersRest
<1>4. Robbing(w) /\ w.id = robberies + 1 /\ \A known : FairWork(w, known)
  BY <1>1, AskingFair
<1>5. robberies \in Nat
  BY CountedRobberies
<1>6. ~Robbing(work[h])
  BY <1>2 DEF Robbing
<1>7. Known \subseteq Known'
  BY <1>2, <1>3, <1>4, <1>5 DEF Known
<1>8. IdsApart'
  <2>1. \A g \in Handlers \ {h} : Robbing(work[g]) => work[g].id \in 1..robberies
    BY DEF BackInv, IdsApart
  <2> QED
    BY <1>2, <1>3, <1>4, <1>5, <2>1 DEF BackInv, IdsApart
<1> QED
  BY <1>2, <1>3, <1>4, <1>7, <1>8, BackStep

LEMMA SkillBack ==
    ASSUME Inv, BackInv, NEW h \in Handlers, NEW u \in Users, NEW kind \in {"0to1", "fate", "golden"},
           NEW user, NEW other, NEW id, NEW want, Skill(h, u, Asking(kind, user, other, id, 0, want))
    PROVE  BackInv'
<1>1. PICK w : w = Asking(kind, user, other, id, 0, want)
  OBVIOUS
<1>2. work' = [work EXCEPT ![h] = w] /\ UNCHANGED <<cache, store, robberies>>
  BY <1>1 DEF Skill, Asks
<1>3. ~Robbing(w) /\ \A known : FairWork(w, known)
  BY <1>1, AskingFair
<1> QED
  BY <1>2, <1>3, OthersRest, OneCommandBack

LEMMA AskBack ==
    ASSUME Inv, BackInv, NEW h \in Handlers, NEW u \in Users, AskZeroToOne(h, u) \/ AskChangeFate(h, u)
    PROVE  BackInv'
<1>1. CASE AskZeroToOne(h, u)
  BY <1>1, SkillBack DEF AskZeroToOne
<1>2. CASE AskChangeFate(h, u)
  <2>1. PICK r \in Unresolved(cache[u]) :
          IF r = NoRobbery
            THEN Skill(h, u, Asking("golden", u, NoUser, 0, 0, <<u>>))
            ELSE Skill(h, u, Asking("fate", u, r.thief, r.id, 0, Ordered(u, r.thief)))
    BY <1>2 DEF AskChangeFate
  <2>2. \E kind \in {"fate", "golden"} : \E other, id, want : Skill(h, u, Asking(kind, u, other, id, 0, want))
    <3>1. CASE r = NoRobbery
      BY <2>1, <3>1
    <3>2. CASE r # NoRobbery
      BY <2>1, <3>2
    <3> QED
      BY <3>1, <3>2
  <2>3. PICK kind \in {"fate", "golden"} : \E other, id, want : Skill(h, u, Asking(kind, u, other, id, 0, want))
    BY <2>2
  <2> QED
    BY <2>3, SkillBack
<1> QED
  BY <1>1, <1>2

LEMMA NotingFair ==
    ASSUME NEW kind, NEW u \in Users, NEW doc \in Doc, NEW known, Fair(doc, known),
           NEW notes \in Seq(FairNote(known))
    PROVE  FairWork(Noting(kind, u, doc, notes), known) /\ ~Robbing(Noting(kind, u, doc, notes))
<1>1. PICK saves : saves = <<[user |-> u, doc |-> doc]>>
  OBVIOUS
<1>2. saves \in Seq(FairSave(known))
  BY <1>1, OneFair
<1>3. Noting(kind, u, doc, notes) =
        [at |-> "noting", kind |-> kind, user |-> NoUser, other |-> NoUser, id |-> 0,
         amount |-> 0, want |-> <<>>, saves |-> saves, undo |-> <<>>, notes |-> notes,
         minted |-> 0]
  <2>1. Noting(kind, u, doc, notes) =
          [NoWork EXCEPT !.at = "noting", !.kind = kind, !.saves = saves, !.notes = notes]
    BY <1>1 DEF Noting
  <2> QED
    BY <2>1 DEF NoWork
<1> QED
  BY <1>2, <1>3 DEF FairWork, Robbing

LEMMA CachedFair ==
    ASSUME Inv, BackInv, NEW u \in Users
    PROVE  SoundDoc(u, cache[u]) /\ cache[u] \in Doc /\ Fair(cache[u], Known)
BY CachedSound DEF BackInv

LEMMA ClaimBack ==
    ASSUME Inv, BackInv, NEW h \in Handlers, NEW u \in Users, Claim(h, u)
    PROVE  BackInv'
<1>1. PICK c : c = cache[u].chips + DailyChips
  OBVIOUS
<1>2. PICK doc : doc = [cache[u] EXCEPT !.chips = c, !.claimed = TRUE]
  OBVIOUS
<1>3. PICK w : w = Noting("claim", u, doc, <<>>)
  OBVIOUS
<1>4. /\ cache' = [cache EXCEPT ![u] = doc] /\ work' = [work EXCEPT ![h] = w]
      /\ UNCHANGED <<store, robberies>>
  BY <1>1, <1>2, <1>3 DEF Claim
<1>5. doc \in Doc /\ Fair(doc, Known)
  <2>1. cache[u] \in Doc /\ c \in Int
    BY <1>1, CachedFair, ChipsAssumption DEF Doc
  <2>2. /\ doc \in Doc /\ doc.robberies = cache[u].robberies /\ doc.rows = cache[u].rows
        /\ doc.back = cache[u].back /\ doc.cutoff = cache[u].cutoff
    BY <1>2, <2>1 DEF Doc
  <2> QED
    BY <2>2, CachedFair, SameFair
<1>6. FairWork(w, Known) /\ ~Robbing(w)
  <2>1. <<>> \in Seq(FairNote(Known))
    OBVIOUS
  <2> QED
    BY <1>3, <1>5, <2>1, NotingFair
<1>7. work'[h] = w /\ \A g \in Handlers \ {h} : work'[g] = work[g]
  BY <1>4, OthersRest
<1>8. Known \subseteq Known'
  BY <1>4, <1>6, <1>7, CommandGoesOn
<1>9. FairWork(w, Known') /\ Fair(doc, Known')
  BY <1>5, <1>6, <1>8, FairLater
<1>10. \A v \in Users : cache'[v] = cache[v] \/ cache'[v] = doc
  BY <1>4 DEF Inv, SoundDocs
<1> QED
  BY <1>4, <1>6, <1>7, <1>9, <1>10, OneCommandBack

LEMMA TakesLockBack ==
    ASSUME Inv, BackInv, NEW h \in Handlers, TakesLock(h)
    PROVE  BackInv'
<1>1. PICK want : want = Tail(work[h].want)
  OBVIOUS
<1>2. PICK w : w = [work[h] EXCEPT !.want = want]
  OBVIOUS
<1>3. work' = [work EXCEPT ![h] = w] /\ UNCHANGED <<cache, store, robberies>>
  BY <1>1, <1>2 DEF TakesLock
<1>4. work[h] \in Work
  BY DEF Inv, Waiting, Works
<1>5. /\ w.at = work[h].at /\ w.kind = work[h].kind /\ w.id = work[h].id
      /\ w.saves = work[h].saves /\ w.undo = work[h].undo /\ w.notes = work[h].notes
  BY <1>2, <1>4 DEF Work
<1>6. FairWork(w, Known) /\ (Robbing(w) <=> Robbing(work[h]))
  BY <1>5 DEF BackInv, FairWork, Robbing
<1>7. work'[h] = w /\ \A g \in Handlers \ {h} : work'[g] = work[g]
  BY <1>3, OthersRest
<1>8. Known' = Known
  BY <1>3, <1>5, <1>6, <1>7 DEF Known
<1> QED
  BY <1>3, <1>5, <1>6, <1>7, <1>8, OneCommandBack

LEMMA EndsBack ==
    ASSUME Inv, BackInv, NEW h \in Handlers, Ends(h), UNCHANGED <<cache, robberies>>,
           \A u \in Users : store'[u] = store[u] \/ Fair(store'[u], Known)
    PROVE  BackInv'
<1>1. work'[h] = NoWork /\ \A g \in Handlers \ {h} : work'[g] = work[g]
  BY OthersRest DEF Ends
<1>2. Known \subseteq Known'
  BY <1>1, NoWorkFair, CommandGoesOn
<1>3. \A u \in Users : store'[u] = store[u] \/ Fair(store'[u], Known')
  BY <1>2, FairLater
<1> QED
  BY <1>1, <1>3, NoWorkFair, OneCommandBack

LEMMA SavesGoOn ==
    ASSUME Inv, BackInv, NEW h \in Handlers, LastLock(h), NEW saves, NEW undo, NEW notes, NEW mints,
           Saves(h, saves, undo, notes, mints)
    PROVE  /\ ~Robbing(work'[h]) /\ work'[h].saves = saves /\ work'[h].undo = undo /\ work'[h].notes = notes
           /\ \A g \in Handlers \ {h} : work'[g] = work[g]
           /\ Known \subseteq Known' /\ (Robbing(work[h]) => work[h].id \in Known')
<1>1. PICK w : w = [work[h] EXCEPT !.at = "saving", !.want = <<>>, !.saves = saves,
                                  !.undo = undo, !.notes = notes, !.minted = mints]
  OBVIOUS
<1>2. work' = [work EXCEPT ![h] = w] /\ UNCHANGED robberies
  BY <1>1 DEF Saves
<1>3. work[h] \in Work
  BY DEF Inv, Waiting, Works
<1>4. w.at = "saving" /\ w.saves = saves /\ w.undo = undo /\ w.notes = notes
  BY <1>1, <1>3 DEF Work
<1>5. work'[h] = w /\ \A g \in Handlers \ {h} : work'[g] = work[g]
  BY <1>2, OthersRest
<1> QED
  BY <1>2, <1>4, <1>5, CommandGoesOn DEF Robbing

LEMMA SavesBack ==
    ASSUME Inv, BackInv, NEW h \in Handlers, LastLock(h), NEW saves \in Seq(FairSave(Known')), saves # <<>>,
           NEW undo \in Seq(FairSave(Known')), NEW notes \in Seq(FairNote(Known')), NEW mints,
           Saves(h, saves, undo, notes, mints)
    PROVE  BackInv'
<1>1. /\ ~Robbing(work'[h]) /\ work'[h].saves = saves /\ work'[h].undo = undo /\ work'[h].notes = notes
      /\ \A g \in Handlers \ {h} : work'[g] = work[g]
  BY SavesGoOn
<1>2. FairWork(work'[h], Known')
  BY <1>1 DEF FairWork
<1>3. cache' = [cache EXCEPT ![saves[1].user] = saves[1].doc] /\ UNCHANGED <<store, robberies>>
  BY DEF Saves
<1>4. saves[1] \in FairSave(Known')
  OBVIOUS
<1>5. Fair(saves[1].doc, Known')
  BY <1>4 DEF FairSave
<1>6. \A u \in Users : cache'[u] = cache[u] \/ cache'[u] = saves[1].doc
  BY <1>3 DEF Inv, SoundDocs
<1> QED
  BY <1>1, <1>2, <1>3, <1>5, <1>6, OneCommandBack

LEMMA RobsBack ==
    ASSUME Inv, BackInv, NEW h \in Handlers, Robs(h)
    PROVE  BackInv'
<1> DEFINE w == work[h]
           old == cache[w.other]
           bonus == BonusTaken(old, w.amount)
           r == [id |-> w.id, thief |-> w.user, normal |-> w.amount - bonus,
                 bonus |-> bonus, resolved |-> FALSE]
           thief == cache[w.user]
           doc == Robbed(old, r)
           richer == [thief EXCEPT !.chips = @ + w.amount]
           saves == Pair(w.other, doc, w.user, richer)
           undo == Pair(w.other, old, w.user, thief)
           notes == <<[user |-> w.other, row |-> r], [user |-> w.user, row |-> NoRobbery]>>
<1>1. LastLock(h) /\ w.at = "locking" /\ w.kind = "rob" /\ Robbing(w)
  BY DEF Robs, LastLock, Robbing
<1>2. /\ w \in Work /\ w.user \in Users /\ w.other \in Users /\ w.user # w.other
      /\ w.id \in Ids
  BY <1>1, WaitingCommand
<1>3. w.amount \in Nat /\ w.amount \in Int
  BY <1>2 DEF Work
<1>4. CASE r.normal > Max({0, old.chips})
  <2>1. Ends(h) /\ UNCHANGED <<cache, store, robberies>>
    BY <1>4 DEF Robs
  <2> QED
    BY <2>1, EndsBack
<1>5. CASE ~(r.normal > Max({0, old.chips}))
  <2>1. Saves(h, saves, undo, notes, 0)
    BY <1>5 DEF Robs
  <2>2. Known \subseteq Known' /\ w.id \in Known' /\ w.id \notin Known
    BY <1>1, <2>1, SavesGoOn DEF Known
  <2>3. /\ SoundDoc(w.other, old) /\ old \in Doc /\ Fair(old, Known)
        /\ SoundDoc(w.user, thief) /\ thief \in Doc /\ Fair(thief, Known)
    BY <1>2, CachedFair
  <2>4. bonus \in Nat /\ bonus <= old.bonus /\ bonus <= w.amount
    <3>1. old.bonus \in Nat
      BY <2>3 DEF Doc
    <3> QED
      BY <1>3, <3>1, MinOfTwo DEF BonusTaken
  <2> HIDE DEF bonus
  <2>5. r \in RobberyOf /\ r.thief # w.other /\ r.bonus <= old.bonus /\ r.id = w.id /\ ~r.resolved
    <3>1. w.amount - bonus \in Nat
      BY <1>3, <2>4
    <3> QED
      BY <1>2, <2>4, <3>1 DEF RobberyOf
  <2> HIDE DEF r
  <2>6. SoundDoc(w.other, doc) /\ doc \in Doc
    BY <1>2, <2>3, <2>5, RobbedSound DEF SoundDoc
  <2>7. Fair(doc, Known')
    BY <1>2, <2>2, <2>3, <2>5, RobbedFair
  <2>8. richer \in Doc /\ Fair(richer, Known')
    BY <1>3, <2>2, <2>3, CreditedSound, CreditedFair, FairLater DEF SoundDoc
  <2>9. Fair(old, Known') /\ Fair(thief, Known')
    BY <2>2, <2>3, FairLater
  <2> HIDE DEF doc, richer, old, thief
  <2>10. saves \in Seq(FairSave(Known')) /\ undo \in Seq(FairSave(Known'))
    BY <1>2, <2>3, <2>6, <2>7, <2>8, <2>9, PairFair
  <2>11. saves # <<>>
    BY DEF Pair
  <2>12. notes \in Seq(FairNote(Known'))
    <3>1. [user |-> w.other, row |-> r] \in FairNote(Known') /\ [user |-> w.user, row |-> NoRobbery] \in FairNote(Known')
      BY <1>2, <2>2, <2>5 DEF FairNote, NoteOf
    <3> QED
      BY <3>1
  <2> HIDE DEF saves, undo, notes
  <2> QED
    BY <1>1, <2>1, <2>10, <2>11, <2>12, SavesBack
<1> QED
  BY <1>4, <1>5

LEMMA ZeroToOneBack ==
    ASSUME Inv, BackInv, NEW h \in Handlers, ZeroToOne(h)
    PROVE  BackInv'
<1> DEFINE w == work[h]
           old == cache[w.user]
           r == Entry(old)
           n == Min({Limit, r.normal + r.bonus})
           doc == [Marked(old, r.id) EXCEPT !.chips = @ + n, !.cutoff = r.id]
           thief == cache[w.other]
           poorer == Charged(thief, n)
           both == Pair(w.user, doc, w.other, poorer)
           bothUndo == Pair(w.user, old, w.other, thief)
           own == <<[user |-> w.user, doc |-> doc]>>
           ownUndo == <<[user |-> w.user, doc |-> old]>>
           ownNotes == <<[user |-> w.user, row |-> NoRobbery]>>
           rows == SkillRows(w.user, w.other)
<1>1. LastLock(h) /\ w.at = "locking" /\ w.kind = "0to1"
  BY DEF ZeroToOne, LastLock
<1>2. w.user \in Users /\ w.other \in Users
  BY <1>1, WaitingCommand
<1>3. CASE r = NoRobbery
  BY <1>3, EndsBack DEF ZeroToOne
<1>4. CASE r # NoRobbery
  <2>1. \/ Saves(h, both, bothUndo, rows, 0)
        \/ Saves(h, own, ownUndo, ownNotes, n)
    BY <1>4 DEF ZeroToOne
  <2>2. Known \subseteq Known'
    BY <1>1, <2>1, SavesGoOn
  <2>3. /\ SoundDoc(w.user, old) /\ old \in Doc /\ Fair(old, Known')
        /\ SoundDoc(w.other, thief) /\ thief \in Doc /\ Fair(thief, Known')
    BY <1>2, <2>2, CachedFair, FairLater
  <2> HIDE DEF old, thief
  <2>4. r \in RobberyOf
    BY <1>4, <2>3, EntryNamesAnother
  <2>5. n \in Nat /\ n \in Int /\ r.id \in Ids
    <3>1. r.normal + r.bonus \in Nat /\ Limit \in Nat /\ r.id \in Ids
      BY <2>4, ChipsAssumption DEF RobberyOf
    <3> QED
      BY <3>1, MinOfTwo
  <2> HIDE DEF n
  <2>6. Fair(doc, Known')
    BY <1>2, <1>4, <2>3, <2>5, ZeroToOneFair
  <2>7. doc \in Doc
    BY <1>2, <2>3, <2>5, ZeroToOneSound DEF SoundDoc
  <2> HIDE DEF r
  <2>8. poorer \in Doc /\ Fair(poorer, Known')
    BY <2>3, <2>5, CreditedSound, CreditedFair DEF SoundDoc
  <2> HIDE DEF doc, poorer
  <2>9. both \in Seq(FairSave(Known')) /\ bothUndo \in Seq(FairSave(Known'))
    BY <1>2, <2>3, <2>6, <2>7, <2>8, PairFair
  <2>10. own \in Seq(FairSave(Known')) /\ ownUndo \in Seq(FairSave(Known'))
    BY <1>2, <2>3, <2>6, <2>7, OneFair
  <2>11. rows \in Seq(FairNote(Known')) /\ ownNotes \in Seq(FairNote(Known'))
    BY <1>2, RowsFair
  <2>12. both # <<>> /\ own # <<>>
    BY DEF Pair
  <2> HIDE DEF both, bothUndo, own, ownUndo, ownNotes, rows
  <2> QED
    BY <1>1, <2>1, <2>9, <2>10, <2>11, <2>12, SavesBack
<1> QED
  BY <1>3, <1>4

LEMMA ChangeFateBack ==
    ASSUME Inv, BackInv, NEW h \in Handlers, ChangeFate(h)
    PROVE  BackInv'
<1> DEFINE w == work[h]
           old == cache[w.user]
           thief == cache[w.other]
           open == {r \in ToSet(old.robberies) : r.id = w.id /\ ~r.resolved}
           doc(r) == [Marked(old, r.id) EXCEPT !.chips = @ + r.normal,
                            !.bonus = @ + r.bonus, !.cutoff = CutoffAfter(old, r.id),
                            !.fate = day]
           poorer(r) == Charged(thief, r.normal + r.bonus + Fine)
           undo == Pair(w.user, old, w.other, thief)
           rows == SkillRows(w.user, w.other)
<1>1. LastLock(h) /\ w.at = "locking" /\ w.kind = "fate"
  BY DEF ChangeFate, LastLock
<1>2. w.user \in Users /\ w.other \in Users
  BY <1>1, WaitingCommand
<1>3. CASE Ends(h) /\ UNCHANGED <<cache, store, robberies>>
  BY <1>3, EndsBack
<1>4. CASE \E r \in open : Saves(h, Pair(w.user, doc(r), w.other, poorer(r)), undo, rows, -Fine)
  <2>1. PICK r \in open :
           Saves(h, Pair(w.user, doc(r), w.other, poorer(r)), undo, rows, -Fine)
    BY <1>4
  <2> DEFINE richer == doc(r)
             charged == poorer(r)
             saves == Pair(w.user, richer, w.other, charged)
  <2>2. Saves(h, saves, undo, rows, -Fine)
    BY <2>1
  <2>3. Known \subseteq Known'
    BY <1>1, <2>2, SavesGoOn
  <2>4. /\ SoundDoc(w.user, old) /\ old \in Doc /\ Fair(old, Known')
        /\ SoundDoc(w.other, thief) /\ thief \in Doc /\ Fair(thief, Known')
        /\ day \in 0..MaxDay /\ Fine \in Nat
    BY <1>2, <2>3, CachedFair, FairLater, ChipsAssumption DEF Inv, CountersTyped
  <2>5. r \in ToSet(old.robberies) /\ ~r.resolved
    OBVIOUS
  <2>6. r \in RobberyOf
    <3>1. old.robberies \in Seq(RobberyOf)
      BY <2>4 DEF Doc
    <3> QED
      BY <2>5, <3>1 DEF ToSet
  <2> HIDE DEF old, thief
  <2>7. r.id \in Ids /\ r.normal \in Nat /\ r.bonus \in Nat
    BY <2>6 DEF RobberyOf
  <2>8. richer \in Doc
    BY <1>2, <2>4, <2>7, ChangeFateSound DEF SoundDoc
  <2>9. Fair(richer, Known')
    BY <1>2, <2>4, <2>5, ChangeFateFair
  <2>10. charged \in Doc /\ Fair(charged, Known')
    <3>1. r.normal + r.bonus + Fine \in Int
      BY <2>4, <2>7
    <3> QED
      BY <2>4, <3>1, CreditedSound, CreditedFair DEF SoundDoc
  <2> HIDE DEF richer, charged
  <2>11. saves \in Seq(FairSave(Known')) /\ undo \in Seq(FairSave(Known'))
    BY <1>2, <2>4, <2>8, <2>9, <2>10, PairFair
  <2>12. saves # <<>> /\ rows \in Seq(FairNote(Known'))
    BY <1>2, RowsFair DEF Pair
  <2> HIDE DEF saves, undo, rows
  <2> QED
    BY <1>1, <2>2, <2>11, <2>12, SavesBack
<1> QED
  BY <1>3, <1>4 DEF ChangeFate

LEMMA GoldenBack ==
    ASSUME Inv, BackInv, NEW h \in Handlers, Golden(h)
    PROVE  BackInv'
<1> DEFINE u == work[h].user
           doc == [cache[u] EXCEPT !.fate = day]
           saves == <<[user |-> u, doc |-> doc]>>
           none == <<>>
<1>1. LastLock(h) /\ work[h].at = "locking"
  BY DEF Golden, LastLock
<1>2. u \in Users
  BY <1>1, WaitingCommand
<1>3. CASE cache[u].fate = day
  BY <1>3, EndsBack DEF Golden
<1>4. CASE cache[u].fate # day
  <2>1. Saves(h, saves, none, none, 0)
    BY <1>4 DEF Golden
  <2>2. Known \subseteq Known'
    BY <1>1, <2>1, SavesGoOn
  <2>3. SoundDoc(u, cache[u]) /\ cache[u] \in Doc /\ Fair(cache[u], Known') /\ day \in 0..MaxDay
    BY <1>2, <2>2, CachedFair, FairLater DEF Inv, CountersTyped
  <2>4. doc \in Doc /\ Fair(doc, Known')
    BY <2>3, FatedSound, FatedFair DEF SoundDoc
  <2> HIDE DEF doc
  <2>5. saves \in Seq(FairSave(Known'))
    BY <1>2, <2>4, OneFair
  <2>6. saves # <<>> /\ none \in Seq(FairSave(Known')) /\ none \in Seq(FairNote(Known'))
    OBVIOUS
  <2> HIDE DEF saves, none
  <2> QED
    BY <1>1, <2>1, <2>5, <2>6, SavesBack
<1> QED
  BY <1>3, <1>4

LEMMA FirstSaveFair ==
    ASSUME Inv, BackInv, NEW h \in Handlers, work[h].at \in {"saving", "undoing", "noting"}
    PROVE  /\ work[h] \in Work /\ ~Robbing(work[h])
           /\ work[h].saves \in Seq(FairSave(Known)) /\ work[h].saves # <<>>
           /\ work[h].undo \in Seq(FairSave(Known)) /\ work[h].notes \in Seq(FairNote(Known))
           /\ \A u \in Users : Stored(h)[u] = store[u] \/ Fair(Stored(h)[u], Known)
<1>1. PICK saves : saves = work[h].saves
  OBVIOUS
<1>2. /\ work[h] \in Work /\ ~Robbing(work[h]) /\ saves \in Seq(FairSave(Known)) /\ saves # <<>>
      /\ work[h].undo \in Seq(FairSave(Known)) /\ work[h].notes \in Seq(FairNote(Known))
  BY <1>1, FirstSave DEF BackInv, FairWork, Robbing
<1>3. saves[1] \in FairSave(Known)
  BY <1>2
<1>4. Fair(saves[1].doc, Known)
  BY <1>3 DEF FairSave
<1>5. Stored(h) = [store EXCEPT ![saves[1].user] = saves[1].doc]
  BY <1>1 DEF Stored
<1>6. \A u \in Users : Stored(h)[u] = store[u] \/ Fair(Stored(h)[u], Known)
  BY <1>4, <1>5 DEF Inv, SoundDocs
<1> QED
  BY <1>1, <1>2, <1>6

\* The next save of a command, of those it makes or of those that undo it.
LEMMA NextSaveBack ==
    ASSUME Inv, BackInv, NEW h \in Handlers, NEW w \in Work, ~Robbing(w),
           w.saves \in Seq(FairSave(Known)), w.saves # <<>>,
           w.undo \in Seq(FairSave(Known)), w.notes \in Seq(FairNote(Known)),
           cache' = [cache EXCEPT ![w.saves[1].user] = w.saves[1].doc],
           work' = [work EXCEPT ![h] = w], UNCHANGED robberies,
           \A u \in Users : store'[u] = store[u] \/ Fair(store'[u], Known)
    PROVE  BackInv'
<1>1. work'[h] = w /\ \A g \in Handlers \ {h} : work'[g] = work[g]
  BY OthersRest
<1>2. Known \subseteq Known'
  BY <1>1, CommandGoesOn
<1>3. w.saves[1] \in FairSave(Known)
  OBVIOUS
<1>4. Fair(w.saves[1].doc, Known)
  BY <1>3 DEF FairSave
<1>5. \A u \in Users : cache'[u] = cache[u] \/ Fair(cache'[u], Known)
  BY <1>4 DEF Inv, SoundDocs
<1>6. FairWork(w, Known)
  BY DEF FairWork
<1>7. /\ FairWork(w, Known') /\ \A u \in Users : cache'[u] = cache[u] \/ Fair(cache'[u], Known')
      /\ \A u \in Users : store'[u] = store[u] \/ Fair(store'[u], Known')
  BY <1>2, <1>5, <1>6, FairLater
<1> QED
  BY <1>1, <1>7, OneCommandBack

LEMMA NotesNextBack ==
    ASSUME Inv, BackInv, NEW h \in Handlers, NEW notes \in Seq(FairNote(Known)), NotesNext(h, notes),
           UNCHANGED robberies,
           \A u \in Users : store'[u] = store[u] \/ Fair(store'[u], Known)
    PROVE  BackInv'
<1>1. PICK w, docs : work' = [work EXCEPT ![h] = w] /\ ~Robbing(w) /\ FairWork(w, Known) /\ cache' = docs
                     /\ \A u \in Users : docs[u] = cache[u] \/ Fair(docs[u], Known)
  <2>1. CASE notes = <<>>
    BY <2>1, NoWorkFair DEF NotesNext
  <2>2. CASE notes # <<>>
    <3>1. PICK n, later : n = notes[1] /\ later = Tail(notes)
      OBVIOUS
    <3>2. PICK doc : doc = Noted(cache[n.user], n.row)
      OBVIOUS
    <3>3. PICK w : w = Noting(work[h].kind, n.user, doc, later)
      OBVIOUS
    <3>4. cache' = [cache EXCEPT ![n.user] = doc] /\ work' = [work EXCEPT ![h] = w]
      BY <2>2, <3>1, <3>2, <3>3 DEF NotesNext
    <3>5. n \in FairNote(Known) /\ later \in Seq(FairNote(Known))
      BY <2>2, <3>1
    <3>6. n.user \in Users
      BY <3>5 DEF FairNote, NoteOf
    <3>7. Fair(doc, Known)
      BY <3>2, <3>5, <3>6, CachedFair, NotedFair
    <3>8. doc \in Doc
      <4>1. CASE n.row = NoRobbery
        BY <3>2, <3>6, <4>1, CachedFair DEF Noted
      <4>2. CASE n.row # NoRobbery
        <5>1. n.row \in RobberyOf
          BY <3>5, <4>2 DEF FairNote, NoteOf
        <5>2. PICK old \in Doc : old = cache[n.user]
          BY <3>6, CachedFair
        <5>3. PICK s : s = Append(old.rows, n.row)
          OBVIOUS
        <5>4. s \in Seq(RobberyOf)
          BY <5>1, <5>3 DEF Doc
        <5>5. doc = [old EXCEPT !.rows = s]
          BY <3>2, <4>2, <5>2, <5>3 DEF Noted
        <5> QED
          BY <5>4, <5>5 DEF Doc
      <4> QED
        BY <4>1, <4>2
    <3>9. ~Robbing(w) /\ FairWork(w, Known)
      BY <3>3, <3>5, <3>6, <3>7, <3>8, NotingFair
    <3>10. \A u \in Users : cache'[u] = cache[u] \/ Fair(cache'[u], Known)
      BY <3>4, <3>7 DEF Inv, SoundDocs
    <3> QED
      BY <3>4, <3>9, <3>10
  <2> QED
    BY <2>1, <2>2
<1>2. work'[h] = w /\ \A g \in Handlers \ {h} : work'[g] = work[g]
  BY <1>1, OthersRest
<1>3. Known \subseteq Known'
  BY <1>1, <1>2, CommandGoesOn
<1>4. /\ FairWork(w, Known') /\ \A u \in Users : cache'[u] = cache[u] \/ Fair(cache'[u], Known')
      /\ \A u \in Users : store'[u] = store[u] \/ Fair(store'[u], Known')
  BY <1>1, <1>3, FairLater
<1> QED
  BY <1>1, <1>2, <1>4, OneCommandBack

LEMMA SaveLandsBack ==
    ASSUME Inv, BackInv, NEW h \in Handlers, SaveLands(h)
    PROVE  BackInv'
<1>1. PICK w : w = work[h]
  OBVIOUS
<1>2. /\ w.at \in {"saving", "undoing", "noting"} /\ store' = Stored(h) /\ UNCHANGED robberies
      /\ \/ Len(w.saves) > 1 /\ Goes(h, Tail(w.saves))
         \/ NotesNext(h, w.notes)
         \/ Ends(h) /\ UNCHANGED cache
  BY <1>1 DEF SaveLands
<1>3. /\ w \in Work /\ ~Robbing(w)
      /\ w.saves \in Seq(FairSave(Known)) /\ w.saves # <<>>
      /\ w.undo \in Seq(FairSave(Known)) /\ w.notes \in Seq(FairNote(Known))
      /\ \A u \in Users : store'[u] = store[u] \/ Fair(store'[u], Known)
  BY <1>1, <1>2, FirstSaveFair
<1>4. CASE Len(w.saves) > 1 /\ Goes(h, Tail(w.saves))
  <2>1. PICK saves : saves = w.saves
    OBVIOUS
  <2>2. PICK rest : rest = Tail(saves)
    OBVIOUS
  <2>3. rest \in Seq(FairSave(Known)) /\ rest # <<>>
    <3>1. saves \in Seq(FairSave(Known)) /\ saves # <<>> /\ Len(saves) > 1
      BY <1>3, <1>4, <2>1
    <3>2. rest \in Seq(FairSave(Known)) /\ Len(rest) = Len(saves) - 1
      BY <2>2, <3>1, HeadTailProperties
    <3> QED
      BY <3>1, <3>2
  <2>4. PICK next : next = [w EXCEPT !.saves = rest]
    OBVIOUS
  <2>5. cache' = [cache EXCEPT ![rest[1].user] = rest[1].doc] /\ work' = [work EXCEPT ![h] = next]
    BY <1>1, <1>4, <2>1, <2>2, <2>4 DEF Goes
  <2>6. rest \in Seq(SaveOf)
    BY <2>3 DEF FairSave
  <2>7. /\ next \in Work /\ next.saves = rest /\ next.undo = w.undo /\ next.notes = w.notes
        /\ next.at = w.at /\ next.kind = w.kind
    BY <1>3, <2>4, <2>6 DEF Work
  <2>8. ~Robbing(next)
    BY <1>3, <2>7 DEF Robbing
  <2> QED
    BY <1>2, <1>3, <2>3, <2>5, <2>7, <2>8, NextSaveBack
<1>5. CASE NotesNext(h, w.notes)
  BY <1>2, <1>3, <1>5, NotesNextBack
<1>6. CASE Ends(h) /\ UNCHANGED cache
  BY <1>2, <1>3, <1>6, EndsBack
<1> QED
  BY <1>2, <1>4, <1>5, <1>6

LEMMA SaveFailsBack ==
    ASSUME Inv, BackInv, NEW h \in Handlers, SaveFails(h)
    PROVE  BackInv'
<1>1. PICK w, undo : w = work[h] /\ undo = work[h].undo
  OBVIOUS
<1>2. /\ w.at \in {"saving", "undoing", "noting"} /\ store' \in {store, Stored(h)} /\ UNCHANGED robberies
      /\ \/ /\ undo # <<>>
            /\ cache' = [cache EXCEPT ![undo[1].user] = undo[1].doc]
            /\ work' = [work EXCEPT ![h].at = "undoing", ![h].saves = undo]
         \/ Ends(h) /\ UNCHANGED cache
         \/ NotesNext(h, w.notes)
  BY <1>1 DEF SaveFails, Undone
<1>3. /\ w \in Work /\ undo \in Seq(FairSave(Known)) /\ w.notes \in Seq(FairNote(Known))
      /\ \A u \in Users : store'[u] = store[u] \/ Fair(store'[u], Known)
  BY <1>1, <1>2, FirstSaveFair
<1>4. CASE /\ undo # <<>>
           /\ cache' = [cache EXCEPT ![undo[1].user] = undo[1].doc]
           /\ work' = [work EXCEPT ![h].at = "undoing", ![h].saves = undo]
  <2>1. PICK next : next = [w EXCEPT !.at = "undoing", !.saves = undo]
    OBVIOUS
  <2>2. work' = [work EXCEPT ![h] = next]
    BY <1>1, <1>4, <2>1
  <2>3. undo \in Seq(SaveOf)
    BY <1>3 DEF FairSave
  <2>4. /\ next \in Work /\ next.saves = undo /\ next.undo = undo /\ next.notes = w.notes
        /\ next.at = "undoing"
    BY <1>1, <1>3, <2>1, <2>3 DEF Work
  <2>5. ~Robbing(next)
    BY <2>4 DEF Robbing
  <2> QED
    BY <1>2, <1>3, <1>4, <2>2, <2>4, <2>5, NextSaveBack
<1>5. CASE Ends(h) /\ UNCHANGED cache
  BY <1>2, <1>3, <1>5, EndsBack
<1>6. CASE NotesNext(h, w.notes)
  BY <1>2, <1>3, <1>6, NotesNextBack
<1> QED
  BY <1>2, <1>4, <1>5, <1>6

LEMMA RestartBack == Inv /\ BackInv /\ Restart => BackInv'
<1> SUFFICES ASSUME Inv, BackInv, Restart PROVE BackInv'
  OBVIOUS
<1>1. /\ cache' = store /\ UNCHANGED <<store, robberies>> /\ \A h \in Handlers : work'[h] = NoWork
  BY DEF Restart
<1>2. \A h \in Handlers : ~Robbing(work'[h]) /\ FairWork(work'[h], Known')
  BY <1>1, NoWorkFair
<1>3. Known \subseteq Known' /\ IdsApart'
  BY <1>1, <1>2 DEF Known, IdsApart
<1>4. \A u \in Users : Fair(cache'[u], Known')
  BY <1>1, <1>3, FairLater DEF BackInv
<1> QED
  BY <1>1, <1>2, <1>3, <1>4, BackStep

LEMMA BackInit == Init => BackInv
<1> SUFFICES ASSUME Init PROVE BackInv
  OBVIOUS
<1>1. \A h \in Handlers : work[h] = NoWork
  BY DEF Init
<1>2. Known = 1..Before
  BY <1>1, NoWorkFair DEF Known, Init
<1>3. \A u \in Users : Fair(StartDocs[u], Known)
  BY <1>2, StartAssumption DEF Fair
<1>4. IdsApart /\ \A h \in Handlers : FairWork(work[h], Known)
  BY <1>1, NoWorkFair DEF IdsApart
<1> QED
  BY <1>3, <1>4 DEF Init, BackInv

LEMMA BackNext == Inv /\ BackInv /\ [Next]_vars => BackInv'
<1> SUFFICES ASSUME Inv, BackInv, [Next]_vars PROVE BackInv'
  OBVIOUS
<1>1. CASE UNCHANGED <<cache, store, work, robberies>>
  BY <1>1 DEF BackInv, Known, IdsApart, Fair, FairWork
<1>2. ASSUME NEW h \in Handlers, NEW u \in Users,
             \/ \E v \in Users, n \in Amounts : Rob(h, u, v, n)
             \/ AskZeroToOne(h, u) \/ AskChangeFate(h, u) \/ Claim(h, u)
      PROVE  BackInv'
  BY <1>2, RobBack, AskBack, ClaimBack
<1>3. ASSUME NEW h \in Handlers, TakesLock(h) \/ Acts(h) PROVE BackInv'
  BY <1>3, TakesLockBack, RobsBack, ZeroToOneBack, ChangeFateBack, GoldenBack DEF Acts
<1>4. ASSUME NEW h \in Handlers, SaveLands(h) \/ SaveFails(h) PROVE BackInv'
  BY <1>4, SaveLandsBack, SaveFailsBack
<1> QED
  BY <1>1, <1>2, <1>3, <1>4, RestartBack DEF Next, vars, NewDay

\* Robbery!GivenBackOnce: Change Fate looks for a robbery in the list, 0to1 in the rows,
\* which are written later and without a lock; in every document, also in one that was put
\* back or saved from a copy, what was given back is marked and lies before the cutoff.
THEOREM RobberiesGivenBackOnce == Spec => []GivenBackOnce
<1>1. Inv /\ BackInv /\ TypeOK => GivenBackOnce
  BY DEF BackInv, Fair, GivenBackOnce
<1>2. Spec => []BackInv
  BY BackInit, BackNext, InvInit, InvNext, PTL DEF Spec
<1> QED
  BY <1>1, <1>2, InvAlways, RobberyTyped, PTL

-----------------------------------------------------------------------------
(* Chips only move.  A command that holds the wallets of the documents it saves *)
(* knows what its remaining saves, or those that undo it, will still change;    *)
(* meanwhile these documents may gain, by a bonus that needs no wallet, but not *)
(* lose.  What users hold, and at most will by the commands under way, never    *)
(* exceeds what they held before and what was minted.                           *)

\* What a save will change, and what those after the first of a list will.
Change(docs, s) == Worth(s.doc) - Worth(docs[s.user])
Later(docs, saves) == IF Len(saves) = 2 THEN Change(docs, saves[2]) ELSE 0
PutBack(docs, undo) == IF undo = <<>> THEN 0 ELSE Change(docs, undo[1]) + Later(docs, undo)

\* What a command may still add to the chips there are, but for what it grants or fines:
\* the most of what it adds if its saves land and if it is undone.
Onward(docs, w) == Later(docs, w.saves) - w.minted
Ahead(docs, w) ==
    IF w.at = "saving"
      THEN IF Onward(docs, w) >= PutBack(docs, w.undo) THEN Onward(docs, w) ELSE PutBack(docs, w.undo)
      ELSE IF w.at = "undoing" THEN Later(docs, w.saves) ELSE 0
AtStake == SumFunctionOnSet([h \in Handlers |-> Ahead(cache, work[h])], Handlers)

\* One or two saves, of two users, whose wallets the command holds.
LockedSaves(locks, h, saves) ==
    /\ Len(saves) \in {1, 2}
    /\ \A i \in 1..Len(saves) : locks[saves[i].user] = h
    /\ Len(saves) = 2 => saves[1].user # saves[2].user

HeldOrWanted(locks, h, u, want) == locks[u] = h \/ u \in ToSet(want)

UndoesAll(saves, undo) ==
    Len(saves) = 2 => Len(undo) = 2 /\ saves[1].user = undo[1].user /\ saves[2].user = undo[2].user

UnderLocks(locks, h, w, faults) ==
    /\ w.at = "locking" =>
          /\ HeldOrWanted(locks, h, w.user, w.want)
          /\ w.kind # "golden" => HeldOrWanted(locks, h, w.other, w.want)
    /\ w.at = "saving" =>
          /\ LockedSaves(locks, h, w.saves)
          /\ UndoesAll(w.saves, w.undo)
          /\ IF w.undo = <<>> THEN w.minted = 0 ELSE LockedSaves(locks, h, w.undo)
    /\ w.at = "undoing" => LockedSaves(locks, h, w.saves) /\ faults >= 1
    /\ w.at = "noting" => Len(w.saves) = 1 /\ w.minted = 0

ChipsKept ==
    /\ \A h \in Handlers : UnderLocks(economy, h, work[h], failures)
    /\ Total(cache) + AtStake <= Total(StartDocs) + minted
ChipsInv == crashed \/ failures > 1 \/ ChipsKept

-----------------------------------------------------------------------------
LEMMA WorthTyped ==
    ASSUME NEW doc \in Doc
    PROVE  Worth(doc) \in Int /\ doc.chips \in Int /\ doc.bonus \in Nat
BY DEF Worth, Doc

LEMMA TotalTyped == ASSUME NEW docs \in [Users -> Doc] PROVE Total(docs) \in Int
<1>1. [u \in Users |-> Worth(docs[u])] \in [Users -> Int]
  BY WorthTyped
<1> QED
  BY <1>1, UsersAssumption, SumTyped DEF Total

LEMMA WealthChanges ==
    ASSUME NEW docs \in [Users -> Doc], NEW u \in Users, NEW doc \in Doc
    PROVE  Total([docs EXCEPT ![u] = doc]) = Total(docs) + Worth(doc) - Worth(docs[u])
<1>1. PICK later : later = [docs EXCEPT ![u] = doc]
  OBVIOUS
<1>2. later \in [Users -> Doc] /\ later[u] = doc /\ \A v \in Users \ {u} : later[v] = docs[v]
  BY <1>1
<1> DEFINE f == [v \in Users |-> Worth(docs[v])]
           h == [v \in Users |-> Worth(later[v])]
<1>3. f \in [Users -> Int] /\ h \in [Users -> Int]
  BY <1>2, WorthTyped
<1>4. f[u] = Worth(docs[u]) /\ h[u] = Worth(doc) /\ \A v \in Users \ {u} : h[v] = f[v]
  BY <1>2
<1>5. Total(docs) = SumFunctionOnSet(f, Users) /\ Total(later) = SumFunctionOnSet(h, Users)
  BY DEF Total
<1> HIDE DEF f, h
<1>6. IsFiniteSet(Users) /\ \A v \in Users \ {u} : h[v] = f[v]
  BY <1>4, UsersAssumption
<1>7. SumFunctionOnSet(h, Users) = SumFunctionOnSet(f, Users) + h[u] - f[u]
  BY <1>3, <1>6, SumChanged
<1> QED
  BY <1>1, <1>4, <1>5, <1>7

LEMMA ChangeTyped ==
    ASSUME NEW docs \in [Users -> Doc], NEW s \in OwnSave
    PROVE  Change(docs, s) \in Int /\ s.user \in Users /\ s.doc \in Doc
           /\ Worth(s.doc) \in Int /\ Worth(docs[s.user]) \in Int
<1>1. s.user \in Users /\ s.doc \in Doc /\ docs[s.user] \in Doc
  BY DEF OwnSave, SaveOf
<1> QED
  BY <1>1, WorthTyped DEF Change

LEMMA LaterTyped ==
    ASSUME NEW docs \in [Users -> Doc], NEW saves \in Seq(OwnSave)
    PROVE  Later(docs, saves) \in Int /\ PutBack(docs, saves) \in Int
<1>1. Later(docs, saves) \in Int
  <2>1. CASE Len(saves) = 2
    <3>1. 2 \in 1..Len(saves)
      BY <2>1
    <3>2. saves[2] \in OwnSave
      BY <3>1
    <3> QED
      BY <2>1, <3>2, ChangeTyped DEF Later
  <2> QED
    BY <2>1 DEF Later
<1>2. saves # <<>> => saves[1] \in OwnSave
  OBVIOUS
<1> QED
  BY <1>1, <1>2, ChangeTyped DEF PutBack

\* A command as far as its chips go.
Carrying(w) == w.saves \in Seq(OwnSave) /\ w.undo \in Seq(OwnSave) /\ w.minted \in Int

LEMMA AheadTyped ==
    ASSUME NEW docs \in [Users -> Doc], NEW w, Carrying(w)
    PROVE  Ahead(docs, w) \in Int /\ Onward(docs, w) \in Int /\ PutBack(docs, w.undo) \in Int
<1>1. Later(docs, w.saves) \in Int /\ PutBack(docs, w.undo) \in Int
  BY LaterTyped DEF Carrying
<1> QED
  BY <1>1 DEF Ahead, Onward, Carrying

\* Documents whose wallets a command holds may only gain meanwhile: it has no more ahead.
LEMMA ChangeFalls ==
    ASSUME NEW docs \in [Users -> Doc], NEW later \in [Users -> Doc], NEW locks, NEW h,
           NEW saves \in Seq(OwnSave), LockedSaves(locks, h, saves),
           \A u \in Users : locks[u] = h => Worth(later[u]) >= Worth(docs[u])
    PROVE  Later(later, saves) <= Later(docs, saves) /\ PutBack(later, saves) <= PutBack(docs, saves)
<1>1. ASSUME NEW i \in 1..Len(saves)
      PROVE  /\ Change(docs, saves[i]) \in Int /\ Change(later, saves[i]) \in Int
             /\ Change(later, saves[i]) <= Change(docs, saves[i])
  <2>1. PICK s : s = saves[i]
    OBVIOUS
  <2>2. s \in OwnSave /\ locks[s.user] = h
    BY <2>1 DEF LockedSaves
  <2>3. /\ s.user \in Users /\ Worth(s.doc) \in Int /\ Worth(docs[s.user]) \in Int
        /\ Worth(later[s.user]) \in Int
    BY <2>2, ChangeTyped
  <2>4. Worth(later[s.user]) >= Worth(docs[s.user])
    BY <2>2, <2>3
  <2> QED
    BY <2>1, <2>3, <2>4 DEF Change
<1>2. Len(saves) \in {1, 2}
  BY DEF LockedSaves
<1>3. CASE Len(saves) = 1
  <2>1. Later(docs, saves) = 0 /\ Later(later, saves) = 0 /\ 1 \in 1..Len(saves)
    BY <1>3 DEF Later
  <2> QED
    BY <1>1, <2>1 DEF PutBack
<1>4. CASE Len(saves) = 2
  <2>1. 1 \in 1..Len(saves) /\ 2 \in 1..Len(saves)
    BY <1>4
  <2> QED
    BY <1>1, <1>4, <2>1 DEF PutBack, Later
<1> QED
  BY <1>2, <1>3, <1>4

LEMMA AheadFalls ==
    ASSUME NEW docs \in [Users -> Doc], NEW later \in [Users -> Doc], NEW locks, NEW h,
           NEW w, Carrying(w), NEW n, UnderLocks(locks, h, w, n),
           \A u \in Users : locks[u] = h => Worth(later[u]) >= Worth(docs[u])
    PROVE  Ahead(later, w) <= Ahead(docs, w)
<1>1. w.saves \in Seq(OwnSave) /\ w.undo \in Seq(OwnSave) /\ w.minted \in Int
  BY DEF Carrying
<1>2. CASE w.at = "saving"
  <2>1. Later(later, w.saves) <= Later(docs, w.saves)
    BY <1>1, <1>2, ChangeFalls DEF UnderLocks
  <2>2. PutBack(later, w.undo) <= PutBack(docs, w.undo)
    <3>1. CASE w.undo = <<>>
      BY <3>1 DEF PutBack
    <3>2. CASE w.undo # <<>>
      BY <1>1, <1>2, <3>2, ChangeFalls DEF UnderLocks
    <3> QED
      BY <3>1, <3>2
  <2>3. /\ Later(later, w.saves) \in Int /\ Later(docs, w.saves) \in Int
        /\ PutBack(later, w.undo) \in Int /\ PutBack(docs, w.undo) \in Int
    BY <1>1, LaterTyped
  <2> QED
    BY <1>1, <1>2, <2>1, <2>2, <2>3 DEF Ahead, Onward
<1>3. CASE w.at = "undoing"
  BY <1>1, <1>3, ChangeFalls DEF UnderLocks, Ahead
<1>4. CASE w.at \notin {"saving", "undoing"}
  BY <1>4 DEF Ahead
<1> QED
  BY <1>2, <1>3, <1>4

-----------------------------------------------------------------------------
(* A step of one command.  The others keep their locks, and their users lose nothing. *)

OthersUnhurt(h) ==
    /\ failures <= failures'
    /\ \A g \in Handlers \ {h} : work'[g] = work[g]
    /\ \A u \in Users : \A g \in Handlers \ {h} :
          economy[u] = g => economy'[u] = g /\ Worth(cache'[u]) >= Worth(cache[u])

LEMMA StillUnderLocks ==
    ASSUME NEW locks, NEW later, NEW h, NEW w, SoundWork(w), NEW n \in Nat, NEW m \in Nat, n <= m,
           \A u \in Users : locks[u] = h => later[u] = h, UnderLocks(locks, h, w, n)
    PROVE  UnderLocks(later, h, w, m)
<1>1. ASSUME NEW saves \in Seq(OwnSave), LockedSaves(locks, h, saves) PROVE LockedSaves(later, h, saves)
  <2>1. ASSUME NEW i \in 1..Len(saves) PROVE later[saves[i].user] = h
    <3>1. saves[i] \in OwnSave
      OBVIOUS
    <3>2. saves[i].user \in Users
      BY <3>1 DEF OwnSave, SaveOf
    <3> QED
      BY <1>1, <3>2 DEF LockedSaves
  <2> QED
    BY <1>1, <2>1 DEF LockedSaves
<1>2. w.saves \in Seq(OwnSave) /\ w.undo \in Seq(OwnSave)
  BY DEF SoundWork
<1>3. w.at = "locking" =>
        /\ HeldOrWanted(later, h, w.user, w.want)
        /\ w.kind # "golden" => HeldOrWanted(later, h, w.other, w.want)
  <2>1. w.at = "locking" => w.user \in Users /\ (w.kind # "golden" => w.other \in Users)
    BY DEF SoundWork, WaitsInOrder
  <2> QED
    BY <2>1 DEF UnderLocks, HeldOrWanted
<1>4. w.at = "undoing" => m >= 1
  BY DEF UnderLocks
<1> QED
  BY <1>1, <1>2, <1>3, <1>4 DEF UnderLocks

LEMMA SoundCarries ==
    ASSUME NEW w, SoundWork(w) PROVE Carrying(w) /\ w \in Work
BY DEF SoundWork, Carrying, Work

LEMMA InvParts ==
    ASSUME Inv, NEW g \in Handlers
    PROVE  /\ SoundWork(work[g]) /\ Carrying(work[g]) /\ cache \in [Users -> Doc]
           /\ failures \in Nat /\ minted \in Int /\ economy \in [Users -> Handlers \cup {NoHandler}]
           /\ Ahead(cache, work[g]) \in Int /\ Total(cache) \in Int
<1>1. SoundWork(work[g]) /\ cache \in [Users -> Doc]
  BY DEF Inv, Waiting, Works, SoundDocs
<1>2. failures \in Nat /\ minted \in Int /\ economy \in [Users -> Handlers \cup {NoHandler}]
  BY DEF Inv, CountersTyped, Waiting, EconomyTyped
<1> QED
  BY <1>1, <1>2, SoundCarries, AheadTyped, TotalTyped

LEMMA InvLater ==
    ASSUME Inv', NEW g \in Handlers
    PROVE  /\ SoundWork(work'[g]) /\ Carrying(work'[g]) /\ cache' \in [Users -> Doc]
           /\ failures' \in Nat /\ minted' \in Int
           /\ Ahead(cache', work'[g]) \in Int /\ Total(cache') \in Int
<1>1. SoundWork(work'[g]) /\ cache' \in [Users -> Doc]
  BY DEF Inv, Waiting, Works, SoundDocs
<1>2. failures' \in Nat /\ minted' \in Int
  BY DEF Inv, CountersTyped
<1> QED
  BY <1>1, <1>2, SoundCarries, AheadTyped, TotalTyped

LEMMA ChipsStep ==
    ASSUME Inv, Inv', ChipsKept, NEW h \in Handlers, OthersUnhurt(h),
           UnderLocks(economy', h, work'[h], failures'),
           Total(cache') - minted' + Ahead(cache', work'[h]) <= Total(cache) - minted + Ahead(cache, work[h])
    PROVE  ChipsKept'
<1> DEFINE f == [g \in Handlers |-> Ahead(cache, work[g])]
           k == [g \in Handlers |-> Ahead(cache', work'[g])]
<1>1. f \in [Handlers -> Int] /\ k \in [Handlers -> Int]
  BY InvParts, InvLater
<1>2. ASSUME NEW g \in Handlers \ {h}
      PROVE  k[g] <= f[g] /\ UnderLocks(economy', g, work'[g], failures')
  <2>1. work'[g] = work[g] /\ UnderLocks(economy, g, work[g], failures)
    BY DEF OthersUnhurt, ChipsKept
  <2>2. \A u \in Users : economy[u] = g => economy'[u] = g /\ Worth(cache'[u]) >= Worth(cache[u])
    BY DEF OthersUnhurt
  <2>3. SoundWork(work[g]) /\ Carrying(work[g]) /\ cache \in [Users -> Doc] /\ cache' \in [Users -> Doc]
    BY InvParts, InvLater
  <2>4. Ahead(cache', work[g]) <= Ahead(cache, work[g])
    BY <2>1, <2>2, <2>3, AheadFalls
  <2>5. failures \in Nat /\ failures' \in Nat /\ failures <= failures'
    BY InvParts, InvLater DEF OthersUnhurt
  <2>6. UnderLocks(economy', g, work[g], failures')
    BY <2>1, <2>2, <2>3, <2>5, StillUnderLocks
  <2> QED
    BY <2>1, <2>4, <2>6
<1>3. f[h] = Ahead(cache, work[h]) /\ k[h] = Ahead(cache', work'[h])
  OBVIOUS
<1>4. AtStake = SumFunctionOnSet(f, Handlers) /\ AtStake' = SumFunctionOnSet(k, Handlers)
  BY DEF AtStake
<1>5. \A g \in Handlers \ {h} : k[g] <= f[g]
  BY <1>2
<1> HIDE DEF f, k
<1>6. IsFiniteSet(Handlers)
  BY HandlersAssumption
<1>7. /\ SumFunctionOnSet(f, Handlers) \in Int /\ SumFunctionOnSet(k, Handlers) \in Int
      /\ SumFunctionOnSet(k, Handlers) <= SumFunctionOnSet(f, Handlers) + k[h] - f[h]
  BY <1>1, <1>5, <1>6, SumBounded
<1>8. /\ Total(cache) \in Int /\ Total(cache') \in Int /\ minted \in Int /\ minted' \in Int
      /\ f[h] \in Int /\ k[h] \in Int /\ Total(StartDocs) \in Int
  BY <1>1, InvParts, InvLater, StartAssumption, TotalTyped
<1>9. Total(cache) + AtStake <= Total(StartDocs) + minted
  BY DEF ChipsKept
<1>10. Total(cache') + AtStake' <= Total(StartDocs) + minted'
  BY <1>3, <1>4, <1>7, <1>8, <1>9
<1>11. \A g \in Handlers : UnderLocks(economy', g, work'[g], failures')
  BY <1>2
<1>12. Total(cache)' = Total(cache') /\ Total(StartDocs)' = Total(StartDocs)
  BY DEF Total, Worth
<1> QED
  BY <1>10, <1>11, <1>12 DEF ChipsKept, UnderLocks, LockedSaves, HeldOrWanted, UndoesAll

-----------------------------------------------------------------------------
(* Commands begin, wait and end. *)

\* Balances, locks and saves that raised stay as they are, for the others at least.
LEMMA NobodyHurt ==
    ASSUME Inv, NEW h \in Handlers, NEW w, work' = [work EXCEPT ![h] = w], UNCHANGED <<cache, failures>>,
           \A u \in Users : economy[u] \in Handlers \ {h} => economy'[u] = economy[u]
    PROVE  OthersUnhurt(h) /\ work'[h] = w
<1>1. work'[h] = w /\ \A g \in Handlers \ {h} : work'[g] = work[g]
  BY OthersRest
<1>2. failures \in Nat /\ cache \in [Users -> Doc]
  BY InvParts
<1>3. \A u \in Users : Worth(cache[u]) \in Int
  BY <1>2, WorthTyped
<1> QED
  BY <1>1, <1>2, <1>3 DEF OthersUnhurt

LEMMA BeginsChips ==
    ASSUME Inv, Inv', ChipsKept, NEW h \in Handlers, work[h].at \in {"idle", "locking"},
           NEW w, w.at = "locking", work' = [work EXCEPT ![h] = w],
           UNCHANGED <<cache, failures, minted>>,
           \A u \in Users : economy[u] \in Handlers \ {h} => economy'[u] = economy[u],
           UnderLocks(economy', h, w, failures)
    PROVE  ChipsKept'
<1>1. OthersUnhurt(h) /\ work'[h] = w
  BY NobodyHurt
<1>2. Ahead(cache, work[h]) = 0 /\ Ahead(cache', work'[h]) = 0
  BY <1>1 DEF Ahead
<1>3. Total(cache) \in Int /\ minted \in Int
  BY InvParts
<1>4. UnderLocks(economy', h, work'[h], failures')
  BY <1>1
<1>5. Total(cache') - minted' + Ahead(cache', work'[h]) <= Total(cache) - minted + Ahead(cache, work[h])
  BY <1>2, <1>3
<1> QED
  BY <1>1, <1>4, <1>5, ChipsStep

LEMMA OrderedWants ==
    ASSUME NEW a, NEW b
    PROVE  a \in ToSet(Ordered(a, b)) /\ b \in ToSet(Ordered(a, b)) /\ a \in ToSet(<<a>>)
<1>1. \A x, y : x \in ToSet(<<x, y>>) /\ y \in ToSet(<<x, y>>)
  <2> TAKE x, y
  <2>1. <<x, y>>[1] = x /\ <<x, y>>[2] = y /\ DOMAIN <<x, y>> = 1..2
    OBVIOUS
  <2> QED
    BY <2>1 DEF ToSet
<1>2. a \in ToSet(<<a>>)
  <2>1. <<a>>[1] = a /\ DOMAIN <<a>> = 1..1
    OBVIOUS
  <2> QED
    BY <2>1 DEF ToSet
<1> QED
  BY <1>1, <1>2 DEF Ordered

LEMMA RobChips ==
    ASSUME Inv, Inv', ChipsKept, NEW h \in Handlers, NEW u \in Users, NEW v \in Users,
           NEW n \in Amounts, Rob(h, u, v, n)
    PROVE  ChipsKept'
<1>1. PICK want : want = Ordered(u, v)
  OBVIOUS
<1>2. PICK w : w = Asking("rob", u, v, robberies + 1, n, want)
  OBVIOUS
<1>3. work[h].at = "idle" /\ work' = [work EXCEPT ![h] = w] /\ UNCHANGED <<cache, economy, failures, minted>>
  BY <1>1, <1>2 DEF Rob, Asks
<1>4. w.at = "locking" /\ w.user = u /\ w.other = v /\ w.want = want
  BY <1>2 DEF Asking
<1>5. UnderLocks(economy', h, w, failures)
  BY <1>1, <1>4, OrderedWants DEF UnderLocks, HeldOrWanted
<1> QED
  BY <1>3, <1>4, <1>5, BeginsChips

LEMMA SkillChips ==
    ASSUME Inv, Inv', ChipsKept, NEW h \in Handlers, NEW u \in Users, NEW kind, NEW other, NEW id,
           NEW want, Skill(h, u, Asking(kind, u, other, id, 0, want)),
           u \in ToSet(want), kind # "golden" => other \in ToSet(want)
    PROVE  ChipsKept'
<1>1. PICK w : w = Asking(kind, u, other, id, 0, want)
  OBVIOUS
<1>2. work[h].at = "idle" /\ work' = [work EXCEPT ![h] = w] /\ UNCHANGED <<cache, economy, failures, minted>>
  BY <1>1 DEF Skill, Asks
<1>3. w.at = "locking" /\ w.user = u /\ w.other = other /\ w.want = want /\ w.kind = kind
  BY <1>1 DEF Asking
<1>4. UnderLocks(economy', h, w, failures)
  BY <1>3 DEF UnderLocks, HeldOrWanted
<1> QED
  BY <1>2, <1>3, <1>4, BeginsChips

LEMMA AskChips ==
    ASSUME Inv, Inv', ChipsKept, NEW h \in Handlers, NEW u \in Users,
           AskZeroToOne(h, u) \/ AskChangeFate(h, u)
    PROVE  ChipsKept'
<1>1. CASE AskZeroToOne(h, u)
  <2>1. PICK thief : Skill(h, u, Asking("0to1", u, thief, 0, 0, Ordered(u, thief)))
    BY <1>1 DEF AskZeroToOne
  <2> QED
    BY <2>1, OrderedWants, SkillChips
<1>2. CASE AskChangeFate(h, u)
  <2>1. PICK r \in Unresolved(cache[u]) :
          IF r = NoRobbery
            THEN Skill(h, u, Asking("golden", u, NoUser, 0, 0, <<u>>))
            ELSE Skill(h, u, Asking("fate", u, r.thief, r.id, 0, Ordered(u, r.thief)))
    BY <1>2 DEF AskChangeFate
  <2>2. CASE r = NoRobbery
    <3>1. PICK want : want = <<u>>
      OBVIOUS
    <3>2. Skill(h, u, Asking("golden", u, NoUser, 0, 0, want)) /\ u \in ToSet(want)
      BY <2>1, <2>2, <3>1, OrderedWants
    <3> QED
      BY <3>2, SkillChips
  <2>3. CASE r # NoRobbery
    <3>1. PICK thief, id, want : thief = r.thief /\ id = r.id /\ want = Ordered(u, thief)
      OBVIOUS
    <3>2. /\ Skill(h, u, Asking("fate", u, thief, id, 0, want))
          /\ u \in ToSet(want) /\ thief \in ToSet(want)
      BY <2>1, <2>3, <3>1, OrderedWants
    <3> QED
      BY <3>2, SkillChips
  <2> QED
    BY <2>2, <2>3
<1> QED
  BY <1>1, <1>2

LEMMA TakesLockChips ==
    ASSUME Inv, Inv', ChipsKept, NEW h \in Handlers, TakesLock(h)
    PROVE  ChipsKept'
<1>1. PICK want, rest : want = work[h].want /\ rest = Tail(want)
  OBVIOUS
<1>2. PICK w : w = [work[h] EXCEPT !.want = rest]
  OBVIOUS
<1>3. /\ work[h].at = "locking" /\ Len(want) > 1 /\ economy[Head(want)] = NoHandler
      /\ economy' = [economy EXCEPT ![Head(want)] = h] /\ work' = [work EXCEPT ![h] = w]
      /\ UNCHANGED <<cache, failures, minted>>
  BY <1>1, <1>2 DEF TakesLock
<1>4. SoundWork(work[h]) /\ work[h] \in Work /\ want \in Seq(Users)
      /\ economy \in [Users -> Handlers \cup {NoHandler}]
  BY <1>1, InvParts DEF SoundWork, Work
<1>5. w.at = "locking" /\ w.user = work[h].user /\ w.other = work[h].other /\ w.kind = work[h].kind
      /\ w.want = rest
  BY <1>2, <1>3, <1>4 DEF Work
<1>6. Head(want) = want[1] /\ Head(want) \in Users
  BY <1>3, <1>4
<1>7. \A u \in ToSet(want) : u = want[1] \/ u \in ToSet(rest)
  <2> TAKE u \in ToSet(want)
  <2>1. PICK i \in 1..Len(want) : u = want[i]
    BY <1>4 DEF ToSet
  <2>2. CASE i # 1
    <3>1. /\ Len(rest) = Len(want) - 1
          /\ \A j \in 1..Len(rest) : rest[j] = want[j + 1]
      BY <1>1, <1>3, <1>4, HeadTailProperties
    <3>2. i - 1 \in 1..Len(rest) /\ (i - 1) + 1 = i /\ rest \in Seq(Users)
      BY <1>1, <1>3, <1>4, <2>1, <2>2, <3>1
    <3>3. rest[i - 1] = u
      BY <2>1, <3>1, <3>2
    <3> QED
      BY <3>2, <3>3 DEF ToSet
  <2> QED
    BY <2>1, <2>2
<1>8. \A u \in Users : economy'[u] = IF u = want[1] THEN h ELSE economy[u]
  BY <1>3, <1>4, <1>6
<1>9. UnderLocks(economy', h, w, failures)
  <2>1. ASSUME NEW u \in Users, HeldOrWanted(economy, h, u, want) PROVE HeldOrWanted(economy', h, u, rest)
    BY <1>7, <1>8, <2>1 DEF HeldOrWanted
  <2>2. /\ work[h].user \in Users /\ HeldOrWanted(economy, h, work[h].user, want)
        /\ work[h].kind # "golden" =>
              work[h].other \in Users /\ HeldOrWanted(economy, h, work[h].other, want)
    BY <1>1, <1>3, WaitingCommand DEF ChipsKept, UnderLocks
  <2> QED
    BY <1>5, <2>1, <2>2 DEF UnderLocks
<1>10. \A u \in Users : economy[u] \in Handlers \ {h} => economy'[u] = economy[u]
  BY <1>3, <1>6, <1>8, HandlersAssumption
<1> QED
  BY <1>3, <1>5, <1>9, <1>10, BeginsChips

\* A command that ends with nothing to put back gives nothing up.
LEMMA EndsChips ==
    ASSUME Inv, Inv', ChipsKept, NEW h \in Handlers, Ends(h), UNCHANGED <<cache, minted>>,
           failures <= failures', 0 <= Ahead(cache, work[h])
    PROVE  ChipsKept'
<1>1. work' = [work EXCEPT ![h] = NoWork] /\ economy' = Freed(economy, h)
  BY DEF Ends, Releases
<1>2. work'[h] = NoWork /\ \A g \in Handlers \ {h} : work'[g] = work[g]
  BY <1>1, OthersRest
<1>3. cache \in [Users -> Doc] /\ Total(cache) \in Int /\ minted \in Int /\ Ahead(cache, work[h]) \in Int
  BY InvParts
<1>4. OthersUnhurt(h)
  <2>1. \A u \in Users : economy[u] # h => economy'[u] = economy[u]
    BY <1>1 DEF Freed
  <2>2. \A u \in Users : Worth(cache[u]) \in Int
    BY <1>3, WorthTyped
  <2> QED
    BY <1>2, <2>1, <2>2 DEF OthersUnhurt
<1>5. UnderLocks(economy', h, work'[h], failures') /\ Ahead(cache', work'[h]) = 0
  BY <1>2 DEF NoWork, UnderLocks, Ahead
<1>6. Total(cache') - minted' + Ahead(cache', work'[h]) <= Total(cache) - minted + Ahead(cache, work[h])
  BY <1>3, <1>5
<1> QED
  BY <1>4, <1>5, <1>6, ChipsStep

LEMMA GivesUpChips ==
    ASSUME Inv, Inv', ChipsKept, NEW h \in Handlers, work[h].at = "locking", Ends(h),
           UNCHANGED <<cache, minted, failures>>
    PROVE  ChipsKept'
<1>1. Ahead(cache, work[h]) = 0
  BY DEF Ahead
<1>2. failures <= failures'
  BY InvParts
<1> QED
  BY <1>1, <1>2, EndsChips

-----------------------------------------------------------------------------
(* The daily bonus, and what the commands save. *)

LEMMA NotingOne ==
    ASSUME NEW kind, NEW u, NEW doc, NEW notes
    PROVE  /\ Noting(kind, u, doc, notes).at = "noting" /\ Len(Noting(kind, u, doc, notes).saves) = 1
           /\ Noting(kind, u, doc, notes).minted = 0
<1>1. PICK saves : saves = <<[user |-> u, doc |-> doc]>>
  OBVIOUS
<1>2. Noting(kind, u, doc, notes) =
          [NoWork EXCEPT !.at = "noting", !.kind = kind, !.saves = saves, !.notes = notes]
  BY <1>1 DEF Noting
<1>3. /\ Noting(kind, u, doc, notes).at = "noting" /\ Noting(kind, u, doc, notes).saves = saves
      /\ Noting(kind, u, doc, notes).minted = 0
  BY <1>2 DEF NoWork
<1> QED
  BY <1>1, <1>3

LEMMA ClaimChips ==
    ASSUME Inv, Inv', ChipsKept, NEW h \in Handlers, NEW u \in Users, Claim(h, u)
    PROVE  ChipsKept'
<1>1. PICK old, c : old = cache[u] /\ c = old.chips + DailyChips
  OBVIOUS
<1>2. PICK doc : doc = [old EXCEPT !.chips = c, !.claimed = TRUE]
  OBVIOUS
<1>3. PICK w : w = Noting("claim", u, doc, <<>>)
  OBVIOUS
<1>4. /\ work[h].at = "idle" /\ cache' = [cache EXCEPT ![u] = doc] /\ work' = [work EXCEPT ![h] = w]
      /\ minted' = minted + DailyChips /\ UNCHANGED <<economy, failures>>
  BY <1>1, <1>2, <1>3 DEF Claim
<1>5. cache \in [Users -> Doc] /\ Total(cache) \in Int /\ minted \in Int /\ failures \in Nat
  BY InvParts
<1>6. old \in Doc /\ old.chips \in Int /\ old.bonus \in Nat /\ DailyChips \in Nat
  BY <1>1, <1>5, WorthTyped, ChipsAssumption
<1>7. doc \in Doc /\ doc.chips = old.chips + DailyChips /\ doc.bonus = old.bonus
  <2>1. c \in Int
    BY <1>1, <1>6
  <2> QED
    BY <1>1, <1>2, <1>6, <2>1 DEF Doc
<1>8. Worth(doc) = Worth(old) + DailyChips /\ Worth(old) \in Int
  BY <1>6, <1>7 DEF Worth
<1>9. work'[h] = w /\ \A g \in Handlers \ {h} : work'[g] = work[g]
  BY <1>4, OthersRest
<1>10. w.at = "noting" /\ Len(w.saves) = 1 /\ w.minted = 0
  BY <1>3, NotingOne
<1>11. \A v \in Users : Worth(cache'[v]) >= Worth(cache[v])
  <2> TAKE v \in Users
  <2>1. Worth(cache[v]) \in Int
    BY <1>5, WorthTyped
  <2>2. cache'[v] = IF v = u THEN doc ELSE cache[v]
    BY <1>4, <1>5
  <2> QED
    BY <1>1, <1>6, <1>8, <2>1, <2>2
<1>12. OthersUnhurt(h)
  BY <1>4, <1>5, <1>9, <1>11 DEF OthersUnhurt
<1>13. Total(cache') = Total(cache) + DailyChips
  <2>1. Total(cache') = Total(cache) + Worth(doc) - Worth(old)
    BY <1>1, <1>4, <1>5, <1>7, WealthChanges
  <2> QED
    BY <1>5, <1>6, <1>8, <2>1
<1>14. Ahead(cache, work[h]) = 0 /\ Ahead(cache', work'[h]) = 0
  BY <1>4, <1>9, <1>10 DEF Ahead
<1>15. UnderLocks(economy', h, work'[h], failures')
  BY <1>9, <1>10 DEF UnderLocks
<1>16. Total(cache') - minted' + Ahead(cache', work'[h]) <= Total(cache) - minted + Ahead(cache, work[h])
  BY <1>4, <1>5, <1>6, <1>13, <1>14
<1> QED
  BY <1>12, <1>15, <1>16, ChipsStep

LEMMA LocksTaken ==
    ASSUME Inv, ChipsKept, NEW h \in Handlers, LastLock(h),
           economy' = [economy EXCEPT ![work[h].want[1]] = h]
    PROVE  /\ work[h].user \in Users /\ economy'[work[h].user] = h
           /\ work[h].kind # "golden" =>
                 /\ work[h].other \in Users \ {work[h].user} /\ economy'[work[h].other] = h
           /\ \A u \in Users : economy[u] \in Handlers \ {h} => economy'[u] = economy[u]
<1>1. PICK want : want = work[h].want
  OBVIOUS
<1>2. /\ work[h].at = "locking" /\ Len(want) = 1 /\ economy[want[1]] = NoHandler
      /\ economy' = [economy EXCEPT ![want[1]] = h]
  BY <1>1 DEF LastLock
<1>3. want \in Seq(Users) /\ economy \in [Users -> Handlers \cup {NoHandler}]
  BY <1>1, InvParts DEF SoundWork, Work
<1>4. want[1] \in Users /\ \A u : u \in ToSet(want) => u = want[1]
  BY <1>2, <1>3 DEF ToSet
<1>5. \A u \in Users : economy'[u] = IF u = want[1] THEN h ELSE economy[u]
  BY <1>2, <1>3, <1>4
<1>6. /\ HeldOrWanted(economy, h, work[h].user, want)
      /\ work[h].kind # "golden" => HeldOrWanted(economy, h, work[h].other, want)
  BY <1>1, <1>2 DEF ChipsKept, UnderLocks
<1>7. work[h].user \in Users /\ (work[h].kind # "golden" => work[h].other \in Users \ {work[h].user})
  BY <1>2, WaitingCommand
<1>8. \A u \in Users : economy[u] \in Handlers \ {h} => economy'[u] = economy[u]
  BY <1>2, <1>5, HandlersAssumption
<1> QED
  BY <1>4, <1>5, <1>6, <1>7, <1>8 DEF HeldOrWanted

\* Whether the saves of a command land or are put back, it makes no more than it mints.
LEMMA SavesChips ==
    ASSUME Inv, Inv', ChipsKept, NEW h \in Handlers, LastLock(h),
           NEW saves \in Seq(OwnSave), saves # <<>>, NEW undo \in Seq(OwnSave), NEW notes, NEW mints \in Int,
           Saves(h, saves, undo, notes, mints),
           LockedSaves(economy', h, saves), UndoesAll(saves, undo),
           IF undo = <<>> THEN mints = 0 ELSE LockedSaves(economy', h, undo),
           Change(cache, saves[1]) + Later(cache', saves) <= mints,
           Change(cache, saves[1]) + PutBack(cache', undo) <= 0
    PROVE  ChipsKept'
<1>1. PICK w : w = [work[h] EXCEPT !.at = "saving", !.want = <<>>, !.saves = saves,
                                  !.undo = undo, !.notes = notes, !.minted = mints]
  OBVIOUS
<1>2. PICK s : s = saves[1]
  OBVIOUS
<1>3. /\ work[h].at = "locking" /\ cache' = [cache EXCEPT ![s.user] = s.doc]
      /\ work' = [work EXCEPT ![h] = w]
      /\ economy' = [economy EXCEPT ![work[h].want[1]] = h] /\ UNCHANGED <<failures, minted>>
  BY <1>1, <1>2 DEF Saves, LastLock
<1>4. /\ cache \in [Users -> Doc] /\ cache' \in [Users -> Doc] /\ Total(cache) \in Int /\ minted \in Int
      /\ failures \in Nat /\ work[h] \in Work
  BY InvParts, InvLater, SoundCarries
<1>5. s \in OwnSave /\ s.user \in Users /\ s.doc \in Doc /\ Change(cache, s) \in Int
      /\ Worth(s.doc) \in Int /\ Worth(cache[s.user]) \in Int
  <2>1. s \in OwnSave
    BY <1>2
  <2> QED
    BY <1>4, <2>1, ChangeTyped
<1>6. w.at = "saving" /\ w.saves = saves /\ w.undo = undo /\ w.minted = mints
  BY <1>1, <1>4 DEF Work
<1>7. work'[h] = w /\ \A g \in Handlers \ {h} : work'[g] = work[g]
  BY <1>3, OthersRest
<1>8. economy'[s.user] = h
  <2>1. 1 \in 1..Len(saves)
    OBVIOUS
  <2> QED
    BY <1>2, <2>1 DEF LockedSaves
<1>9. OthersUnhurt(h)
  <2>1. \A u \in Users : economy[u] \in Handlers \ {h} => economy'[u] = economy[u]
    BY <1>3, LocksTaken
  <2>2. \A u \in Users : economy[u] \in Handlers \ {h} => cache'[u] = cache[u]
    BY <1>3, <1>4, <1>8, <2>1
  <2>3. \A u \in Users : Worth(cache[u]) \in Int
    BY <1>4, WorthTyped
  <2> QED
    BY <1>3, <1>4, <1>7, <2>1, <2>2, <2>3 DEF OthersUnhurt
<1>10. UnderLocks(economy', h, work'[h], failures')
  BY <1>6, <1>7 DEF UnderLocks
<1>11. Total(cache') = Total(cache) + Change(cache, s)
  <2>1. Total(cache') = Total(cache) + Worth(s.doc) - Worth(cache[s.user])
    BY <1>3, <1>4, <1>5, WealthChanges
  <2> QED
    BY <1>4, <1>5, <2>1 DEF Change
<1>12. Ahead(cache, work[h]) = 0
  BY <1>3 DEF Ahead
<1>13. Change(cache, s) + Ahead(cache', work'[h]) <= 0
  <2>1. Later(cache', saves) \in Int /\ PutBack(cache', undo) \in Int
    BY <1>4, LaterTyped
  <2>2. Onward(cache', w) = Later(cache', saves) - mints /\ PutBack(cache', w.undo) = PutBack(cache', undo)
    BY <1>6 DEF Onward
  <2> QED
    BY <1>2, <1>5, <1>6, <1>7, <2>1, <2>2 DEF Ahead
<1>14. Ahead(cache', work'[h]) \in Int
  BY InvLater
<1>15. Total(cache') - minted' + Ahead(cache', work'[h]) <= Total(cache) - minted + Ahead(cache, work[h])
  BY <1>3, <1>4, <1>5, <1>11, <1>12, <1>13, <1>14
<1> QED
  BY <1>9, <1>10, <1>15, ChipsStep

\* Two documents, between which chips move.
LEMMA PairChips ==
    ASSUME Inv, Inv', ChipsKept, NEW h \in Handlers, LastLock(h), work[h].kind # "golden",
           NEW a, NEW b, {a, b} = {work[h].user, work[h].other},
           NEW docA, NEW docB, SoundDoc(a, docA), SoundDoc(b, docB), NEW notes, NEW mints \in Int,
           Worth(docA) + Worth(docB) = Worth(cache[a]) + Worth(cache[b]) + mints,
           Saves(h, Pair(a, docA, b, docB), Pair(a, cache[a], b, cache[b]), notes, mints)
    PROVE  ChipsKept'
<1>1. PICK saves, undo : saves = Pair(a, docA, b, docB) /\ undo = Pair(a, cache[a], b, cache[b])
  OBVIOUS
<1>2. /\ Saves(h, saves, undo, notes, mints) /\ economy' = [economy EXCEPT ![work[h].want[1]] = h]
      /\ cache' = [cache EXCEPT ![saves[1].user] = saves[1].doc]
  BY <1>1 DEF Saves
<1>3. a \in Users /\ b \in Users /\ a # b /\ economy'[a] = h /\ economy'[b] = h
  <2>1. PICK u, v : u = work[h].user /\ v = work[h].other
    OBVIOUS
  <2>2. u \in Users /\ v \in Users /\ u # v /\ economy'[u] = h /\ economy'[v] = h
    BY <1>2, <2>1, LocksTaken
  <2>3. (a = u /\ b = v) \/ (a = v /\ b = u)
    BY <2>1, <2>2
  <2> QED
    BY <2>2, <2>3
<1>4. cache \in [Users -> Doc]
  BY InvParts
<1>5. saves \in Seq(OwnSave) /\ undo \in Seq(OwnSave) /\ saves # <<>> /\ undo # <<>>
  BY <1>1, <1>3, CachedSound, PairSound
<1>6. /\ Len(saves) = 2 /\ Len(undo) = 2
      /\ saves[1] = [user |-> a, doc |-> docA] /\ saves[2] = [user |-> b, doc |-> docB]
      /\ undo[1] = [user |-> a, doc |-> cache[a]] /\ undo[2] = [user |-> b, doc |-> cache[b]]
  BY <1>1 DEF Pair
<1>7. cache'[a] = docA /\ cache'[b] = cache[b]
  BY <1>2, <1>3, <1>4, <1>6
<1>8. /\ Worth(docA) \in Int /\ Worth(docB) \in Int /\ Worth(cache[a]) \in Int /\ Worth(cache[b]) \in Int
  BY <1>3, <1>4, WorthTyped DEF SoundDoc
<1>9. LockedSaves(economy', h, saves) /\ LockedSaves(economy', h, undo) /\ UndoesAll(saves, undo)
  BY <1>3, <1>6 DEF LockedSaves, UndoesAll
<1>10. /\ Change(cache, saves[1]) = Worth(docA) - Worth(cache[a])
       /\ Later(cache', saves) = Worth(docB) - Worth(cache[b])
  BY <1>6, <1>7 DEF Change, Later
<1>11. PutBack(cache', undo) = Worth(cache[a]) - Worth(docA) + (Worth(cache[b]) - Worth(cache[b]))
  BY <1>5, <1>6, <1>7 DEF Change, Later, PutBack
<1>12. /\ Change(cache, saves[1]) + Later(cache', saves) <= mints
       /\ Change(cache, saves[1]) + PutBack(cache', undo) <= 0
  BY <1>8, <1>10, <1>11
<1> QED
  BY <1>2, <1>5, <1>9, <1>12, SavesChips

\* One document, and what it gains is minted.
LEMMA OneChips ==
    ASSUME Inv, Inv', ChipsKept, NEW h \in Handlers, LastLock(h),
           NEW u, u = work[h].user, NEW doc, SoundDoc(u, doc), NEW undo, NEW notes, NEW mints \in Int,
           Worth(doc) = Worth(cache[u]) + mints,
           undo = <<[user |-> u, doc |-> cache[u]]>> \/ (undo = <<>> /\ mints = 0),
           Saves(h, <<[user |-> u, doc |-> doc]>>, undo, notes, mints)
    PROVE  ChipsKept'
<1>1. PICK saves : saves = <<[user |-> u, doc |-> doc]>>
  OBVIOUS
<1>2. /\ Saves(h, saves, undo, notes, mints) /\ economy' = [economy EXCEPT ![work[h].want[1]] = h]
      /\ cache' = [cache EXCEPT ![saves[1].user] = saves[1].doc]
  BY <1>1 DEF Saves
<1>3. u \in Users /\ economy'[u] = h
  BY <1>2, LocksTaken
<1>4. cache \in [Users -> Doc]
  BY InvParts
<1>5. saves \in Seq(OwnSave) /\ saves # <<>> /\ undo \in Seq(OwnSave)
  <2>1. saves \in Seq(OwnSave) /\ saves # <<>>
    BY <1>1, <1>3, OneSave
  <2>2. <<[user |-> u, doc |-> cache[u]]>> \in Seq(OwnSave)
    BY <1>3, CachedSound, OneSave
  <2>3. undo \in Seq(OwnSave)
    <3>1. <<>> \in Seq(OwnSave)
      OBVIOUS
    <3> QED
      BY <2>2, <3>1, Zenon
  <2> QED
    BY <2>1, <2>3
<1>6. Len(saves) = 1 /\ saves[1] = [user |-> u, doc |-> doc]
  BY <1>1
<1>7. cache'[u] = doc
  BY <1>2, <1>3, <1>4, <1>6
<1>8. Worth(doc) \in Int /\ Worth(cache[u]) \in Int
  BY <1>3, <1>4, WorthTyped DEF SoundDoc
<1>9. LockedSaves(economy', h, saves) /\ UndoesAll(saves, undo)
  BY <1>3, <1>6 DEF LockedSaves, UndoesAll
<1>10. Change(cache, saves[1]) = mints /\ Later(cache', saves) = 0
  BY <1>6, <1>8 DEF Change, Later
<1>11. /\ IF undo = <<>> THEN mints = 0 ELSE LockedSaves(economy', h, undo)
       /\ Change(cache, saves[1]) + PutBack(cache', undo) <= 0
  <2>1. CASE undo = <<>> /\ mints = 0
    BY <1>10, <2>1 DEF PutBack
  <2>2. CASE undo = <<[user |-> u, doc |-> cache[u]]>>
    <3>1. undo # <<>> /\ Len(undo) = 1 /\ undo[1] = [user |-> u, doc |-> cache[u]]
      BY <2>2
    <3>2. PutBack(cache', undo) = Worth(cache[u]) - Worth(doc)
      BY <1>7, <1>8, <3>1 DEF PutBack, Change, Later
    <3> QED
      BY <1>3, <1>8, <1>10, <3>1, <3>2 DEF LockedSaves
  <2> QED
    BY <2>1, <2>2
<1>12. Change(cache, saves[1]) + Later(cache', saves) <= mints
  BY <1>10
<1> QED
  BY <1>2, <1>5, <1>9, <1>11, <1>12, SavesChips

-----------------------------------------------------------------------------
(* What the commands do to the worth of a document. *)

LEMMA RobbedWorth ==
    ASSUME NEW doc \in Doc, NEW r \in RobberyOf
    PROVE  Worth(Robbed(doc, r)) = Worth(doc) - (r.normal + r.bonus)
<1>1. PICK b, c, t : b = doc.bonus - r.bonus /\ c = doc.chips - r.normal
                     /\ t = Kept(Append(doc.robberies, r))
  OBVIOUS
<1>2. Robbed(doc, r) = [doc EXCEPT !.bonus = b, !.chips = c, !.robberies = t]
  BY <1>1 DEF Robbed
<1>3. Robbed(doc, r).chips = c /\ Robbed(doc, r).bonus = b
  BY <1>2 DEF Doc
<1>4. doc.chips \in Int /\ doc.bonus \in Int /\ r.normal \in Int /\ r.bonus \in Int
  BY DEF Doc, RobberyOf
<1> QED
  BY <1>1, <1>3, <1>4 DEF Worth

LEMMA CreditedWorth ==
    ASSUME NEW doc \in Doc, NEW n \in Int
    PROVE  /\ Worth([doc EXCEPT !.chips = @ + n]) = Worth(doc) + n
           /\ Worth(Charged(doc, n)) = Worth(doc) - n
<1>1. PICK c, d : c = doc.chips + n /\ d = doc.chips - n
  OBVIOUS
<1>2. [doc EXCEPT !.chips = @ + n] = [doc EXCEPT !.chips = c] /\ Charged(doc, n) = [doc EXCEPT !.chips = d]
  BY <1>1 DEF Charged
<1>3. \A e : [doc EXCEPT !.chips = e].chips = e /\ [doc EXCEPT !.chips = e].bonus = doc.bonus
  BY DEF Doc
<1>4. doc.chips \in Int /\ doc.bonus \in Int
  BY DEF Doc
<1> QED
  BY <1>1, <1>2, <1>3, <1>4 DEF Worth

LEMMA FatedWorth ==
    ASSUME NEW doc \in Doc, NEW fate PROVE Worth([doc EXCEPT !.fate = fate]) = Worth(doc)
<1>1. [doc EXCEPT !.fate = fate].chips = doc.chips /\ [doc EXCEPT !.fate = fate].bonus = doc.bonus
  BY DEF Doc
<1> QED
  BY <1>1 DEF Worth

LEMMA ZeroToOneWorth ==
    ASSUME NEW u \in Users, NEW doc, SoundDoc(u, doc), NEW id \in Ids, NEW n \in Nat
    PROVE  Worth([Marked(doc, id) EXCEPT !.chips = @ + n, !.cutoff = id]) = Worth(doc) + n
<1>1. PICK marked : marked = Marked(doc, id)
  OBVIOUS
<1>2. marked \in Doc /\ marked.chips = doc.chips /\ marked.bonus = doc.bonus
  BY <1>1, MarkedSound DEF SoundDoc
<1>3. PICK c : c = marked.chips + n
  OBVIOUS
<1>4. [marked EXCEPT !.chips = c, !.cutoff = id].chips = c
      /\ [marked EXCEPT !.chips = c, !.cutoff = id].bonus = marked.bonus
  BY <1>2 DEF Doc
<1>5. marked.chips \in Int /\ marked.bonus \in Int
  BY <1>2 DEF Doc
<1> QED
  BY <1>1, <1>2, <1>3, <1>4, <1>5 DEF Worth

\* A row of the history is not worth anything.
LEMMA NotedWorth ==
    ASSUME NEW doc \in Doc, NEW row PROVE Worth(Noted(doc, row)) = Worth(doc)
<1>1. PICK s : s = Append(doc.rows, row)
  OBVIOUS
<1>2. [doc EXCEPT !.rows = s].chips = doc.chips /\ [doc EXCEPT !.rows = s].bonus = doc.bonus
  BY DEF Doc
<1> QED
  BY <1>1, <1>2 DEF Worth, Noted

-----------------------------------------------------------------------------
(* The commands save. *)

LEMMA RobsChips ==
    ASSUME Inv, Inv', ChipsKept, NEW h \in Handlers, Robs(h)
    PROVE  ChipsKept'
<1>1. PICK w, old, thief : w = work[h] /\ old = cache[w.other] /\ thief = cache[w.user]
  OBVIOUS
<1>2. PICK bonus : bonus = BonusTaken(old, w.amount)
  OBVIOUS
<1>3. PICK r : r = [id |-> w.id, thief |-> w.user, normal |-> w.amount - bonus,
                    bonus |-> bonus, resolved |-> FALSE]
  OBVIOUS
<1>4. PICK doc, richer : doc = Robbed(old, r) /\ richer = [thief EXCEPT !.chips = @ + w.amount]
  OBVIOUS
<1>5. LastLock(h) /\ w.at = "locking" /\ w.kind = "rob"
  BY <1>1 DEF Robs, LastLock
<1>6. \/ Ends(h) /\ UNCHANGED <<cache, minted, failures>>
      \/ Saves(h, Pair(w.other, doc, w.user, richer), Pair(w.other, old, w.user, thief),
               <<[user |-> w.other, row |-> r], [user |-> w.user, row |-> NoRobbery]>>, 0)
  BY <1>1, <1>2, <1>3, <1>4 DEF Robs
<1>7. /\ w \in Work /\ w.user \in Users /\ w.other \in Users /\ w.user # w.other
      /\ w.id \in Ids
  BY <1>1, <1>5, WaitingCommand
<1>8. w.amount \in Nat
  BY <1>7 DEF Work
<1>9. SoundDoc(w.other, old) /\ SoundDoc(w.user, thief) /\ old \in Doc /\ thief \in Doc
  BY <1>1, <1>7, CachedSound
<1>10. bonus \in Nat /\ bonus <= old.bonus /\ bonus <= w.amount
  <2>1. old.bonus \in Nat
    BY <1>9 DEF Doc
  <2> QED
    BY <1>2, <1>8, <2>1, MinOfTwo DEF BonusTaken
<1>11. r \in RobberyOf /\ r.thief # w.other /\ r.bonus <= old.bonus /\ r.normal + r.bonus = w.amount
  <2>1. w.amount - bonus \in Nat /\ (w.amount - bonus) + bonus = w.amount
    BY <1>8, <1>10
  <2> QED
    BY <1>3, <1>7, <1>10, <2>1 DEF RobberyOf
<1>12. SoundDoc(w.other, doc) /\ Worth(doc) = Worth(old) - w.amount
  BY <1>4, <1>7, <1>9, <1>11, RobbedSound, RobbedWorth
<1>13. SoundDoc(w.user, richer) /\ Worth(richer) = Worth(thief) + w.amount
  <2>1. w.amount \in Int
    BY <1>8
  <2> QED
    BY <1>4, <1>9, <2>1, CreditedSound, CreditedWorth
<1>14. Worth(doc) + Worth(richer) = Worth(old) + Worth(thief) + 0
  <2>1. Worth(old) \in Int /\ Worth(thief) \in Int
    BY <1>9, WorthTyped
  <2> QED
    BY <1>8, <1>12, <1>13, <2>1
<1>15. CASE Ends(h) /\ UNCHANGED <<cache, minted, failures>>
  BY <1>1, <1>5, <1>15, GivesUpChips
<1>16. ASSUME NEW notes,
              Saves(h, Pair(w.other, doc, w.user, richer), Pair(w.other, old, w.user, thief), notes, 0)
       PROVE  ChipsKept'
  <2>1. {w.other, w.user} = {work[h].user, work[h].other} /\ work[h].kind # "golden" /\ 0 \in Int
    BY <1>1, <1>5
  <2>2. PICK a, b : a = w.other /\ b = w.user
    OBVIOUS
  <2>3. /\ {a, b} = {work[h].user, work[h].other} /\ old = cache[a] /\ thief = cache[b]
        /\ SoundDoc(a, doc) /\ SoundDoc(b, richer)
        /\ Saves(h, Pair(a, doc, b, richer), Pair(a, cache[a], b, cache[b]), notes, 0)
    BY <1>1, <1>12, <1>13, <1>16, <2>1, <2>2
  <2>4. PICK mints \in Int : mints = 0
    OBVIOUS
  <2>5. /\ Worth(doc) + Worth(richer) = Worth(cache[a]) + Worth(cache[b]) + mints
        /\ Saves(h, Pair(a, doc, b, richer), Pair(a, cache[a], b, cache[b]), notes, mints)
        /\ LastLock(h)
    BY <1>5, <1>14, <2>3, <2>4
  <2> QED
    BY <2>1, <2>3, <2>5, PairChips, Zenon
<1> QED
  BY <1>6, <1>15, <1>16

LEMMA ZeroToOneChips ==
    ASSUME Inv, Inv', ChipsKept, NEW h \in Handlers, ZeroToOne(h)
    PROVE  ChipsKept'
<1>1. PICK w, old, thief : w = work[h] /\ old = cache[w.user] /\ thief = cache[w.other]
  OBVIOUS
<1>2. PICK r : r = Entry(old)
  OBVIOUS
<1>3. PICK n : n = Min({Limit, r.normal + r.bonus})
  OBVIOUS
<1>4. PICK doc, poorer : /\ doc = [Marked(old, r.id) EXCEPT !.chips = @ + n, !.cutoff = r.id]
                         /\ poorer = Charged(thief, n)
  OBVIOUS
<1>5. LastLock(h) /\ w.at = "locking" /\ w.kind = "0to1"
  BY <1>1 DEF ZeroToOne, LastLock
<1>6. \/ r = NoRobbery /\ Ends(h) /\ UNCHANGED <<cache, minted, failures>>
      \/ r # NoRobbery /\ \E notes : Saves(h, Pair(w.user, doc, w.other, poorer),
                                           Pair(w.user, old, w.other, thief), notes, 0)
      \/ r # NoRobbery /\ \E notes : Saves(h, <<[user |-> w.user, doc |-> doc]>>,
                                           <<[user |-> w.user, doc |-> old]>>, notes, n)
  BY <1>1, <1>2, <1>3, <1>4 DEF ZeroToOne
<1>7. w.user \in Users /\ w.other \in Users
  BY <1>1, <1>5, WaitingCommand
<1>8. SoundDoc(w.user, old) /\ SoundDoc(w.other, thief) /\ old \in Doc /\ thief \in Doc
  BY <1>1, <1>7, CachedSound
<1>9. CASE r = NoRobbery
  BY <1>1, <1>5, <1>6, <1>9, GivesUpChips
<1>10. CASE r # NoRobbery
  <2>1. r \in RobberyOf
    BY <1>2, <1>8, <1>10, EntryNamesAnother
  <2>2. r.id \in Ids /\ n \in Nat /\ n \in Int
    <3>1. r.normal + r.bonus \in Nat /\ Limit \in Nat /\ r.id \in Ids
      BY <2>1, ChipsAssumption DEF RobberyOf
    <3> QED
      BY <1>3, <3>1, MinOfTwo
  <2>3. SoundDoc(w.user, doc) /\ Worth(doc) = Worth(old) + n
    BY <1>4, <1>7, <1>8, <2>2, ZeroToOneSound, ZeroToOneWorth
  <2>4. SoundDoc(w.other, poorer) /\ Worth(poorer) = Worth(thief) - n
    BY <1>4, <1>8, <2>2, CreditedSound, CreditedWorth
  <2>5. Worth(doc) + Worth(poorer) = Worth(old) + Worth(thief) + 0
    <3>1. Worth(old) \in Int /\ Worth(thief) \in Int
      BY <1>8, WorthTyped
    <3> QED
      BY <2>2, <2>3, <2>4, <3>1
  <2>6. work[h].kind # "golden" /\ 0 \in Int
    BY <1>1, <1>5
  <2>7. ASSUME NEW notes, Saves(h, Pair(w.user, doc, w.other, poorer), Pair(w.user, old, w.other, thief),
                                notes, 0)
        PROVE  ChipsKept'
    BY <1>1, <1>5, <2>3, <2>4, <2>5, <2>6, <2>7, PairChips
  <2>8. ASSUME NEW notes, Saves(h, <<[user |-> w.user, doc |-> doc]>>, <<[user |-> w.user, doc |-> old]>>,
                                notes, n)
        PROVE  ChipsKept'
    <3>1. PICK undo : undo = <<[user |-> w.user, doc |-> old]>>
      OBVIOUS
    <3> QED
      BY <1>1, <1>5, <2>2, <2>3, <2>8, <3>1, OneChips
  <2> QED
    BY <1>6, <1>10, <2>7, <2>8
<1> QED
  BY <1>9, <1>10

LEMMA ChangeFateChips ==
    ASSUME Inv, Inv', ChipsKept, NEW h \in Handlers, ChangeFate(h)
    PROVE  ChipsKept'
<1>1. PICK w, old, thief : w = work[h] /\ old = cache[w.user] /\ thief = cache[w.other]
  OBVIOUS
<1>2. LastLock(h) /\ w.at = "locking" /\ w.kind = "fate"
  BY <1>1 DEF ChangeFate, LastLock
<1>3. w.user \in Users /\ w.other \in Users
  BY <1>1, <1>2, WaitingCommand
<1>4. /\ SoundDoc(w.user, old) /\ old \in Doc /\ SoundDoc(w.other, thief) /\ thief \in Doc
      /\ day \in 0..MaxDay /\ -Fine \in Int /\ Fine \in Nat
  BY <1>1, <1>3, CachedSound, ChipsAssumption DEF Inv, CountersTyped
<1>5. \/ Ends(h) /\ UNCHANGED <<cache, minted, failures>>
      \/ \E r \in ToSet(old.robberies) : \E notes :
            Saves(h, Pair(w.user, [Marked(old, r.id) EXCEPT !.chips = @ + r.normal, !.bonus = @ + r.bonus,
                                          !.cutoff = CutoffAfter(old, r.id), !.fate = day],
                          w.other, Charged(thief, r.normal + r.bonus + Fine)),
                  Pair(w.user, old, w.other, thief), notes, -Fine)
  BY <1>1 DEF ChangeFate
<1>6. CASE Ends(h) /\ UNCHANGED <<cache, minted, failures>>
  BY <1>1, <1>2, <1>6, GivesUpChips
<1>7. ASSUME NEW r \in ToSet(old.robberies), NEW notes,
             Saves(h, Pair(w.user, [Marked(old, r.id) EXCEPT !.chips = @ + r.normal, !.bonus = @ + r.bonus,
                                           !.cutoff = CutoffAfter(old, r.id), !.fate = day],
                           w.other, Charged(thief, r.normal + r.bonus + Fine)),
                   Pair(w.user, old, w.other, thief), notes, -Fine)
      PROVE  ChipsKept'
  <2>1. r \in RobberyOf
    <3>1. old.robberies \in Seq(RobberyOf)
      BY <1>4 DEF Doc
    <3> QED
      BY <3>1 DEF ToSet
  <2>2. r.id \in Ids /\ r.normal \in Nat /\ r.bonus \in Nat
    BY <2>1 DEF RobberyOf
  <2>3. PICK doc, poorer :
            /\ doc = [Marked(old, r.id) EXCEPT !.chips = @ + r.normal, !.bonus = @ + r.bonus,
                             !.cutoff = CutoffAfter(old, r.id), !.fate = day]
            /\ poorer = Charged(thief, r.normal + r.bonus + Fine)
    OBVIOUS
  <2>4. SoundDoc(w.user, doc) /\ Worth(doc) = Worth(old) + (r.normal + r.bonus)
    <3>1. PICK marked, cutoff : marked = Marked(old, r.id) /\ cutoff = CutoffAfter(old, r.id)
      OBVIOUS
    <3>2. marked \in Doc /\ marked.chips = old.chips /\ marked.bonus = old.bonus
      BY <1>3, <1>4, <2>2, <3>1, MarkedSound DEF SoundDoc
    <3>3. PICK c, b : c = marked.chips + r.normal /\ b = marked.bonus + r.bonus
      OBVIOUS
    <3>4. doc = [marked EXCEPT !.chips = c, !.bonus = b, !.cutoff = cutoff, !.fate = day]
      BY <2>3, <3>1, <3>3
    <3>5. doc.chips = c /\ doc.bonus = b
      BY <3>2, <3>4 DEF Doc
    <3>6. Worth(doc) = Worth(old) + (r.normal + r.bonus)
      <4>1. old.chips \in Int /\ old.bonus \in Int /\ r.normal \in Int /\ r.bonus \in Int
        BY <1>4, <2>2 DEF Doc
      <4>2. doc.chips + doc.bonus = (old.chips + old.bonus) + (r.normal + r.bonus)
        BY <3>2, <3>3, <3>5, <4>1
      <4> QED
        BY <4>2 DEF Worth
    <3>7. SoundDoc(w.user, doc)
      BY <1>3, <1>4, <2>2, <2>3, ChangeFateSound
    <3> QED
      BY <3>6, <3>7
  <2>5. SoundDoc(w.other, poorer) /\ Worth(poorer) = Worth(thief) - (r.normal + r.bonus + Fine)
    <3>1. r.normal + r.bonus + Fine \in Int
      BY <1>4, <2>2
    <3> QED
      BY <1>4, <2>3, <3>1, CreditedSound, CreditedWorth
  <2>6. Worth(doc) + Worth(poorer) = Worth(old) + Worth(thief) + (-Fine)
    <3>1. Worth(old) \in Int /\ Worth(thief) \in Int
      BY <1>4, WorthTyped
    <3> QED
      BY <1>4, <2>2, <2>4, <2>5, <3>1
  <2>7. Saves(h, Pair(w.user, doc, w.other, poorer), Pair(w.user, old, w.other, thief), notes, -Fine)
    BY <1>7, <2>3
  <2>8. work[h].kind # "golden"
    BY <1>1, <1>2
  <2> QED
    BY <1>1, <1>2, <1>4, <2>4, <2>5, <2>6, <2>7, <2>8, PairChips
<1> QED
  BY <1>5, <1>6, <1>7

LEMMA GoldenChips ==
    ASSUME Inv, Inv', ChipsKept, NEW h \in Handlers, Golden(h)
    PROVE  ChipsKept'
<1>1. PICK u : u = work[h].user
  OBVIOUS
<1>2. PICK doc, none : doc = [cache[u] EXCEPT !.fate = day] /\ none = <<>>
  OBVIOUS
<1>3. LastLock(h) /\ work[h].at = "locking"
  BY DEF Golden, LastLock
<1>4. \/ Ends(h) /\ UNCHANGED <<cache, minted, failures>>
      \/ Saves(h, <<[user |-> u, doc |-> doc]>>, none, none, 0)
  BY <1>1, <1>2 DEF Golden
<1>5. u \in Users
  BY <1>1, <1>3, WaitingCommand
<1>6. SoundDoc(u, cache[u]) /\ cache[u] \in Doc /\ day \in 0..MaxDay
  BY <1>5, CachedSound DEF Inv, CountersTyped
<1>7. SoundDoc(u, doc) /\ Worth(doc) = Worth(cache[u]) + 0
  <2>1. SoundDoc(u, doc) /\ Worth(doc) = Worth(cache[u]) /\ Worth(cache[u]) \in Int
    BY <1>2, <1>6, FatedSound, FatedWorth, WorthTyped
  <2> QED
    BY <2>1
<1>8. CASE Ends(h) /\ UNCHANGED <<cache, minted, failures>>
  BY <1>3, <1>8, GivesUpChips
<1>9. CASE Saves(h, <<[user |-> u, doc |-> doc]>>, none, none, 0)
  <2>1. none = <<>> /\ 0 \in Int
    BY <1>2
  <2> QED
    BY <1>1, <1>3, <1>7, <1>9, <2>1, OneChips
<1> QED
  BY <1>4, <1>8, <1>9

-----------------------------------------------------------------------------
(* Saves land or raise. *)

LEMMA TwoSaves ==
    ASSUME NEW saves \in Seq(OwnSave), Len(saves) = 2, NEW locks, NEW h, LockedSaves(locks, h, saves)
    PROVE  /\ saves[1] \in OwnSave /\ saves[2] \in OwnSave
           /\ locks[saves[1].user] = h /\ locks[saves[2].user] = h /\ saves[1].user # saves[2].user
           /\ Len(Tail(saves)) = 1 /\ Tail(saves)[1] = saves[2]
<1>1. 1 \in 1..Len(saves) /\ 2 \in 1..Len(saves)
  OBVIOUS
<1>2. saves[1] \in OwnSave /\ saves[2] \in OwnSave
  BY <1>1
<1>3. Len(Tail(saves)) = 1 /\ Tail(saves)[1] = saves[2]
  OBVIOUS
<1> QED
  BY <1>1, <1>2, <1>3 DEF LockedSaves

LEMMA NotesNextChips ==
    ASSUME Inv, Inv', ChipsKept, NEW h \in Handlers, NEW notes \in Seq(OwnNote), NotesNext(h, notes),
           failures <= failures', \A u \in Users : economy[u] \in Handlers \ {h} => economy'[u] = economy[u],
           minted <= minted' + Ahead(cache, work[h])
    PROVE  ChipsKept'
<1>1. /\ cache \in [Users -> Doc] /\ Total(cache) \in Int /\ minted \in Int /\ minted' \in Int
      /\ Ahead(cache, work[h]) \in Int
  BY InvParts, InvLater
<1>2. PICK w : /\ work' = [work EXCEPT ![h] = w]
               /\ w = NoWork \/ (w.at = "noting" /\ Len(w.saves) = 1 /\ w.minted = 0)
               /\ Total(cache') = Total(cache) /\ \A v \in Users : Worth(cache'[v]) = Worth(cache[v])
  <2>1. CASE notes = <<>>
    BY <2>1 DEF NotesNext
  <2>2. CASE notes # <<>>
    <3>1. PICK n, later : n = notes[1] /\ later = Tail(notes)
      OBVIOUS
    <3>2. PICK doc : doc = Noted(cache[n.user], n.row)
      OBVIOUS
    <3>3. PICK w : w = Noting(work[h].kind, n.user, doc, later)
      OBVIOUS
    <3>4. cache' = [cache EXCEPT ![n.user] = doc] /\ work' = [work EXCEPT ![h] = w]
      BY <2>2, <3>1, <3>2, <3>3 DEF NotesNext
    <3>5. n \in OwnNote
      BY <2>2, <3>1
    <3>6. n.user \in Users
      BY <3>5 DEF OwnNote, NoteOf
    <3>7. SoundDoc(n.user, cache[n.user]) /\ cache[n.user] \in Doc
      BY <3>6, CachedSound
    <3>8. doc \in Doc /\ Worth(doc) = Worth(cache[n.user]) /\ Worth(doc) \in Int
      BY <3>2, <3>5, <3>7, NotedSound, NotedWorth, WorthTyped DEF SoundDoc
    <3>9. Total(cache') = Total(cache)
      <4>1. Total(cache') = Total(cache) + Worth(doc) - Worth(cache[n.user])
        BY <1>1, <3>4, <3>6, <3>8, WealthChanges
      <4> QED
        BY <1>1, <3>8, <4>1
    <3>10. \A v \in Users : Worth(cache'[v]) = Worth(cache[v])
      BY <1>1, <3>4, <3>8
    <3>11. w.at = "noting" /\ Len(w.saves) = 1 /\ w.minted = 0
      BY <3>3, NotingOne
    <3> QED
      BY <3>4, <3>9, <3>10, <3>11
  <2> QED
    BY <2>1, <2>2
<1>3. work'[h] = w /\ \A g \in Handlers \ {h} : work'[g] = work[g]
  BY <1>2, OthersRest
<1>4. OthersUnhurt(h)
  <2>1. \A v \in Users : Worth(cache[v]) \in Int
    BY <1>1, WorthTyped
  <2> QED
    BY <1>2, <1>3, <2>1 DEF OthersUnhurt
<1>5. UnderLocks(economy', h, work'[h], failures') /\ Ahead(cache', work'[h]) = 0
  BY <1>2, <1>3 DEF NoWork, UnderLocks, Ahead
<1>6. Total(cache') - minted' + Ahead(cache', work'[h]) <= Total(cache) - minted + Ahead(cache, work[h])
  BY <1>1, <1>2, <1>5
<1> QED
  BY <1>4, <1>5, <1>6, ChipsStep

\* A command puts another document of a user whose wallet it holds into the cache.
LEMMA OwnSaveHurtsNobody ==
    ASSUME Inv, NEW h \in Handlers, NEW s \in OwnSave, economy[s.user] = h,
           cache' = [cache EXCEPT ![s.user] = s.doc], NEW w, work' = [work EXCEPT ![h] = w],
           UNCHANGED economy, failures <= failures'
    PROVE  OthersUnhurt(h) /\ work'[h] = w /\ Total(cache') = Total(cache) + Change(cache, s)
<1>1. cache \in [Users -> Doc] /\ Total(cache) \in Int
  BY InvParts
<1>2. /\ s.user \in Users /\ s.doc \in Doc /\ Worth(s.doc) \in Int /\ Worth(cache[s.user]) \in Int
  BY <1>1, ChangeTyped
<1>3. work'[h] = w /\ \A g \in Handlers \ {h} : work'[g] = work[g]
  BY OthersRest
<1>4. \A v \in Users : economy[v] # h => cache'[v] = cache[v]
  BY <1>1
<1>5. \A v \in Users : Worth(cache[v]) \in Int
  BY <1>1, WorthTyped
<1>6. OthersUnhurt(h)
  BY <1>3, <1>4, <1>5 DEF OthersUnhurt
<1>7. Total(cache') = Total(cache) + Worth(s.doc) - Worth(cache[s.user])
  BY <1>1, <1>2, WealthChanges
<1>8. Total(cache') = Total(cache) + Change(cache, s)
  BY <1>1, <1>2, <1>7 DEF Change
<1> QED
  BY <1>3, <1>6, <1>8

\* The second save begins: what it adds is no longer ahead.
LEMMA GoesChips ==
    ASSUME Inv, Inv', ChipsKept, NEW h \in Handlers, work[h].at \in {"saving", "undoing", "noting"},
           Len(work[h].saves) > 1, Goes(h, Tail(work[h].saves)), UNCHANGED failures
    PROVE  ChipsKept'
<1>1. PICK w, saves, undo : w = work[h] /\ saves = work[h].saves /\ undo = work[h].undo
  OBVIOUS
<1>2. PICK rest : rest = Tail(saves)
  OBVIOUS
<1>3. PICK next : next = [w EXCEPT !.saves = rest]
  OBVIOUS
<1>4. /\ cache' = [cache EXCEPT ![rest[1].user] = rest[1].doc] /\ work' = [work EXCEPT ![h] = next]
      /\ UNCHANGED <<economy, minted>>
  BY <1>1, <1>2, <1>3 DEF Goes
<1>5. /\ w \in Work /\ saves \in Seq(OwnSave) /\ undo \in Seq(OwnSave) /\ w.minted \in Int
      /\ cache \in [Users -> Doc] /\ Total(cache) \in Int /\ minted \in Int /\ failures \in Nat
  BY <1>1, InvParts, SoundCarries DEF Carrying
<1>6. UnderLocks(economy, h, w, failures)
  BY <1>1 DEF ChipsKept
<1>7. w.at \in {"saving", "undoing"} /\ LockedSaves(economy, h, saves) /\ Len(saves) = 2
  <2>1. Len(saves) > 1 /\ w.at \in {"saving", "undoing", "noting"}
    BY <1>1
  <2>2. w.saves = saves /\ (w.at = "noting" => Len(saves) = 1)
    BY <1>1, <1>6 DEF UnderLocks
  <2>3. w.at \in {"saving", "undoing"}
    <3>1. w.at # "noting"
      <4> SUFFICES ASSUME w.at = "noting" PROVE FALSE
        OBVIOUS
      <4>1. Len(saves) = 1 /\ Len(saves) > 1
        BY <2>1, <2>2
      <4> QED
        BY <4>1
    <3> QED
      BY <2>1, <3>1
  <2>4. LockedSaves(economy, h, saves)
    BY <1>6, <2>2, <2>3 DEF UnderLocks
  <2> QED
    BY <2>1, <2>3, <2>4 DEF LockedSaves
<1>8. PICK s, t : s = saves[1] /\ t = saves[2]
  OBVIOUS
<1>9. s \in OwnSave /\ t \in OwnSave /\ economy[s.user] = h /\ economy[t.user] = h /\ s.user # t.user
  BY <1>5, <1>7, <1>8, TwoSaves
<1>10. Len(rest) = 1 /\ rest[1] = t
  BY <1>2, <1>5, <1>7, <1>8, TwoSaves
<1>11. next.at = w.at /\ next.saves = rest /\ next.undo = undo /\ next.minted = w.minted
  BY <1>1, <1>3, <1>5 DEF Work
<1>12. OthersUnhurt(h) /\ work'[h] = next /\ Total(cache') = Total(cache) + Change(cache, t)
  <2>1. failures <= failures'
    BY <1>5
  <2>2. cache' = [cache EXCEPT ![t.user] = t.doc]
    BY <1>4, <1>10
  <2> QED
    BY <1>4, <1>9, <2>1, <2>2, OwnSaveHurtsNobody
<1>13. Later(cache, saves) = Change(cache, t) /\ Later(cache', rest) = 0 /\ Change(cache, t) \in Int
  BY <1>5, <1>7, <1>8, <1>9, <1>10, ChangeTyped DEF Later
<1>14. LockedSaves(economy, h, rest)
  <2>1. \A i \in 1..Len(rest) : i = 1
    BY <1>10
  <2> QED
    BY <1>9, <1>10, <2>1 DEF LockedSaves
<1>15. CASE w.at = "undoing"
  <2>1. Ahead(cache, work[h]) = Change(cache, t) /\ Ahead(cache', work'[h]) = 0
    BY <1>1, <1>11, <1>12, <1>13, <1>15 DEF Ahead
  <2>2. UnderLocks(economy', h, work'[h], failures')
    BY <1>4, <1>6, <1>11, <1>12, <1>14, <1>15 DEF UnderLocks
  <2>3. Total(cache') - minted' + Ahead(cache', work'[h]) <= Total(cache) - minted + Ahead(cache, work[h])
    BY <1>4, <1>5, <1>12, <1>13, <2>1
  <2> QED
    BY <1>12, <2>2, <2>3, ChipsStep
<1>16. CASE w.at = "saving"
  <2>1. /\ Len(undo) = 2 /\ undo[1].user = s.user /\ undo[2].user = t.user /\ undo # <<>>
        /\ LockedSaves(economy, h, undo)
    BY <1>1, <1>6, <1>7, <1>8, <1>16 DEF UnderLocks, UndoesAll
  <2>2. PICK a, b : a = undo[1] /\ b = undo[2]
    OBVIOUS
  <2>3. a \in OwnSave /\ b \in OwnSave
    BY <1>5, <2>1, <2>2, TwoSaves
  <2>4. /\ s.user \in Users /\ t.user \in Users /\ t.doc \in Doc
        /\ Worth(t.doc) \in Int /\ Worth(a.doc) \in Int /\ Worth(b.doc) \in Int
        /\ Worth(cache[s.user]) \in Int /\ Worth(cache[t.user]) \in Int
    BY <1>5, <1>9, <2>3, ChangeTyped
  <2>5. cache'[s.user] = cache[s.user] /\ cache'[t.user] = t.doc
    BY <1>4, <1>5, <1>9, <1>10, <2>4
  <2>6. /\ PutBack(cache, undo) = (Worth(a.doc) - Worth(cache[s.user])) + (Worth(b.doc) - Worth(cache[t.user]))
        /\ PutBack(cache', undo) = (Worth(a.doc) - Worth(cache[s.user])) + (Worth(b.doc) - Worth(t.doc))
    BY <2>1, <2>2, <2>5 DEF PutBack, Later, Change
  <2>7. /\ Onward(cache, w) = Change(cache, t) - w.minted /\ Onward(cache', next) = 0 - w.minted
        /\ Change(cache, t) = Worth(t.doc) - Worth(cache[t.user])
    BY <1>1, <1>11, <1>13 DEF Onward, Change
  <2>8. Ahead(cache', next) = Ahead(cache, w) - Change(cache, t)
    <3>1. PICK p, q, x, m : /\ p = PutBack(cache, undo) /\ q = PutBack(cache', undo)
                            /\ x = Change(cache, t) /\ m = w.minted
      OBVIOUS
    <3>2. PICK i, j, k, l, o : /\ i = Worth(a.doc) /\ j = Worth(cache[s.user]) /\ k = Worth(b.doc)
                               /\ l = Worth(cache[t.user]) /\ o = Worth(t.doc)
      OBVIOUS
    <3>3. /\ i \in Int /\ j \in Int /\ k \in Int /\ l \in Int /\ o \in Int /\ m \in Int
          /\ p = (i - j) + (k - l) /\ q = (i - j) + (k - o) /\ x = o - l
      BY <1>5, <2>4, <2>6, <2>7, <3>1, <3>2
    <3>4. p \in Int /\ q = p - x /\ x \in Int /\ m \in Int
      BY <3>3
    <3>5. /\ Ahead(cache, w) = IF x - m >= p THEN x - m ELSE p
          /\ Ahead(cache', next) = IF 0 - m >= q THEN 0 - m ELSE q
      BY <1>1, <1>11, <1>16, <2>7, <3>1 DEF Ahead
    <3> QED
      BY <3>1, <3>4, <3>5
  <2>9. Ahead(cache, w) \in Int
    BY <1>1, InvParts
  <2>10. UnderLocks(economy', h, work'[h], failures')
    <3>1. UndoesAll(rest, undo)
      BY <1>10 DEF UndoesAll
    <3> QED
      BY <1>4, <1>11, <1>12, <1>14, <1>16, <2>1, <3>1 DEF UnderLocks
  <2>11. Total(cache') - minted' + Ahead(cache', work'[h]) <= Total(cache) - minted + Ahead(cache, work[h])
    BY <1>1, <1>4, <1>5, <1>12, <1>13, <2>8, <2>9
  <2> QED
    BY <1>12, <2>10, <2>11, ChipsStep
<1> QED
  BY <1>7, <1>15, <1>16

LEMMA SaveLandsChips ==
    ASSUME Inv, Inv', ChipsKept, NEW h \in Handlers, SaveLands(h)
    PROVE  ChipsKept'
<1>1. PICK w : w = work[h]
  OBVIOUS
<1>2. /\ w.at \in {"saving", "undoing", "noting"} /\ UNCHANGED failures
      /\ \/ Len(w.saves) > 1 /\ Goes(h, Tail(w.saves))
         \/ /\ Len(w.saves) = 1 /\ w.at # "undoing"
            /\ Releases(h) /\ minted' = minted + w.minted /\ NotesNext(h, w.notes)
         \/ /\ Len(w.saves) = 1 /\ w.at = "undoing"
            /\ Ends(h) /\ UNCHANGED <<cache, minted>>
  BY <1>1 DEF SaveLands
<1>3. /\ SoundWork(w) /\ w.undo \in Seq(OwnSave) /\ w.notes \in Seq(OwnNote) /\ w.minted \in Int
      /\ minted \in Int /\ cache \in [Users -> Doc] /\ UnderLocks(economy, h, w, failures)
      /\ failures <= failures'
  BY <1>1, <1>2, InvParts DEF SoundWork, Carrying, ChipsKept
<1>4. CASE Len(w.saves) > 1 /\ Goes(h, Tail(w.saves))
  BY <1>1, <1>2, <1>4, GoesChips
<1>5. CASE /\ Len(w.saves) = 1 /\ w.at # "undoing"
           /\ Releases(h) /\ minted' = minted + w.minted /\ NotesNext(h, w.notes)
  <2>1. \A u \in Users : economy[u] \in Handlers \ {h} => economy'[u] = economy[u]
    BY <1>5 DEF Releases, Freed
  <2>2. minted <= minted' + Ahead(cache, w)
    <3>1. CASE w.at = "noting"
      <4>1. w.minted = 0 /\ Ahead(cache, w) = 0
        BY <1>3, <3>1 DEF UnderLocks, Ahead
      <4> QED
        BY <1>3, <1>5, <4>1
    <3>2. CASE w.at = "saving"
      <4>1. Onward(cache, w) = 0 - w.minted
        BY <1>5 DEF Onward, Later
      <4>2. PutBack(cache, w.undo) \in Int
        BY <1>3, LaterTyped
      <4>3. Ahead(cache, w) \in Int /\ Ahead(cache, w) >= 0 - w.minted
        BY <1>3, <3>2, <4>1, <4>2 DEF Ahead
      <4> QED
        BY <1>3, <1>5, <4>3
    <3> QED
      BY <1>2, <1>5, <3>1, <3>2
  <2> QED
    BY <1>1, <1>3, <1>5, <2>1, <2>2, NotesNextChips
<1>6. CASE Len(w.saves) = 1 /\ w.at = "undoing" /\ Ends(h) /\ UNCHANGED <<cache, minted>>
  <2>1. Ahead(cache, w) = 0
    BY <1>6 DEF Ahead, Later
  <2> QED
    BY <1>1, <1>3, <1>6, <2>1, EndsChips
<1> QED
  BY <1>2, <1>4, <1>5, <1>6

\* The first save that raises: what the command has changed is put back.
LEMMA SaveFailsChips ==
    ASSUME Inv, Inv', ChipsKept, NEW h \in Handlers, SaveFails(h), failures' <= 1
    PROVE  ChipsKept'
<1>1. PICK w, undo : w = work[h] /\ undo = work[h].undo
  OBVIOUS
<1>2. /\ w.at \in {"saving", "undoing", "noting"} /\ failures' = failures + 1 /\ UNCHANGED minted
      /\ \/ /\ w.at = "saving" /\ undo # <<>>
            /\ cache' = [cache EXCEPT ![undo[1].user] = undo[1].doc]
            /\ work' = [work EXCEPT ![h].at = "undoing", ![h].saves = undo]
            /\ UNCHANGED economy
         \/ /\ w.at = "undoing" \/ w.at = "noting" \/ undo = <<>>
            /\ Ends(h) /\ UNCHANGED cache
         \/ /\ w.at = "noting"
            /\ NotesNext(h, w.notes) /\ UNCHANGED economy
  BY <1>1 DEF SaveFails, Undone
<1>3. /\ SoundWork(w) /\ w \in Work /\ undo \in Seq(OwnSave) /\ w.notes \in Seq(OwnNote) /\ w.minted \in Int
      /\ minted \in Int /\ cache \in [Users -> Doc] /\ Total(cache) \in Int
      /\ UnderLocks(economy, h, w, failures) /\ failures \in Nat /\ Ahead(cache, w) \in Int
  BY <1>1, InvParts, SoundCarries DEF SoundWork, Carrying, ChipsKept
<1>4. failures = 0 /\ failures <= failures' /\ failures' >= 1
  BY <1>2, <1>3
<1>5. w.at # "undoing"
  BY <1>3, <1>4 DEF UnderLocks
<1>6. CASE /\ w.at = "saving" /\ undo # <<>>
           /\ cache' = [cache EXCEPT ![undo[1].user] = undo[1].doc]
           /\ work' = [work EXCEPT ![h].at = "undoing", ![h].saves = undo]
           /\ UNCHANGED economy
  <2>1. PICK next : next = [w EXCEPT !.at = "undoing", !.saves = undo]
    OBVIOUS
  <2>2. work' = [work EXCEPT ![h] = next] /\ next.at = "undoing" /\ next.saves = undo
    BY <1>1, <1>3, <1>6, <2>1 DEF Work
  <2>3. LockedSaves(economy, h, undo)
    BY <1>1, <1>3, <1>6 DEF UnderLocks
  <2>4. PICK s : s = undo[1]
    OBVIOUS
  <2>5. s \in OwnSave /\ economy[s.user] = h
    <3>1. 1 \in 1..Len(undo)
      BY <1>3, <1>6
    <3> QED
      BY <1>3, <2>3, <2>4, <3>1 DEF LockedSaves
  <2>6. OthersUnhurt(h) /\ work'[h] = next /\ Total(cache') = Total(cache) + Change(cache, s)
    <3>1. cache' = [cache EXCEPT ![s.user] = s.doc] /\ UNCHANGED economy
      BY <1>6, <2>4
    <3> QED
      BY <1>4, <2>2, <2>5, <3>1, OwnSaveHurtsNobody
  <2>7. Later(cache', undo) = Later(cache, undo)
    <3>1. CASE Len(undo) = 2
      <4>1. undo[2] \in OwnSave /\ undo[2].user # s.user
        BY <1>3, <2>3, <2>4, <3>1, TwoSaves
      <4>2. undo[2].user \in Users
        BY <4>1 DEF OwnSave, SaveOf
      <4>3. cache'[undo[2].user] = cache[undo[2].user]
        BY <1>3, <1>6, <2>4, <4>1, <4>2
      <4> QED
        BY <3>1, <4>3 DEF Later, Change
    <3>2. CASE Len(undo) # 2
      BY <3>2 DEF Later
    <3> QED
      BY <3>1, <3>2
  <2>8. /\ PutBack(cache, undo) = Change(cache, s) + Later(cache, undo)
        /\ Change(cache, s) \in Int /\ Later(cache, undo) \in Int /\ PutBack(cache, undo) \in Int
    BY <1>3, <1>6, <2>4, <2>5, ChangeTyped, LaterTyped DEF PutBack
  <2>9. Ahead(cache, w) >= PutBack(cache, undo)
    <3>1. Onward(cache, w) \in Int
      BY <1>1, <1>3, LaterTyped DEF Onward, SoundWork
    <3> QED
      BY <1>1, <1>6, <2>8, <3>1 DEF Ahead
  <2>10. Ahead(cache', work'[h]) = Later(cache, undo)
    BY <2>2, <2>6, <2>7 DEF Ahead
  <2>11. UnderLocks(economy', h, work'[h], failures')
    BY <1>4, <1>6, <2>2, <2>3, <2>6 DEF UnderLocks
  <2>12. Total(cache') - minted' + Ahead(cache', work'[h]) <= Total(cache) - minted + Ahead(cache, work[h])
    BY <1>1, <1>2, <1>3, <2>6, <2>8, <2>9, <2>10
  <2> QED
    BY <2>6, <2>11, <2>12, ChipsStep
<1>7. CASE (w.at = "noting" \/ undo = <<>>) /\ Ends(h) /\ UNCHANGED cache
  <2>1. 0 <= Ahead(cache, w)
    <3>1. CASE w.at = "noting"
      BY <3>1 DEF Ahead
    <3>2. CASE w.at = "saving" /\ undo = <<>>
      <4>1. PutBack(cache, w.undo) = 0
        BY <1>1, <3>2 DEF PutBack
      <4>2. Onward(cache, w) \in Int
        BY <1>3, LaterTyped DEF Onward, SoundWork
      <4> QED
        BY <3>2, <4>1, <4>2 DEF Ahead
    <3> QED
      BY <1>2, <1>5, <1>7, <3>1, <3>2
  <2> QED
    BY <1>1, <1>2, <1>4, <1>7, <2>1, EndsChips
<1>8. CASE w.at = "noting" /\ NotesNext(h, w.notes) /\ UNCHANGED economy
  <2>1. Ahead(cache, w) = 0
    BY <1>8 DEF Ahead
  <2>2. minted <= minted' + Ahead(cache, work[h])
    BY <1>1, <1>2, <1>3, <2>1
  <2> QED
    BY <1>3, <1>4, <1>8, <2>2, NotesNextChips
<1> QED
  BY <1>2, <1>5, <1>6, <1>7, <1>8

-----------------------------------------------------------------------------
(* Every step. *)

\* Neither a save that raised nor a restart is forgotten.
LEMMA FaultsStay ==
    ASSUME Inv, [Next]_vars PROVE failures <= failures' /\ (crashed => crashed')
<1>1. failures \in Nat
  BY BoundsAssumption DEF Inv, CountersTyped
<1>2. CASE UNCHANGED vars
  BY <1>1, <1>2 DEF vars
<1>3. ASSUME NEW h \in Handlers, NEW u \in Users,
             \/ \E v \in Users, n \in Amounts : Rob(h, u, v, n)
             \/ AskZeroToOne(h, u) \/ AskChangeFate(h, u) \/ Claim(h, u)
      PROVE  UNCHANGED <<failures, crashed>>
  BY <1>3 DEF Rob, AskZeroToOne, AskChangeFate, Skill, Claim
<1>4. ASSUME NEW h \in Handlers, TakesLock(h) \/ Acts(h) PROVE UNCHANGED <<failures, crashed>>
  <2>1. CASE TakesLock(h)
    BY <2>1 DEF TakesLock
  <2>2. CASE Robs(h)
    BY <2>2 DEF Robs, Saves
  <2>3. CASE ZeroToOne(h)
    BY <2>3 DEF ZeroToOne, Saves
  <2>4. CASE ChangeFate(h)
    BY <2>4 DEF ChangeFate, Saves
  <2>5. CASE Golden(h)
    BY <2>5 DEF Golden, Saves
  <2> QED
    BY <1>4, <2>1, <2>2, <2>3, <2>4, <2>5 DEF Acts
<1>5. ASSUME NEW h \in Handlers, SaveLands(h) PROVE UNCHANGED <<failures, crashed>>
  BY <1>5 DEF SaveLands
<1>6. ASSUME NEW h \in Handlers, SaveFails(h) PROVE failures' = failures + 1 /\ UNCHANGED crashed
  BY <1>6 DEF SaveFails
<1>7. CASE NewDay \/ Restart
  <2>1. UNCHANGED failures /\ (crashed => crashed')
    BY <1>7 DEF NewDay, Restart
  <2> QED
    BY <1>1, <2>1
<1>8. ASSUME UNCHANGED <<failures, crashed>> PROVE failures <= failures' /\ (crashed => crashed')
  BY <1>1, <1>8
<1>9. ASSUME failures' = failures + 1, UNCHANGED crashed PROVE failures <= failures' /\ (crashed => crashed')
  BY <1>1, <1>9
<1> QED
  BY <1>2, <1>3, <1>4, <1>5, <1>6, <1>7, <1>8, <1>9 DEF Next

LEMMA ChipsInit == Init => ChipsInv
<1> SUFFICES ASSUME Init PROVE ChipsKept
  BY DEF ChipsInv
<1>1. \A h \in Handlers : work[h] = NoWork
  BY DEF Init
<1>2. \A h \in Handlers : UnderLocks(economy, h, work[h], failures)
  BY <1>1 DEF UnderLocks, NoWork
<1>3. AtStake = 0
  <2> DEFINE f == [h \in Handlers |-> Ahead(cache, work[h])]
  <2>1. f \in [Handlers -> Int] /\ \A h \in Handlers : f[h] = 0
    BY <1>1 DEF Ahead, NoWork
  <2>2. AtStake = SumFunctionOnSet(f, Handlers)
    BY DEF AtStake
  <2> HIDE DEF f
  <2> QED
    BY <2>1, <2>2, HandlersAssumption, SumOfZeros
<1>4. Total(cache) = Total(StartDocs) /\ Total(StartDocs) \in Int /\ minted = 0
  BY StartAssumption, TotalTyped DEF Init
<1> QED
  BY <1>2, <1>3, <1>4 DEF ChipsKept

LEMMA ChipsNext == Inv /\ ChipsInv /\ [Next]_vars => ChipsInv'
<1> SUFFICES ASSUME Inv, ChipsInv, [Next]_vars PROVE ChipsInv'
  OBVIOUS
<1>1. Inv' /\ failures \in Nat /\ failures' \in Nat /\ failures <= failures' /\ (crashed => crashed')
  <2>1. Inv'
    BY InvNext
  <2>2. failures \in Nat /\ failures' \in Nat
    BY <2>1, BoundsAssumption DEF Inv, CountersTyped
  <2> QED
    BY <2>1, <2>2, FaultsStay
<1>2. CASE crashed' \/ failures' > 1
  BY <1>2 DEF ChipsInv
<1>3. CASE ~crashed' /\ failures' <= 1
  <2> SUFFICES ChipsKept'
    BY DEF ChipsInv
  <2>1. ChipsKept
    BY <1>1, <1>3 DEF ChipsInv
  <2>2. CASE UNCHANGED <<cache, economy, work, failures, minted>>
    <3>1. (\A h \in Handlers : UnderLocks(economy, h, work[h], failures))'
      BY <2>1, <2>2 DEF ChipsKept, UnderLocks, LockedSaves, HeldOrWanted, UndoesAll
    <3>2. AtStake' = AtStake
      BY <2>2 DEF AtStake, Ahead, Onward, PutBack, Later, Change, Worth
    <3>3. Total(cache)' = Total(cache) /\ Total(StartDocs)' = Total(StartDocs)
      BY <2>2 DEF Total, Worth
    <3> QED
      BY <2>1, <2>2, <3>1, <3>2, <3>3 DEF ChipsKept
  <2>3. ASSUME NEW h \in Handlers, NEW u \in Users,
               \/ \E v \in Users, n \in Amounts : Rob(h, u, v, n)
               \/ AskZeroToOne(h, u) \/ AskChangeFate(h, u) \/ Claim(h, u)
        PROVE  ChipsKept'
    BY <1>1, <2>1, <2>3, RobChips, AskChips, ClaimChips
  <2>4. ASSUME NEW h \in Handlers, TakesLock(h) \/ Acts(h) PROVE ChipsKept'
    BY <1>1, <2>1, <2>4, TakesLockChips, RobsChips, ZeroToOneChips, ChangeFateChips, GoldenChips DEF Acts
  <2>5. ASSUME NEW h \in Handlers, SaveLands(h) \/ SaveFails(h) PROVE ChipsKept'
    BY <1>1, <1>3, <2>1, <2>5, SaveLandsChips, SaveFailsChips
  <2>6. CASE Restart
    BY <1>3, <2>6 DEF Restart
  <2>7. CASE NewDay \/ UNCHANGED vars
    BY <2>2, <2>7 DEF NewDay, vars
  <2> QED
    BY <2>3, <2>4, <2>5, <2>6, <2>7 DEF Next
<1> QED
  BY <1>1, <1>2, <1>3

\* Robbery!NoChipsFromNothing, as long as no second save raises: whoever robs whom, whatever
\* is given back and granted meanwhile, and whether the saves of a command land or the first
\* of them to raise has both documents put back, users hold no more together than they did
\* before, but for what was minted.  A save that raises while the documents are put back may
\* leave one of them as it was and the other not, and then this need not hold.
THEOREM ChipsOnlyMove == Spec => [](failures <= 1 => NoChipsFromNothing)
<1>1. Inv /\ ChipsInv => (failures <= 1 => NoChipsFromNothing)
  <2> SUFFICES ASSUME Inv, ChipsInv, failures <= 1, ~crashed,
                      \A h \in Handlers : work[h].at \notin {"saving", "undoing"}
               PROVE  Total(cache) <= Total(StartDocs) + minted
    BY DEF NoChipsFromNothing
  <2>1. ChipsKept
    <3>1. failures \in Nat
      BY BoundsAssumption DEF Inv, CountersTyped
    <3> QED
      BY <3>1 DEF ChipsInv
  <2>2. AtStake = 0
    <3> DEFINE f == [h \in Handlers |-> Ahead(cache, work[h])]
    <3>1. f \in [Handlers -> Int] /\ \A h \in Handlers : f[h] = 0
      BY DEF Ahead
    <3>2. AtStake = SumFunctionOnSet(f, Handlers)
      BY DEF AtStake
    <3> HIDE DEF f
    <3> QED
      BY <3>1, <3>2, HandlersAssumption, SumOfZeros
  <2>3. Total(cache) \in Int /\ Total(StartDocs) \in Int /\ minted \in Int
    BY StartAssumption, TotalTyped DEF Inv, SoundDocs, CountersTyped
  <2> QED
    BY <2>1, <2>2, <2>3 DEF ChipsKept
<1>2. Spec => []ChipsInv
  BY ChipsInit, ChipsNext, InvInit, InvNext, PTL DEF Spec
<1> QED
  BY <1>1, <1>2, InvAlways, PTL
=============================================================================
