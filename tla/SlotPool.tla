------------------------------ MODULE SlotPool ------------------------------
(***************************************************************************)
(* What a semaphore of speech syntheses promises: never more tasks inside  *)
(* than there are slots, and a slot is never handed to a task that does    *)
(* not ask for it.                                                         *)
(***************************************************************************)
EXTENDS Naturals, FiniteSets

CONSTANTS Tasks, Slots

VARIABLE place   \* where each task is

Place == {"out", "asking", "inside"}
Inside == {t \in Tasks : place[t] = "inside"}

Init == place = [t \in Tasks |-> "out"]

Move(t, from, to) ==
    /\ place[t] = from
    /\ place' = [place EXCEPT ![t] = to]

Ask(t) == Move(t, "out", "asking")
GiveUp(t) == Move(t, "asking", "out")
Enter(t) == Cardinality(Inside) < Slots /\ Move(t, "out", "inside")
Leave(t) == Move(t, "inside", "out")

\* A slot passes from the task that leaves to one that asks.
HandOver(t, u) ==
    /\ place[t] = "inside" /\ place[u] = "asking"
    /\ place' = [place EXCEPT ![t] = "out", ![u] = "inside"]

Next ==
    \E t \in Tasks :
        \/ Ask(t) \/ GiveUp(t) \/ Enter(t) \/ Leave(t)
        \/ \E u \in Tasks : HandOver(t, u)

Spec == Init /\ [][Next]_place
=============================================================================
