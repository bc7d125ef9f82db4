SPECIFICATION FairSemaphoreSpec
CONSTANTS
    Tasks = {t1, t2, t3, t4}
    Slots = 1
    MaxStreak = 2
INVARIANTS SlotsConserved
PROPERTIES ImplementsPool EveryWaiterServed
