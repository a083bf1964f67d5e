\* A published page, a draft and a file; two callers, crashes and failures.
SPECIFICATION FairSpec
CONSTANTS
    a = a
    b = b
    c1 = c1
    c2 = c2
    startup = startup
    Calls = {c1, c2}
    Recovery = startup
    Pages = {a, b}
    Setups <- AllSetups
INVARIANTS GuestsKeepPublished ReferencedObjectsExist FrozenHasCheckpoint
PROPERTIES RestoredIsCheckpoint NothingUnseenDiscarded  EditsKeepOut JournalSettles
\* Every call may have ended.
CHECK_DEADLOCK FALSE
