\* Callers, removals and the shutdown around the owner of one database.
SPECIFICATION FairSpec
CONSTANTS
    c1 = c1
    c2 = c2
    c3 = c3
    r1 = r1
    o1 = o1
    o2 = o2
    Callers = {c1, c2, c3}
    Readers = {r1}
    Writer = writer
    Owners = {o1, o2}
    None = none
    Capacity = 2
    Setups <- AllSetups
INVARIANTS OneOwner ClosedIsQuiet NoLateChange
  
