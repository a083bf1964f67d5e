\* A frozen site with a draft: publication, a crash, and the cancellation.
SPECIFICATION Spec
CONSTANTS
    a = a
    b = b
    c1 = c1
    c2 = c2
    startup = startup
    Calls = {c1, c2}
    Recovery = startup
    Pages = {a, b}
    Setups <- DraftSetups
INVARIANTS DraftsStayUnpublished
CHECK_DEADLOCK FALSE
