\* A retry that can no longer be cancelled.
SPECIFICATION Spec
CONSTANTS
    m1 = m1
    m2 = m2
    c1 = c1
    c2 = c2
    Messages = {m1, m2}
    Submitters = {c1, c2}
    Slots = 1
    Setups <- LateRetry
PROPERTIES QueuedMailCanBeCancelled
