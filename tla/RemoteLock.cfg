SPECIFICATION Spec
CONSTANTS
    Proc = {p1, p2, p3}
    Locks = {l1, l2}
    None = None
    MaxCalls = 2
    MaxRefreshes = 1
    MaxAttempts = 3
SYMMETRY Symmetry
INVARIANT AnswersAreTrue
PROPERTIES
    GuardIsMutex
    PlansFollowReviews
CHECK_DEADLOCK FALSE
