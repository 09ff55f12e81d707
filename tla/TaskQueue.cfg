\* Both modes under fair threads: a full broadcast buffer, a thread that
\* cancels, a rate limit, a retry, a processor that is dropped.
SPECIFICATION FairSpec
CONSTANTS
    t1 = t1
    t2 = t2
    c1 = c1
    s1 = s1
    NoTask = NoTask
    Tasks = {t1, t2}
    Cancellers = {c1}
    Subscribers = {s1}
    Capacity = 1
    MaxRpm = 1
    MaxRetries = 1
    MayStop = TRUE
INVARIANTS TypeOK HandleIsCurrent AtMostOneSurvivor NoTaskIsStranded
PROPERTIES FirstInFirstOut Implements EveryTaskEnds
