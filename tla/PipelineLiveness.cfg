SPECIFICATION FairSpec
CONSTANTS
    o1 = o1  o2 = o2  bad = bad
    t1 = t1  t2 = t2
    Order = {o1, o2, bad}
    Topic = {t1, t2}
    Request = {r1, r2, r3}
    None = None
    Expiry = 1
    MaxBatch = 2
    Signable <- MCSignable
    Batches <- MCBatches
    TopicOf <- MCTopicOf
    Failures = {"broker", "ws"}
PROPERTIES
    EveryWakeupServed
CHECK_DEADLOCK FALSE
