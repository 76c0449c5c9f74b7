CONSTANTS
    w1 = w1  f1 = f1  t1 = t1  t2 = t2
    Keys = {k1}
    Workers = {w1, w2}
    WorkerOf <- MCWorkerOf
    Origins = {f1, f2}
    Answers <- MCAnswers
    NoAddr = NoAddr
    NoSession = NoSession
    QueueCapacity = 2
    SenderCapacity = 2
    MaxPackets = 3
SPECIFICATION FairSpec
INVARIANTS TypeOK OneSession MappingAgrees AtMostOneLost
PROPERTIES InOrder Settles
CHECK_DEADLOCK FALSE
