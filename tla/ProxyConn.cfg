SPECIFICATION FairSpec
CONSTANTS
    s1 = s1
    s2 = s2
    w1 = w1
    w2 = w2
    Handle <- MCHandle
    Server <- MCServer1
    Worker <- MCWorker
    MaxConn = 2
    MaxReq = 2
INVARIANTS TypeOK AnswerToAskerFromMainThread AnsweredOnce ListedOnlyIfConnected
PROPERTIES RequestsAnswered
CHECK_DEADLOCK FALSE
