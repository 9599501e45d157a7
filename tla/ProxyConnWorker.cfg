SPECIFICATION Spec
CONSTANTS
    s1 = s1
    s2 = s2
    w1 = w1
    w2 = w2
    Handle <- MCHandle1
    Server <- MCServer1
    Worker <- MCWorker1
    MaxConn = 2
    MaxReq = 1
INVARIANTS AnswerToAsker
CHECK_DEADLOCK FALSE
