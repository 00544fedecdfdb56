SPECIFICATION FairSpec
CONSTANTS
    a1 = a1  a2 = a2  w1 = w1  w2 = w2
    Answers = {a1, a2}
    Workers = {w1, w2}
    MaxRounds = 1
    None = None
INVARIANTS DeliveredStaysStopped AnswerEndsWorking LoneRefusalRestores
CHECK_DEADLOCK FALSE
PROPERTIES AnswersGoOut
