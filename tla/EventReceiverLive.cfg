SPECIFICATION FairSpec
CONSTANTS
    l1 = l1  w1 = w1  h1 = h1  h2 = h2  e1 = e1
    Listens = {l1}
    Waits = {w1}
    Hands = {h1}
    Events = {e1}
    MaxLeases = 1
    None = None
PROPERTIES CloseReturns AnswersReturn NameComesFree
CHECK_DEADLOCK FALSE
