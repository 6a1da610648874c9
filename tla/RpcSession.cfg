\* A request and a notification of the body, a request of the handler.
\* A session that is over stops.
CONSTANTS
    BodyCalls = {c1, n1}
    HandlerCalls = {h1}
    OneWay = {n1}
    Reply = Reply
    StringIds = TRUE
    None = None
SPECIFICATION FairSpec
INVARIANTS
    QueueIsServed
    AnswerBeatsTimeout
    FuturesAreRemoved
PROPERTIES
    FirstAnswerCounts
    CallsEnd
    SessionEnds
CHECK_DEADLOCK FALSE
