\* Two queries, with either engine.
SPECIFICATION FairSpec
CONSTANTS
    q1 = q1  q2 = q2
    Queries = {q1, q2}
INVARIANTS TypeOK QueriesAccounted
PROPERTIES AnswersInOrder EveryQueryAnswered
\* Each query is used once.
CHECK_DEADLOCK FALSE
