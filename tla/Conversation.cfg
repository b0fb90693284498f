CONSTANTS
    q1 = q1
    q2 = q2
    s1 = s1
    Requests = {q1, q2}
    Sessions = {s1}
    SessionOf <- MCSessionOf
    Messages <- MCMessages
    Nobody = Nobody
    HistoryLimit = 2
    MaxRounds = 2
    MaxTurns = 2
    Window = 0
    MaxClock = 1
    MaxRestarts = 1
SPECIFICATION Spec
INVARIANTS TypeOK ExplicitDrafts DraftsReported QuestionHeard QuotaHeld
PROPERTIES QuestionsEnd
