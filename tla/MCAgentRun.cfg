\* One run, two calls, three workers that may crash, one without a model key;
\* every job is delivered twice, and a turn escalates one call or both.
SPECIFICATION Spec
CONSTANTS
    None = None
    Runs = {r1}
    Calls = {c1, c2}
    Workers = {w1, w2, w3}
    Configured = {w1, w2}
    MaxAttempts = 2
    MayCrash = TRUE
CONSTRAINT Bounds
SYMMETRY Symmetry
INVARIANTS OneAnswerPerRun AnswerNeedsVerdicts OneModelPhase StreamInOrder
CHECK_DEADLOCK FALSE
