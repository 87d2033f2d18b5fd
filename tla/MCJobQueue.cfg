\* A prompt and a slow job, three workers that may crash, two attempts a job.
SPECIFICATION FairSpec
CONSTANTS
    Jobs = {jPrompt, jSlow}
    Slow = {jSlow}
    Workers = {w1, w2, w3}
    MaxAttempts = 2
    None = None
INVARIANTS RetryBudget SingleExecutor
PROPERTIES CompletedIsFinal 
CHECK_DEADLOCK FALSE
