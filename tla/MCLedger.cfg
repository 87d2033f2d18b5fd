\* Two overlapping requests and two disbursements.
SPECIFICATION Spec
CONSTANTS
    None = None
    Journals = {j1, j2}
    Executions = {x1, x2}
    Amounts = {1}
    Cash = 3
    LedgerSessions = {s1, s2}
INVARIANT DebitsEqualCredits
CHECK_DEADLOCK FALSE
