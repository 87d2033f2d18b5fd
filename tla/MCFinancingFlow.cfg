\* Two execution ids, so that the flow can be started twice.
SPECIFICATION Spec
CONSTANTS
    None = None
    Transfers = {t1, t2}
    Holds = {h1}
    Reversals = {r1}
    Journals = {j1, j2}
    Executions = {x1, x2}
    Amounts = {1}
    Funds = 3
    PerTransfer = 2
    Daily = 3
    Cash = 3
    BankSessions = {b1, b2}
    LedgerSessions = {l1, l2}
    CaseTransfer = t1
    CaseJournal = j1
    CaseAmount = 1
SYMMETRY Symmetry
CONSTRAINT Bounds
INVARIANTS BankBooks LedgerBooks PaidWasPosted ReconciledMeansPaid
CHECK_DEADLOCK FALSE
