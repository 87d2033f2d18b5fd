SPECIFICATION PlatformSpec
CONSTANTS
    operator = operator
    reviewer = reviewer
    registrar = registrar
    kaveri = kaveri
    other = other
    submitted = submitted
    older = older
    registered = registered
    fresh = fresh
    b1 = b1
    b2 = b2
    n1 = n1
    g1 = g1
    po = po
    inv = inv
    d1 = d1
    o1 = o1
    bill = bill
    GstUsers = {operator, reviewer, registrar}
    Enterprises = {kaveri, other}
    RolesOf <- MCRolesOf
    FirstOf <- MCFirstOf
    BrowserSessions = {s1}
    Tabs = {t1, t2}
    GstRequests = {q1, q2}
    Invoices = {submitted, older, registered, fresh}
    InvoiceSeed <- MCInvoiceSeed
    InvoiceLines <- MCInvoiceLines
    Queries = {"full", "part"}
    MatchesOf <- MCMatchesOf
    DatedAt <- MCDatedAt
    BuyerOf <- MCBuyerOf
    Figures <- MCFigures
    Declared <- MCDeclared
    Categories = {"MICRO", "MEDIUM"}
    Nobody = Nobody
    Businesses = {b1, b2}
    Identities = {n1, n2}
    Gstins = {g1, g2}
    Changes = {c1, c2}
    BusinessSeed <- MCBusinessSeed
    MaxRecordVersion = 3
    Absent = Absent
    Orders = {o1}
    Quantity <- MCQuantity
    OrderSeeds = {"NONE", "SUBMITTED"}
    Receipts = {r1, r2}
    SupplierInvoices = {bill}
    Parties = {"trade"}
    PartiesOf <- MCPartiesOf
    Terms <- MCTerms
    ErpRequests = {x1, x2}
    MaxVersion = 2
    NoRow = NoRow
    Deliveries = {d1}
    Ordered <- MCOrdered
    SeedRows <- MCSeedRows
    Proofs = {p1, p2}
    Sources = {po, inv}
    ReferencesOf <- MCReferencesOf
    SourceEvents <- MCSourceEvents
    Unset = Unset
    Subjects <- MCSubjects
    GstScope = kaveri
    DemoUsers = {registrar}
    DemoTabs = {t1}
    DemoRequests = {q1}
    DemoCategories = {"MICRO"}
    admin = admin
    user = user
    run1 = run1
    ChatSessions = {s2}
    Chats = {c3, c4}
    Writers = {w1, w2}
    MaxItems = 4
    Nowhere = Nowhere
    People = {admin, user}
    OrgAdmins = {admin}
    Memories = {m1, m2}
    Embedders = {e1}
    ContextRuns = {run1}
    RunUser <- MCRunUser
    RecallLimit = 1
    Nil = Nil
    VaultObjects = {v1, v2}
    VaultRequests = {y1, y2}
    NoObject = NoObject
CONSTRAINT Bounds
SYMMETRY ReceiptsAndRequests
INVARIANTS
    MovedByOwnStaff
    SawWhatItChanges
    AcceptedWasReceived
    ReceiptsAddUp
    FulfilmentBacked
    VerdictGrounded
    ItemsInOrder
    ForgottenIsErased
    DeletedIsErased
PROPERTIES
    TerminalIsFinal
CHECK_DEADLOCK FALSE
