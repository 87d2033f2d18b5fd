\* Three schemas, three reviews, and a discovery that may write at any time.
SPECIFICATION Spec
CONSTANTS
    None = None
    Schemas = {s1, s2, s3}
    Discoveries = {d1}
    Reviews = {r1, r2, r3}
SYMMETRY Symmetry
INVARIANTS OneRunnableVersion LastReviewRuns PolicyFollowsVersion
CHECK_DEADLOCK FALSE
