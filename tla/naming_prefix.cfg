SPECIFICATION Spec
CONSTANTS
    Labels = {l1, l2}
    Numbers = {n1}
    MaxProjects = 2
    None = none
    Drafts = {d1, d2}
    Namers = {w1, w2}
    Reviewers = {r1}
    MaxTrouble = 1
    MaxReviews = 1
INVARIANTS
    PrefixIsOfficial
CHECK_DEADLOCK FALSE
