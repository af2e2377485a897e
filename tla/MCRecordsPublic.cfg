CONSTANTS
    Statements = {s1}
    Extractions = {"x1"}
    Scans = {k1}
    NoGo = {s1}
    Reviewers = {"isaac", "ruth"}
    BatchReviewer = "isaac"
    Asked = {"approved", "corrected", "disputed", "hold"}
    Targets = {"reviewed_source_linked"}
    Items = {a1, a2}
    MaxDecisions = 3

SPECIFICATION Spec
SYMMETRY MCSymmetry
CHECK_DEADLOCK FALSE

INVARIANT PublicPassesTheGate
